# Qmonster in TLA+

Qmonster is a terminal dashboard that watches the tmux panes in which coding
agents (Claude Code, Codex, Gemini, Antigravity) work. About once a second it
lists the panes, captures their text, extracts facts from it, evaluates rules and
shows what they recommend. It writes into a pane only when the operator accepts a
proposal. This directory holds TLA+ modules of its stateful parts, the TLC
configurations that check them, and TLAPS proofs.

Paths below are relative to the root of the repository. "The loop" is
`run_once_with_target` in `src/app/event_loop.rs`, which one thread runs once per
poll and then returns to the keyboard (`src/app/tui_loop.rs`).

## 1. Inventory

### How the parts interact

    tmux / herdr --list, capture--> observe loop --signals--> rules --recommendations,
        ^                            |   ^   |                  effects--> notifier, archive
        |                            |   |   +--rows--> sqlite: audit, anomaly history,
        |  send-keys                 |   |              token and cost usage
        |                            v   | at start: replay, retention
      prompt send <--p, d, u, Enter-- dashboard --S, t, w ...--> settings, target picker,
                                     |  ^                        other overlays
                        Space, clicks|  |rows
                                     v  |
                                   alert queue

Everything runs in one thread. Interleaving comes from the environment: panes die,
respawn and change their text between any two polls; polls go on while a modal
is open; tmux executes commands whose answer is lost; the process stops
anywhere and only files and tables survive.

### Components

| component | state it keeps | operations | what is hard | what makes it correct |
|---|---|---|---|---|
| **Observe loop** `app/event_loop.rs`, `app/bootstrap.rs`, `domain/lifecycle.rs`, `app/polling_tick.rs`, `app/system_notice.rs` | lifecycle tracker, known pane ids, about ten per-pane caches in `Context` | one poll: list, forget, per pane reset / parse / evaluate / update | a pane id outlives its program; polls fail; order of reads and writes of a cache inside one iteration | a report speaks of the present lifetime only, and equals what the observations imply |
| **Anomaly window** `store/anomaly_history.rs`, `store/anomaly_sink.rs`, `policy/rules/anomaly.rs` | ten deques per pane, a table of rows, the replayed set | push, trim, persist, replay once per session, purge | restart, gaps, lost rows, respawn during hydration | deques stay aligned and ordered, nothing stale is spliced in |
| **Anomaly detectors and ring** `policy/rules/anomaly.rs`, `domain/anomaly.rs`, `app/anomaly_events_ring.rs` | edge-trigger map, ring of events | detect, filter, dedup, promote | map advanced for some outcomes only; settings and provider change within an episode | each episode is told once, and in time |
| **Prompt send** `app/prompt_send_actions.rs`, `app/action_explainer.rs`, `policy/gates.rs` | the pending action, the kinds already explained, the audit chain | `p`, `d`, Enter, Esc; accept, dismiss | polls and settings change what the modal shows | what was confirmed is what is done; audit and pane agree |
| **tmux transport** `tmux/*.rs` | the control-mode client | list, capture, two-step send, reconnect | an answer lost after execution; no timeout of a read | bounded retry, every send ends |
| **Effects and notifications** `policy/rules/idle.rs`, `policy/rules/alerts.rs`, `app/effects.rs`, `notify/*.rs` | last idle cause, last notification per pane and action | raise, permit, limit | edge-triggered alerts behind a rate limiter | distance kept, nothing urgent starved |
| **Cost ledger** `store/cost_usage.rs`, `policy/rules/cost_budget.rs` | ledger rows, claimed thresholds | record, sum, claim, report, prune | cumulative readings that restart; claim before report; restart | the ledger does not overcount, each threshold is told once |
| **Configuration and settings** `app/config.rs`, `ui/settings/mod.rs`, `app/settings_overlay.rs` | running configuration, marks, status, the file | edit, toggle, clear, save, reopen, restart | three versions of one value: typed, running, saved | what is not saved is marked; no misordered pair is saved |
| Storage paths and startup `app/startup.rs`, `app/path_resolution.rs`, `app/safety_audit.rs`, `app/version_drift.rs` | root directory, version snapshot | load, `--set`, sweep, drift | partial failure at start | a start loses nothing that was saved |
| **Automatic snapshots** `app/auto_snapshot.rs` | the window last written, per pane and kind | write near a reset | ids rounded from timestamps; repeated failure; gates that change | one snapshot per window, none missed in silence |
| **Runtime refresh** `app/runtime_refresh.rs` | audit chain | `u`: send the provider's status command | sends without an acceptance; each can fail | nothing is sent in observe-only; audit and keys agree |
| **Alert queue** `ui/alerts.rs`, `app/dashboard_state.rs`, `app/dashboard_runtime.rs` | newness, times and hide deadlines per row, the selected row, the first click of two | refresh, sort, group into flows, hide, undo, hide by severity | a row is a set of alerts that come and go; rows move under the operator | hiding is local, what comes back is seen, the worst is on top |
| **Cross-pane rules** `policy/rules/concurrent.rs` | none | compare the reports of one poll | groups that span windows behind a gate | two panes on one branch are named together |
| **Policy rules** `policy/engine.rs`, `policy/rules/*.rs` | none | every rule over one pane's poll, the effects asked for | rules that judge the same reading in opposite ways | the advice of a poll is consistent |
| **Identity resolver and adapters** `domain/identity.rs`, `adapters/*.rs` | none but the tail ring | evidence to identity, screen to signals | evidence that contradicts itself | in doubt only alerts, no advice and no commands |
| Stores `store/audit.rs`, `retention.rs`, `token_usage.rs`, `snapshots.rs`, `archive_fs.rs` | tables and files | append, prune | lost writes | append-only, the window is kept |
| **Overlays and target picker** `app/tui_loop.rs`, `app/target_picker.rs`, `modal_state.rs`, `provider_setup_overlay.rs`, `fx_overlay.rs` | which overlay is open, its cursor, the selected target | keys, clicks, switch of the target | keys and clicks ask the overlays in different orders; polls in between | one owner at a time, reports of the target they are labelled with |
| Git and worktree information `app/git_info.rs`, `worktree_info.rs` | cache with an age per directory | look up, refresh, expire | stale answers | never older than its age |
| herdr source `herdr/*.rs` | none | list, capture, send | as tmux | as tmux |
| Rendering `ui/**` | none the core reads | draw | layout | - |

The parts in bold have modules here. `PROJECT.json` lists the same parts
with their status, and the hazards of the code at the line where each bites.

## 2. Modules

The loop is one function of nine hundred lines whose slices share little: the pane
lifecycle, and nothing else that matters to the properties. So each slice is a
module of its own and all of them use `PaneLifecycle`, rather than one module with
the product of their states.

    PaneLifecycle <-- ObserveLoop <-- ObserveLoopHistory <-- MCObserveLoop, ObserveLoopProofs
         ^                                 | implements
         |                                 v
         |                             PaneReports
         |------ AnomalyReplay <-- AnomalyReplayProofs
         |------ AnomalyDedup <-- AnomalyDedupProofs, MCAnomalyDedup
         |            '--> AnomalyDetectors
         |------ PaneAlerts <-- AlertProofs
         |
         '------ PaneAdvice <-- PaneAdviceProofs, MCPaneAdvice
                    '--> CrossPaneRules --> PolicyRules --> Identity

    CostBudget <-- AlertProofs

    AlertQueue <-- AlertBoard <-- DashboardProofs, MCAlertBoard
               DashboardInput <-- DashboardProofs, MCDashboardInput

    PromptSend <-- PromptSendProofs, MCPromptSend
         | implements
         v             SettingsEditor <-- SettingsEditorProofs, MCSettingsEditor
    PromptAudit

**ObserveLoop** - a poll is `ListFails`, or `ListPanes`, then `ObserveAlive` or
`ObserveDead` for every listed pane in any order, then `EndPoll`. Its variables are
the fields of `Context` they are named after. `ObserveAlive` is a whole iteration
of the pane loop for the state it models: lifecycle event, resets, tail ring, idle
state and its entry time, pressure cache, identity snapshot and drift keys, conflict
log, report. Text is abstracted to observations: what the resolver and the adapters
extract. Each cached value carries the poll that gathered it (`at`), and `born` the
poll that first saw the present lifetime; both exist only for the properties.

**PaneReports** - the abstract specification: no caches; a report is a function of
everything the polls have shown of the pane, of which only the last unbroken run of
live observations counts. `ObserveLoopHistory` adds the log this needs.

**AnomalyReplay** - the same iteration seen by the anomaly window. The ten deques
fall into those filled before the rules run (`pre`) and those filled after
(`post`); one deque stands for each group. A sample is the second of its
observation. `Restart` keeps only the table, purged or not.

**AnomalyDetectors** - the eight detectors as operators on a window of samples, one
record per tick in place of one deque per field. Thresholds are integers, the
factors one and a half and two are multiplied out, and time is counted in polls.

**AnomalyDedup** - what the loop makes of them: the window of a pane, the map of the
kinds that were told and not yet rearmed, the filter by confidence, promotion and
the notification. `ObserveAlive` is the slice of an iteration from the push of the
samples to the Notify effect, with the paths of the poll's cross-pane findings
folded in at its end; `ChangeSettings` switches the detectors, the window or the
minimum between any two observations. `told`, `raised`, `lapsed` and `due` are
history: they count tellings per episode, an uninterrupted run of observations in
which the detector is not silent.

**Identity**, **PolicyRules**, **CrossPaneRules** - the pure middle of the loop as
operators: `Resolve` from the evidence of a listing to an identity with its
confidence; `ParseFor`, which of the signals on a screen each adapter passes on; the
rules of one pane, one operator per rule with its gate, guard and severity;
`Effects`, what the engine asks for; `EvaluateCrossPane`. Ratios are percentages, a
rule's wording is its name.

**PaneAdvice** - composes them as the loop does. `Poll` is a whole poll: per live
pane the lifecycle event and its resets, identity, signals, pressure cache, errors,
recommendations and effects, then the snapshots that are due (each of which the disk
may refuse), and at its end the cross-pane findings. `Wait` lets the clock reach the
providers' windows, `Configure` changes the gates between polls, `Restart` forgets all.
A provider may show a reset before or past its window's end, by any of `Offsets`.
`taken` is history: how often the window a pane shows was written, and how often its
reset moved to another minute.

**AlertQueue**, **AlertBoard** - `Rows` folds the recovery alerts of a pane into one
flow, `Place` sorts. `AlertBoard` keeps what the dashboard keeps per row key: newness,
age, hide deadline; `Poll`, `ChangeNotices` and `Tick` refresh it, keys and clicks
select, hide and undo. The model has both orders of the rows: the one that is drawn
(`ShownAt`) and the one in which a key is looked up (`LookedUpAt`).

**DashboardInput** - which overlay gets a key and which gets a click, in the orders of
the loop; what opens and closes each; the target picker with its two stages over
windows that come and go; and the poll that follows a switch of the target. `strayed` is
history: whether something led the open picker away from what is watched.

**PromptSend** - the dashboard's keys (`OpenExplainer`, `ActDirectly`, `Confirm`,
`Cancel`, `Select`, the settings overlay, and `RefreshRuntime`, the `u` key, which
sends a status command without a proposal), polls that replace the reports at any
moment no send is under way, and the send itself: text, then submit, each a command
that is answered, refused, or whose stream ends before or after tmux executed it
(`SendLost`, `Reconnect`). A process per command (the other transport) is the
case in which no stream is lost. `Crash` may happen anywhere.

**PromptAudit** - the abstract specification: a decision leaves one of five audit
chains and a refresh one of its own, keys reach a pane only between an acceptance or a
request and its outcome, and the gate
stands still meanwhile.

**PaneAlerts** - idle and error recommendations, the permission of the settings and
the rate limiter, over polls any distance apart. The history `stay` is the pane's
unbroken stay in one idle cause: whether the poll that entered it only observed, and how
often it was raised.

**CostBudget** - `Work`, new sessions and model switches in the panes; observation,
claims and reports of the loop with failing writes; restarts that prune.

**SettingsEditor** - one threshold section (a default row, an override per
scope, the legacy override), one integration switch and three kinds of parameters
(typed, toggled, toggled from the dashboard), the overlay's edit buffer, filter and
marks, saves that succeed, are refused or tear the file, restarts and `--set`. The
file is a function on its lines: two for each table of thresholds, one for each other
value. `Torn` is what a write that stops (`fs::write` truncates, then writes) leaves of
them: the lines before it, the last one whole or cut (of a number some digits may be
left), or nothing that can be parsed. `Loads` is the loader's refusal of a table with one
threshold only, and a `Restart` needs it. The histories `torn` and `spoiled` tell of
which tables, and of which running rows, such a write is the source. A
typed threshold is an integer whose stored form is rounded up to an even one: the
narrowing to 32 bits, which may make two different numbers equal.

## 3. Runs

Every run has a mutant per property: a plausible bug in one definition (they
are the definitions marked "Fault") under which TLC finds the property violated.

| run | bounds | what it shows |
|---|---|---|
| `observe_one_pane` | 1 pane, 5 polls, ring of 2, 10 observations | `LifecycleTracksListings`, `NothingOutlivesItsPane`, and every report is the one `PaneReports` defines |
| `anomaly_window` | window 3, seconds 1 2 3 4 11 12 24 | `WindowsAligned`, `PostNewestFirst`, `NoReplayAcrossALongGap`, `RespawnStaysFresh`, `FindingsStayVisible` |
| `anomaly_dedup` | 1 pane, 4 readings, windows 2 and 3, minimum medium or high | `EpisodesAreToldOnce`, `EpisodesAreTold`, `FirstSightIsSilent` |
| `prompt_dashboard` | 2 panes, 2 commands, 3 listings, every configuration | `ModalKeepsItsPromise`, `SendsOnlyLiveProposals`, `OutcomeBoundsDelivery`, `AuditTellsOfAnsweredSends`, `ImplementsPromptAudit`, `EverySendEnds` |
| `pane_alerts` | 1 pane, polls at 0 4 6 31 36 s | `NotificationsKeepTheirDistance`, `UrgentIsNeverStarved`, `StaysAreRaisedOnce` |
| `cost_budget` | 2 panes, 2 prices, 2 tokens of work, 1 switch, 2 days | `SteadyLedgerNeverOvercounts`, `EachAlertOnce`, `ReachedThresholdsAreClaimed` |
| `alert_board` | 1 pane, 6 listings of 5 alerts, 1 notice, hides of 2 ticks, ages to 1 | `HidesNeverRegroup`, `UrgentFirst`, `ComesBackVisible` |
| `dashboard_input` | 3 windows of 2 sessions, all overlays | `OneModal`, `ReportsMatchTarget`, `PickerStartsAtTarget` |
| `pane_advice` | 3 panes, 6 moments, windows of 4 and 5, 3 configurations | `OneSnapshotPerWindow`, `NoWindowMissed`, `InDoubtOnlyAlerts`, `UsedUpQuotaIsARisk`, `CompactAdviceAgrees`, `ClashesAreTold` |
| `settings_editor` | 1 scope, 3 parameters, 5 threshold values, 3 edits or torn saves, 3 initial files, 2 orders of lines | `UnsavedIsMarked`, `SavedIsLoadedAgain`, `FilePairsOrdered`, `WarningNeverAboveCritical` |

Two more runs, `alert_hide` and `conflict_advice`, are expected to end in a violation;
section 6 explains them. TLC checks the type invariant of `AnomalyReplay` in its run; the
other state machines state theirs too, and every one is proved (section 4; that of
`PaneAdvice` is written into its inductive invariant).

Why the bounds are enough:

- *Observe loop.* The longest dependency between polls is: fill the ring (2), be
  still, die or vanish, come back, be reported again. Five polls hold all of it.
  Ten observations are one of each kind that changes a branch. No cache
  of one pane is read for another, so further panes add only the set of known ids and
  the order of a poll; the proofs cover any number of panes.
- *Anomaly window.* The seconds are chosen around the thresholds of a window of
  3: consecutive ones, a gap of 7 (over twice the window, 6) and one of 12 (the
  retention). The window overflows, restarts fall before, between and after, also
  within one second. The proofs hold for any window and any times.
- *Anomaly dedup.* The state space is finite without a bound on time. The four
  readings are a quiet one and three that deviate in several fields at once; with
  windows of 2 and 3 and the smallest thresholds every detector of the eight is
  told, and all but the one that is always medium reach high. Panes share no entry,
  so one suffices.
- *Prompt send.* Between two polls a proposal moves to another row, ceases to be
  the first, or disappears, and the list shrinks below the selection. Of `mode`
  only `observe_only` is told apart by the code; the other two values behave alike.
- *Alerts.* Polls are 2, 4, 5, 6, 25, 27, 30, 31, 32 or 36 seconds apart: below, at and
  above the gaps of 5 and 30. The gap of 60 belongs to severities that never notify.
- *Ledger.* A budget of 6 units is crossed at both thresholds by two panes of two
  tokens at prices 1 and 2, also after one of them starts a new session.
- *Settings.* Three edits make a pair (two thresholds) plus one parameter, or one edit
  before and one after a torn save; the values 0 to 4 include two that round to the same
  stored number. The two orders put the lines of the default pair, of the override and of
  the legacy table first, with either threshold of a pair left alone or cut: an inverted
  default pair and an inverted override are loaded, and half an override and half a
  legacy table keep the program from starting. Once the three are spent no field is
  opened any more, since nothing typed into it could be committed.

- *Alert board.* One pane suffices: a flow joins alerts of one pane, and sorting
  compares rows whatever their pane. The listings make a flow of two and of three,
  break it up, and put single alerts of the same and of a higher severity beside it; a
  hide is pending for one tick, passes in the next, and its row can be gone by then.
- *Dashboard input.* Every set of windows, every target and every overlay; finite
  without a bound.
- *Pane advice.* A listing belongs to one of three families (one pane with quota
  windows about to reset; one pane of each kind of identity with a full screen; three
  panes at work), since the rules of one pane read nothing of the others. Six moments
  hold the roll of the short window and of the long one, before and after the
  distances at which the rules advise. A minute is two units and a reset is shown up to
  one unit before or past its window's end, so it jitters within a minute and across the
  boundary of two; the longer window does not end on whole minutes.

Deadlock is not checked (`CHECK_DEADLOCK FALSE`): the other models
but `AlertBoard`, `AnomalyDedup` and `DashboardInput` (which are finite as they are; the last
stops when the operator quits) count something up to a bound, and stop there. Only the bounds of the polls, the clock, the
work and the edits are bounds of the model; the code has none. No symmetry is used.

### Fairness

Only `PromptSend` assumes fairness: `WF_vars(Tmux)`, tmux answers a command or its
stream ends. Nothing in Qmonster enforces it: `read_control_block` has no
timeout, so a tmux that hangs hangs the dashboard. Under that assumption
`EverySendEnds` says that Qmonster's own retry cannot go on for ever. All other
properties are safety properties and need no fairness.

## 4. Proofs

Every safety property of the runs that pass is also a theorem, for every value of the
constants its module allows; what TLC alone checks is named at the end of this section.

### The observe loop

`ObserveLoopProofs` proves, for any sets of panes, observations, tails and errors,
any ring of 2 to 12 (the code's clamp) and any number of polls:

- `Invariance`: `IInv` holds in every reachable state;
- `TypeCorrect`, `LifecycleTracked`, `NoStaleLifetime`: hence `TypeOK`,
  `LifecycleTracksListings` and `NothingOutlivesItsPane` do;
- `ReportsAreImplemented`: the loop implements `PaneReports`.

`NothingOutlivesItsPane` is not inductive: a step that begins a lifetime must know
that the caches it does not reset are empty. Hence
`IInv == TypeOK /\ PollProgress /\ LifecycleTracksListings /\ UnseenHasNoCache /\
NothingOutlivesItsPane`. A lifetime begins with `Reappeared`, which resets every
cache, or with `Appeared`, which resets none; the second happens only to a pane that was never
seen, and `UnseenHasNoCache` says it has nothing cached. `LifecycleTracksListings`
excludes that a lifetime begins with `Unchanged`: the tracker says alive exactly
while `born` does, because the only panes that can be alive are those of the last
listing, the ones `Forget` visits. `PollProgress` orders the stamps.

The refinement is about incremental state: the loop keeps a ring, a pressure cache, an
idle entry and a drift key and never looks back, `PaneReports` recomputes all of them
from the whole log. `HistoryInv` says that each cache is that function of the log:
`Explained(p)` finds the poll at which the present lifetime starts (`StartsAt`), gives the
caches of a living pane the values `PaneReports` computes from there on, and says for a pane
that is not alive what is left. Three lemma groups carry a step over it: how the last live
run of a log grows or ends when an entry is appended, what each abstract operator (last
readings, stillness, entry into an idle state, conflict) becomes when its sequence grows by
one entry, and that the ring holds the last tails of the lifetime. A poll that reports a
pane is then one step of `PaneReports` and every other action a stutter.

### The anomaly window and its detectors

`AnomalyReplayProofs` proves all six properties of its run for any panes, any window and
any finite set of seconds. `ReplayInv` is a conjunction per pane: `Filled` (both kinds
of deque are equally long, none exceeds the window, and a deque with an entry has one of this
session), `Sorted`, `Dated` (nothing is of the future), `Joined` (the gap between the oldest entry
of this session and the first replayed one), `Reborn` (nothing in a hydrated pane is older
than its respawn), `Untouched` (what a pane that was not hydrated may hold) and
`Marked`, `Visible` for the edit marks. A replay takes the newest rows of a table of
any size: `RowsToReplay`, and the lemmas on the places of a finite set of numbers before
it, say that they are distinct, descending and as many as asked for or as there are.
The property about long gaps counts the entries of this session (`own`); told by their
second alone, a row written in the very second of a restart passes for one of both
sessions.

`AnomalyDedupProofs` proves for any panes, readings, windows and minimum confidences
that an episode is told at most once (`ToldOnce`) and that one confident enough was
told (`Told`). For these two the detectors stay opaque: only that silence is the lowest verdict
is used, so they hold of any detectors. The invariant `DedupInv` adds to the
properties that an entry of the map is explained (`EntriesAreExplained`: its episode
was told, or it lapsed while the detectors were switched off), that whatever was told
has an entry, and that a pane which is not alive has no episode (`NoLifeNoEpisode`);
without the last, a pane id that comes back would inherit the count. `FirstSightSilent`
opens the detectors: on a window of one sample each of the eight is silent, whatever the
sample and the thresholds, and `SilentInv` says that a lifetime begins with such a
window because a pane that was not seen has an empty deque. It needs that thresholds are at
least one (`DetectorsAssumption`).

### Alerts and the ledger

`AlertProofs` proves, of `PaneAlerts`, all three properties of its run, for any set of
panes and of poll times. For the distance of notifications (`DistanceKept`) the
strengthening is
`LimitsCoverNotifications`: the limiter's last entry for a pane and an action is set as
soon as one was shown, is no earlier than any of them, and is never in the future. For
`NothingIsStarved` it is the converse, `LimitsAreNotifications`: every entry of the
limiter is a notification that was shown, so a recommendation that is held back was
preceded by one. `StayIsRaisedOnce` speaks of a history of whole stays (`stay`: when one
began, whether that poll only observed, how often it was raised since); its strengthening
`StaysAreFollowed` says that of a living pane the cause the next poll compares with is the
one of its stay, and that a pane without a lifetime has no stay - a dead pane may keep an
old cause, which the next lifetime must drop.

Of `CostBudget` it proves that an alert is told at most once in all runs of the program
together (`ToldAtMostOnce`), an argument about claims only, which holds of any
ledger: what is told has its claim on the disk (`ToldIsClaimed`), and what a poll holds in
memory was claimed in that poll and is not told yet (`RaisedIsNew`). The other two
properties are about sums. `LedgerIsWithinWork`: a pane whose sessions kept their model is never
counted for more than its tokens cost at the dearest price. What makes it inductive is
`WithinWork`: the ledger holds at most the finished work, or at most that and what its latest
row showed of the running session. A session that ends turns the second form into the
first; a reading that exceeds the latest row adds exactly the difference, one that falls short
adds itself to the finished work; pruning lowers the sum, and leaves the latest row
unless it leaves none (`PrunedFacts`, for which `RowsAscend` orders the rows by day).
`ThresholdsAreClaimed`: claims made without an error leave out no threshold the sum
of all panes has reached.

Sums and pruned ledgers are recursive functions over rows whose number has no bound.
Induction over numbers is not available as a scheme; `UpTo` obtains it for a set,
from the least element that well-foundedness gives (`LeastNatural`), `RecursionExists` builds
from it the function that a step rule defines, and `SumsAreUnique` says that there is one.
So `Counted` of an appended row is the sum before and its delta (`CountedAppend`), and the
total over a finite set of panes is a number (`TotalIsNat`).

### Advice and snapshots

`PaneAdviceProofs` proves all six properties of its run, for any finite listings,
screens, gates and lengths of the quota windows. Snapshots: `Sound` relates the map of a pane to what
was written: a mark is a minute in which a window up to the running one showed its reset,
the window on record was written once at most beyond the changes of its minute, and when it
was written as often as that, the mark is the minute shown last. So a poll that finds another
mark either sees a new minute, which counts, or a new window. That a mark of an earlier window
is never taken for one of the running window is arithmetic (`OneMinuteOneWindow`, from
`Division` and `WindowsFollow`): resets of two windows never lie in one minute. It survives
every reset because map and history are dropped together. The
other properties are about one report and hold by case analysis on the rules that can
raise an action, with the identity, the gate and the guard of each. Two of them were
stated more carefully for it, since a running pair of limits may be inverted (section 6):
a used-up quota is at or above both of its limits, and proposals and warnings agree when
both context limits are above the low context of the cache rules.

### The dashboard and the settings

`DashboardProofs` proves the three properties of the alert board for any finite sets of
alerts and notices, any listings and any delays: `HidingIsLocal`, `ComingBackIsSeen`,
`WorstIsOnTop`. Its invariant `BoardInv` says that the tracked keys are those of the
rows of what is listed now and that deadlines belong to tracked keys: a hide that outlived
its row would hide the one that comes back. That a flow has members of two categories,
hence is never a single alert, is what makes keys tell rows apart.

It also proves of `DashboardInput`, for any sessions and windows, that one modal at most is
open (`OneOwner`), that the reports shown are of the selected target (`TargetIsShown`)
and that the picker is at it, at either stage, until another choice is highlighted or
clicked (`PickerIsAtTarget`, by the invariant `PickerAtHome`). They are inductive
with types that say what each stage of the picker may hold (`WellFormed`).

`PromptSendProofs` proves, for any panes, commands, reports, configurations and lengths
of the run, the five state properties of the send path (`ModalIsKept`, `OnlyLiveProposals`,
`DeliveryIsBounded`, `AuditIsTrue`, and types, `PromptTypes`), and that it implements
`PromptAudit` (`AuditIsImplemented`). Two invariants carry them. `PromptInv`: the modal
shows the gate of the configuration and what it shows is what is recorded when it is
confirmed, and the send that is open is the one that was promised. `DeliveryInv`:
`SendProgress` relates the step of the send to the keys the pane got and to
whether a stream was lost since. In the refinement every key, poll, reconnection and
crash is a stutter or one step of `PromptAudit`; the audit chain of a decision grows in
the same step in both.

`SettingsEditorProofs` proves the four properties of the settings and the types, for any
rows, parameters, thresholds, files, orders of lines and number of edits. What must be
added to make them inductive is `LegacyIsFromFile`: while no legacy override runs, the
file has no line of one, since edits make none, a scaffolded file has none and a torn one
has no line that the whole one had not (`TornIs`). The lemma `BodyIs` says line by line
what a save writes and `BodyLoads` what of it the next load finds; a table outside of
`Split` is loaded from a torn file as from the whole one, or as if the file did not have it.
`Evens` is the arithmetic of narrowing: a value below a stored one is, once stored, not
above it.

### Assumptions, and what is not proved

The assumptions are those of the modules, named where the constants are declared.
`None`, the absent value, is not one of the values it stands in for; observations have
their type; a conflicting identity carries no provider metric (the common parser extracts
none); bounds are natural numbers; alerts, listings, times and the panes with a cost are
finitely many; there is a dearest price; the largest threshold can be stored; limits are integers. Two are
about the world: files written by hand
are taken to load, with ordered pairs (`FilesAssumption`, `OrderedAssumption`), because
nothing in the program checks the pairs and a file that does not load ends the start, and a provider's reset time, however it jitters, stays at least a minute away
from what the next window may show (`JitterAssumption`; the windows last hours).
The bounds of the models are constants in the proofs, so the theorems hold for each of
their values.

Only model-checked: liveness. `EverySendEnds` needs fairness, hence `ENABLED`, which is out of
the prover's reach. The two runs that end in a violation have no theorem.

## 5. Abstractions worth knowing

- A death and a respawn between two polls cannot be seen by the code, and are
  not told apart by the models.
- Panes are observed in any order; the code uses the order of the listing.
- `AnomalyDedup` has no restart: the map begins empty in every process, so an episode
  that goes on over a restart, with a replayed window, is told again. The thresholds of
  the detectors and of promotion stay as they are during a run. Two clock readings
  differ by the gaps between them, and a gap is never negative. Rounding of 32-bit
  ratios is left out.
- `PaneAlerts` raises only what can become urgent with the action names `pane-state`
  and `error-detected`; the other alerts of `alerts.rs` are concerns, and the urgent
  outputs of other rules have action names, hence limits, of their own.
- `CostBudget` has a clock that never steps back; the code orders rows by wall time.
- In `SettingsEditor` the cursor, tabs and scrolling are the choice of the field. A line
  that a write stops in is cut to a smaller value or takes the file with it; a cut right
  behind the header of an override, which the loader refuses for its missing thresholds,
  is not told apart from an unreadable file, although the next save could fill it in.
- In `PromptSend` the other overlays of the dashboard are one state, `settings`, that owns
  the keys; `DashboardInput` tells them apart.
- In `PaneAdvice` what is on a screen is chosen whole, so also readings that no provider
  would show together; costs, tokens and the anomaly window of a pane are in the modules
  of their own. A poll takes no time.

## 6. Where code and words disagree

Runs that end in the violation they are listed for:

- `alert_hide`: rows of one severity are drawn new ones first and by age, but
  `toggle_selected_alert_hide` looks the key of a row up with the newness and the times
  left empty (`visible_alert_keys`), so a double click, or a click on the dismiss line,
  hides another alert than the one it hits ("toggle hide on the clicked alert",
  `ui/dashboard.rs:1310`).
- `conflict_advice`: a Claude pane whose identity falls into conflict is advised on the
  context it showed before: `apply_pressure_metric_cache` restores it, because it looks
  only at the provider, and `quota_tight_nudge` asks for no confidence, while the same
  poll records that provider metrics are suppressed.

Six claims that are refuted in the same way and have no run of their own. Each is a
definition of its module; added to the configuration of that module's run, TLC
finds the violation:

- `AuditTellsWhatThePaneGot` (`PromptSend`): the control-mode client issues a command
  again whose answer was lost, executed or not (`tmux/control_client.rs:103`): a text
  typed twice is recorded as completed, a submitted one possibly as failed. "Every
  actuation is recorded in the audit log with approver, pane, command, and outcome"
  (`docs/ai/VALIDATION.md:342`).
- `ApprovalWaitIsNotified` (`PaneAlerts`): an approval wait is raised once, when it
  begins, and shares the limit of all pane states: within 30 seconds of another one it is
  never notified. "`Risk` fires most often so the operator never misses an approval wait"
  (`notify/rate_limit.rs:7`); approval waits are warnings.
- `HighEpisodesArePromoted` (`AnomalyDedup`): an anomaly that is told at medium
  confidence is suppressed as still active when it rises to high, so it is neither
  promoted nor notified. Slopes and rates rise through medium as a rule.
- `JitterIsAbsorbed` (`PaneAdvice`): a reset that is shown just before and just past a
  whole minute gets two ids, and the window is written twice. Flooring "absorbs sub-minute
  jitter from F-5b / F-6 so two ticks emitted within the same window share the same
  `window_id`" (`app/auto_snapshot.rs:67`). `OneSnapshotPerWindow` counts the minutes.
- `SavesPersistOrderedPairs` (`SettingsEditor`): a write that stops, as on a full disk,
  may leave a warning without its critical value, or with a part of its digits, and the
  file loads an inverted pair. Pairs are validated again "so a save cannot persist a
  pair where warning >= critical" (`ui/settings/mod.rs:618`). `FilePairsOrdered` excepts
  the tables such a write stopped in.
- `RunningPairsOrdered` (`SettingsEditor`): a typed value is compared before it is
  narrowed, so an equal pair is accepted; an override is validated against the legacy
  pair and filled from the default one, so an inverted pair is
  (`ui/settings/mod.rs:1714`, "Pair invariant: warning < critical").

Seen while modelling, without a run:

- Replay pushes the stored rows in front of the samples the present tick has already
  pushed into the `pre` deques; "deque ordering matches live push semantics"
  (`event_loop.rs`, at the replay) holds of the `post` ones only, and the row written
  in that tick repeats the newest stored one.
- `capture_tick` runs before `fold_finding_paths_into_history`, so the stored
  `cross_pane_edit_paths` is always empty (`store/anomaly_history.rs:22`).
- A pane first seen dead and then respawned is hydrated with the rows of its previous
  lifetime, although a respawn "starts fresh" (`event_loop.rs:130`): the replayed mark
  is not set yet. `RespawnStaysFresh` therefore speaks of hydrated panes.
- A switch to a cheaper model lowers the reading of a Codex or Gemini session (all its
  tokens times the present price), which the ledger takes for a new session and counts
  whole, although it "records only positive deltas" so as not to over-count
  (`store/cost_usage.rs:4`). `SteadyLedgerNeverOvercounts` excludes such sessions.
- `eval_anomalies` says that each detector is gated by `supports_provider`; the one of
  `SubagentSideEffect` is not asked, so it speaks of Codex and Gemini panes too. It also
  rearms in every tick in which nothing else is told, so it can be told several times
  while the anomaly it annotates continues.
- While the anomaly detectors are switched off their map is not touched: the entry of an
  episode that ended meanwhile suppresses the next one. It is the exception named in
  `EpisodesAreTold`.
- The selection is a row number, so a poll may change the selected pane.
- A flow row never carries a time (`ui/alerts.rs:1277`), although the manual shows one
  (`docs/ai/UI_MANUAL.md:109`). Times are clock times of a day, so rows of the day before
  sort above those after midnight. The alert filter narrows only what is drawn: clicks
  and keys go by the unfiltered rows. Enter does not leave the filter
  (`dashboard_runtime.rs:84`), although the help says so (`ui/dashboard.rs:1342`).
- A poll that fails after the target was switched leaves the old reports under the new
  label until the next one that answers. `ReportsMatchTarget` excludes it.
- The celebration of an accepted proposal is shown also when nothing was sent.
- A snapshot that fails raises its notice again in every poll. The dedup entry has no
  provider: after a switch of the provider in a living pane its windows may pass for
  those of the one before.
- Only the adapters of Codex and Gemini fill the branch, so panes of Claude and agy take
  no part in `eval_concurrent`, although `event_loop.rs:752` means them to.
- With the cross-window gate off, a group that spans windows is not told at all, not even
  of two panes of it that share a window. `ClashesAreTold` asks for the gate.
- A hot cache with a large drift speaks against `/compact` and for it in one poll; so do a
  context warning configured below the cache rules' low context and a hot cache.
  `CompactAdviceAgrees` asks for context limits above the low context and is about
  proposals.
- An overlay of the tail (`event_loop.rs:77`) would be merged before the lifecycle resets,
  but nothing fills one: only Claude's commands capture, and the handler returns for
  Claude before it gets there (`runtime_refresh.rs`).
- An agent that has been idle for more than a minute beside an active one in the same
  directory is shown the figures of the active one's session file, and the pressure cache
  keeps them (`adapters/claude_sidefile.rs`, `codex_rollout.rs:52`). Session files are not
  modelled.
- Reopening the settings forgets the marks but not the edits ("Edits stay in memory
  until 'w' writes back", `ui/settings/mod.rs:3631`): a later `w` says "saved" without
  writing those parameters. A cleared override stays in the file and returns with the
  next start. Both are the named exceptions of `UnsavedIsMarked` and
  `SavedIsLoadedAgain`.
- Enter does not leave the parameter filter (`settings_overlay.rs:68` says it does), and
  the filter survives closing the overlay. `H` and `L` on the dashboard change
  parameters without a mark. A scaffolded file contains values that `--set` lowered for the
  session.
- A torn save may leave half of an override, or of a legacy table, and then the program
  does not start. A later save of the same run restores what has a value, but never a
  legacy table (`merge_overlay_fields` writes none) nor a cleared override: it says
  "saved" over a file that does not load. `SavedIsLoadedAgain` therefore speaks of the
  rows with a value.

## 7. Not modelled

- *Startup*: version drift and the choice of the root are reads and comparisons of one
  file each; what of a start carries state over (the settings file, `--set`, the
  retention sweep, the replay) is in `SettingsEditor`, `CostBudget` and `AnomalyReplay`.
- *Stores*: an audit sink that loses writes only counts them (`store/audit.rs:146`), so
  `PromptAudit` would hold of prefixes only; the token table is an insert and a select.
- *Git and worktree information*: shown, and read by no rule.
- *herdr*: one process per command behind the interface of tmux, the transport of
  `PromptSend` in which no stream is lost.
- *Session files and /proc* of the adapters, the parsing of provider text, the price
  tables: their result is the set of observations or screens.
- *Rendering* and layout, animations, hover texts.

What is left to do: `CostBudget` with a clock that steps back; session files as a source
of screens in `PaneAdvice`, so that the claim that two panes of one directory are never
confused can be checked.
