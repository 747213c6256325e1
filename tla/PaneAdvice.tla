----------------------------- MODULE PaneAdvice -----------------------------
(***************************************************************************)
(* What a poll advises on the panes it lists (app/event_loop.rs): who runs *)
(* in a pane, what its screen shows, the rules of one pane and of all      *)
(* panes, and the automatic snapshot before a quota window resets          *)
(* (app/auto_snapshot.rs).                                                 *)
(*                                                                         *)
(* The screens are chosen by the environment.  The providers' quota        *)
(* windows roll with the clock, which never steps back.                    *)
(***************************************************************************)
EXTENDS CrossPaneRules, Integers, Sequences, PaneLifecycle

CONSTANTS
    Panes,          \* tmux pane ids, as integers
    Listings,       \* what tmux may list of the panes
    GateSettings,   \* the gates the configuration may set
    Minute,         \* in units of the clock
    Lengths,        \* length of a quota window, by kind
    Offsets,        \* how far before or past its window's end a provider may show a reset
    None,
    MaxNow          \* bound: the end of time

Kinds == {"5h", "weekly"}

ASSUME PanesAssumption   == Panes \subseteq Nat
ASSUME WindowsAssumption ==
    Minute \in Nat \ {0} /\ MaxNow \in Nat /\ Lengths \in [Kinds -> Nat \ {0}]

\* Jitter does not bring the resets of two windows into one minute.
ASSUME JitterAssumption ==
    /\ Offsets \subseteq Int
    /\ \A k \in Kinds, a, b \in Offsets : /\ Lengths[k] + a \in Nat
                                        /\ Lengths[k] + a - b >= Minute
ASSUME NoneAssumption    == None \notin Int

\* What a screen shows: marks, readings (Absent is one), a branch, files and resets.
IdleCauses == {"None", "InputWait", "PermissionWait", "LimitHit", "WorkComplete", "Stale"}
TaskTypes  == {"Unknown", "Review", "SessionResume", "Automation"}
ScreensWith(Resets) ==
    [idle : IdleCauses, task : TaskTypes, log_storm : BOOLEAN, verbose : BOOLEAN, error : BOOLEAN,
     subagent : BOOLEAN, memory : BOOLEAN, permissive : BOOLEAN, busy : BOOLEAN,
     context : Int, quota : Int, quota_5h : Int, quota_weekly : Int, cost : Int, cache : Int,
     resets_5h : Resets, resets_weekly : Resets,
     branch : SUBSET STRING, files : SUBSET (STRING \X STRING)]

\* The environment chooses how far off its window's end a reset is, if it shows one.
Screens == ScreensWith(Offsets \union {None})

\* A listing names finitely many panes.
ASSUME ListingsAssumption ==
    \A listing \in Listings :
        /\ DOMAIN listing \subseteq Panes /\ IsFiniteSet(DOMAIN listing)
        /\ \A p \in DOMAIN listing : listing[p].screen \in Screens

\* The gates that a reading is compared with.
Limits == {"context_warning", "context_critical", "quota_warning", "quota_critical",
           "quota_5h_warning", "quota_5h_critical", "quota_weekly_warning",
           "quota_weekly_critical", "cache_hot_low_ctx"}
ASSUME GatesAssumption == \A g \in GateSettings : \A limit \in Limits : g[limit] \in Int

VARIABLES
    now,
    gates,                      \* the configuration in force
    seen,                       \* PaneLifecycle.seen
    pressure_metric_cache,      \* the pressures a Claude pane showed last
    idle_transition,            \* the idle cause of a pane's latest poll
    recent_error_observations,  \* newest first
    auto_snapshot_dedup,        \* per pane and kind: the window last taken, or None
    reports,                    \* of the latest poll, until the next one begins
    taken                       \* history, per pane and kind, as long as the process and
                                \* the pane's lifetime last: the window of the latest
                                \* snapshot asked for, the minute of its reset, how often
                                \* it was written and how often that minute changed

keptVars == <<seen, pressure_metric_cache, idle_transition, recent_error_observations,
              auto_snapshot_dedup, taken>>
vars     == <<now, gates, reports, keptVars>>

\* The window that a moment lies in, named by its end.
WindowEnd(kind, t) == Lengths[kind] * (t \div Lengths[kind] + 1)

MinuteOf(t) == t \div Minute

Pressures  == {"context", "quota", "quota_5h", "quota_weekly"}
NoPressure == [f \in Pressures |-> Absent]
Fresh == [k \in Kinds |-> None]
NothingTaken == [k \in Kinds |-> [window |-> 0, minute |-> 0, snapshots |-> 0, crossings |-> 0]]

EmptyPane == [cache |-> NoPressure, last |-> "None", errors |-> <<>>, dedup |-> Fresh,
              taken |-> NothingTaken]

-----------------------------------------------------------------------------
(* The pressure cache *)

\* Claude shows its pressures now and then: the pane keeps the latest of each.
\* The provider decides, whether or not its identity is in doubt.
UpdatedCache(cache, id, s) ==
    [f \in Pressures |-> IF id.provider # "Claude" THEN Absent
                         ELSE IF s[f] # Absent THEN s[f] ELSE cache[f]]

\* apply_pressure_metric_cache: what the rules see of a pane.
WithCachedPressures(cache, id, s) ==
    IF id.provider # "Claude" THEN s
    ELSE [f \in DOMAIN s |-> IF f \in Pressures THEN UpdatedCache(cache, id, s)[f] ELSE s[f]]

-----------------------------------------------------------------------------
(* The automatic snapshot *)

\* Fault: every reset time is a window of its own.
FloorToSecond(t) == t

FloorToMinute(t) == t - (t % Minute)

ResetsAt(s, kind)       == IF kind = "5h" THEN s.resets_5h ELSE s.resets_weekly
SnapshotAction(kind)    == IF kind = "5h" THEN "snapshot-5h" ELSE "snapshot-weekly"

\* extract_quota_kind: the kinds whose snapshot the rules have advised.
AdvisedKinds(recs) == {k \in Kinds : \E r \in recs : r.action = SnapshotAction(k)}

\* The kinds a poll has to write a snapshot for.
DueKinds(s, recs, dedup) ==
    {k \in AdvisedKinds(recs) : dedup[k] # FloorToMinute(ResetsAt(s, k))}

\* Fault: the window counts as taken before its snapshot is written.
DedupOfAttempts(s, due, written, dedup) ==
    [k \in Kinds |-> IF k \in due THEN FloorToMinute(ResetsAt(s, k)) ELSE dedup[k]]

\* A snapshot that could not be written stays due.
DedupAfter(s, due, written, dedup) ==
    [k \in Kinds |-> IF k \in due \cap written THEN FloorToMinute(ResetsAt(s, k)) ELSE dedup[k]]

Notices(due, written) ==
    {[kind |-> k, severity |-> IF k \in written THEN Concern ELSE Warning] : k \in due}

-----------------------------------------------------------------------------
(* Actions *)

Init ==
    /\ now = 0 /\ gates \in GateSettings
    /\ seen = [p \in Panes |-> "unseen"]
    /\ pressure_metric_cache = [p \in Panes |-> NoPressure]
    /\ idle_transition = [p \in Panes |-> "None"]
    /\ recent_error_observations = [p \in Panes |-> <<>>]
    /\ auto_snapshot_dedup = [p \in Panes |-> Fresh]
    /\ reports = None
    /\ taken = [p \in Panes |-> NothingTaken]

\* The screen of a listed pane, with the resets that the running windows make it
\* show; an entry says which of them it shows, and how far off.
Shown(entry) ==
    LET at(offset, kind) == IF offset = None THEN Absent ELSE WindowEnd(kind, now) + offset
    IN  [entry.screen EXCEPT !.resets_5h = at(@, "5h"), !.resets_weekly = at(@, "weekly")]

\* What the poll has kept of pane p, after the resets of its lifetime.
Kept(p, event) ==
    IF Evicts(event) THEN EmptyPane
    ELSE [cache |-> pressure_metric_cache[p], last |-> idle_transition[p],
          errors |-> recent_error_observations[p], dedup |-> auto_snapshot_dedup[p],
          taken |-> taken[p]]

\* Newest first, as many as the window asks for, at least one.
PushError(errors, error) ==
    LET pushed == <<error>> \o errors
        cap == IF gates.profile_switch_window = 0 THEN 1 ELSE gates.profile_switch_window
    IN  SubSeq(pushed, 1, IF Len(pushed) > cap THEN cap ELSE Len(pushed))

\* The history of a pane once snapshots of the kinds in advised are asked for, and
\* once those in done are written.
Asked(account, s, advised) ==
    [k \in Kinds |->
        LET minute == MinuteOf(ResetsAt(s, k))
        IN  IF k \notin advised THEN account[k]
            ELSE IF account[k].window = WindowEnd(k, now)
                 THEN [account[k] EXCEPT !.minute = minute,
                           !.crossings = IF account[k].minute = minute THEN @ ELSE @ + 1]
            ELSE [window |-> WindowEnd(k, now), minute |-> minute, snapshots |-> 0,
                  crossings |-> 0]]
Counted(account, done) ==
    [k \in Kinds |-> IF k \in done THEN [account[k] EXCEPT !.snapshots = @ + 1] ELSE account[k]]

\* The iteration of the poll for a pane that is alive, up to the disk: what the
\* rules see and say of it, what is kept, and the snapshots that are due.
Iteration(p, entry, event) ==
    LET kept   == Kept(p, event)
        id     == Resolve(entry.raw)
        parsed == ParseFor(id, Shown(entry))
        s      == WithCachedPressures(kept.cache, id, parsed)
        errors == PushError(kept.errors, s.error)
        recs   == Recommendations(id, s, gates, kept.last, entry.baseline, errors, now)
        asks   == gates.auto_snapshot /\ ~ObserveOnly(id)
    IN  [kept |-> [kept EXCEPT !.cache = UpdatedCache(@, id, parsed), !.last = s.idle,
                               !.errors = errors,
                               !.taken = IF asks THEN Asked(@, s, AdvisedKinds(recs)) ELSE @],
         due |-> IF asks THEN DueKinds(s, recs, kept.dedup) ELSE {},
         report |->
            [pane |-> p, id |-> id, signals |-> s, path |-> entry.path, window |-> entry.window,
             recommendations |-> recs, notices |-> {},
             effects |-> Effects(s, recs)]]

\* maybe_auto_snapshot, when the disk has room for the kinds in written.
Snapshots(i, written) ==
    [kept |-> [i.kept EXCEPT
                  !.dedup = DedupAfter(i.report.signals, i.due, written, @),
                  !.taken = Counted(@, i.due \cap written)],
     report |-> [i.report EXCEPT !.notices = Notices(i.due, written)]]

Alive(listing) == {p \in DOMAIN listing : ~listing[p].dead}
Event(listing, p) == LifecycleEvent(seen[p], IF p \in Alive(listing) THEN "alive" ELSE "dead")
IterationOf(listing, p) == Iteration(p, listing[p], Event(listing, p))

\* What is kept of a pane, and reported on it, when the disk has room for the kinds in written.
Outcome(listing, written, p) == Snapshots(IterationOf(listing, p), written)
KeptAfter(listing, written, p) ==
    IF p \in Alive(listing) THEN Outcome(listing, written, p).kept
    ELSE Kept(p, IF p \in DOMAIN listing THEN Event(listing, p) ELSE "Unchanged")
Views(listing, written) == {Outcome(listing, written, p).report : p \in Alive(listing)}

\* A poll: list the panes, report on each, then compare those that are alive.
Poll(listing) ==
    /\ reports = None
    /\ \E written \in SUBSET UNION {IterationOf(listing, p).due : p \in Alive(listing)} :
        LET after == [p \in Panes |-> KeptAfter(listing, written, p)]
            views == Views(listing, written)
        IN
        /\ pressure_metric_cache' = [p \in Panes |-> after[p].cache]
        /\ idle_transition' = [p \in Panes |-> after[p].last]
        /\ recent_error_observations' = [p \in Panes |-> after[p].errors]
        /\ auto_snapshot_dedup' = [p \in Panes |-> after[p].dedup]
        /\ taken' = [p \in Panes |-> after[p].taken]
        /\ reports' = [panes |-> views, findings |-> EvaluateCrossPane(views, gates)]
    /\ seen' = [p \in Panes |-> IF p \in Alive(listing) THEN "alive"
                                ELSE IF p \in DOMAIN listing THEN "dead" ELSE Forgotten(seen[p])]
    /\ UNCHANGED <<now, gates>>

\* Time passes until the next poll.
Wait ==
    /\ reports # None /\ now < MaxNow
    /\ now' = now + 1 /\ reports' = None
    /\ UNCHANGED <<gates, keptVars>>

\* The operator saves other settings between two polls.
Configure(g) ==
    /\ reports = None /\ g # gates
    /\ gates' = g
    /\ UNCHANGED <<now, reports, keptVars>>

\* The process ends and starts again: nothing it kept is on disk.
Restart ==
    /\ reports = None
    /\ seen' = [p \in Panes |-> "unseen"]
    /\ pressure_metric_cache' = [p \in Panes |-> NoPressure]
    /\ idle_transition' = [p \in Panes |-> "None"]
    /\ recent_error_observations' = [p \in Panes |-> <<>>]
    /\ auto_snapshot_dedup' = [p \in Panes |-> Fresh]
    /\ taken' = [p \in Panes |-> NothingTaken]
    /\ UNCHANGED <<now, gates, reports>>

Next ==
    \/ \E listing \in Listings : Poll(listing)
    \/ Wait
    \/ \E g \in GateSettings : Configure(g)
    \/ Restart

Spec == Init /\ [][Next]_vars

-----------------------------------------------------------------------------
(* Properties *)

Reported == IF reports = None THEN {} ELSE reports.panes
Actions(r) == {rec.action : rec \in r.recommendations}

\* A quota window is written to disk once in a pane's lifetime, whatever settings
\* are switched off and on and whatever writes failed before, and once more at
\* most for each time its reset moved to another minute between two polls that
\* asked for the snapshot: seconds within a minute never write it again, jitter
\* that straddles a minute does (maybe_auto_snapshot, floor_to_minute).
OneSnapshotPerWindow ==
    \A p \in Panes, k \in Kinds : taken[p][k].snapshots <= 1 + taken[p][k].crossings

\* Claimed by app/auto_snapshot.rs:67, and refuted: "This absorbs sub-minute jitter
\* so two ticks emitted within the same window share the same window_id".
JitterIsAbsorbed == \A p \in Panes, k \in Kinds : taken[p][k].snapshots <= 1

\* When a poll advises a snapshot and the operator has asked for automatic ones,
\* the window has been taken, or this very poll says that it could not be: a
\* failed write never passes for a snapshot (maybe_auto_snapshot).
NoWindowMissed ==
    \A r \in Reported : \A k \in AdvisedKinds(r.recommendations) :
        gates.auto_snapshot =>
            \/ LET t == taken[r.pane][k]
               IN  t.window = WindowEnd(k, now) /\ t.snapshots > 0
            \/ [kind |-> k, severity |-> Warning] \in r.notices

\* A pane whose title and process name two providers gets no advice that rests on
\* what either shows, and no command is proposed for it, neither by the rules that
\* ask for a sure identity nor by those that do not (parse_for,
\* allow_provider_specific). A Claude pane that had shown a context before its
\* identity fell in doubt is the exception: recommend_quota_tight may see it.
Alerts == {"verbose-output", "error-detected", "subagent-detected", "pane-state"}
InDoubtOnlyAlerts ==
    \A r \in Reported : r.id.confidence = "Conflict" =>
        /\ Actions(r) \subseteq Alerts \union
               (IF pressure_metric_cache[r.pane].context = Absent THEN {} ELSE {"quota-tight-nudge"})
        /\ "PromptSendProposed" \notin r.effects

\* Claimed of a conflict by docs/ai/VALIDATION.md:90 and event_loop.rs:149, and
\* refuted: nothing is advised that rests on a reading of a provider.
ConflictSuppressesReadings ==
    \A r \in Reported : r.id.confidence = "Conflict" => Actions(r) \subseteq Alerts

\* A reading above zero that has reached its limits; a running pair of limits may be
\* inverted (RunningPairsOrdered of SettingsEditor).
UsedUp(value, warning, critical) == value > 0 /\ value >= warning /\ value >= critical

\* Of the quota windows of a known provider the one the operator is told of is one
\* that is used up, if any is, whatever the others read: a calm window with a
\* high reading does not hide a used-up one with a low limit (recommend_quota).
UsedUpQuotaIsARisk ==
    \A r \in Reported :
        LET s == r.signals
        IN  (/\ Sure(r.id) /\ ~ObserveOnly(r.id)
             /\ \/ UsedUp(s.quota, gates.quota_warning, gates.quota_critical)
                \/ UsedUp(s.quota_5h, gates.quota_5h_warning, gates.quota_5h_critical)
                \/ UsedUp(s.quota_weekly, gates.quota_weekly_warning,
                          gates.quota_weekly_critical))
            => "quota-act-now" \in Actions(r) /\ "Notify" \in r.effects

\* With context limits above the "low context" of the cache rules, /compact is never
\* proposed to the operator in the poll that advises against it.
CompactAdviceAgrees ==
    gates.cache_hot_low_ctx <= gates.context_warning
      /\ gates.cache_hot_low_ctx <= gates.context_critical =>
        \A r \in Reported : ~("PromptSendProposed" \in r.effects
                                /\ "cache-hot-avoid-compact" \in Actions(r))

\* Two panes that work on the same branch of the same directory are named
\* together by a finding, whatever windows they and others are in, once the
\* operator has asked for findings across windows (eval_concurrent).
ClashesAreTold ==
    \A a, b \in Reported :
        (/\ a # b /\ gates.cross_window
         /\ {a, b} \subseteq Participants(Reported)
         /\ a.signals.busy /\ b.signals.busy /\ Keyed(a) /\ Keyed(b) /\ WorkKey(a) = WorkKey(b))
        => \E f \in reports.findings : {a.pane, b.pane} \subseteq {f.anchor} \union f.others
=============================================================================
