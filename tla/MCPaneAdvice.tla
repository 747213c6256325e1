---------------------------- MODULE MCPaneAdvice ----------------------------
(***************************************************************************)
(* An instance of PaneAdvice for TLC.  A minute is two units of the clock, *)
(* most of the gates are the defaults of the program, and a listing is of  *)
(* one family: quota windows of one pane that are about to reset, one pane *)
(* of any identity, or three panes at work.                                *)
(***************************************************************************)
EXTENDS PaneAdvice, TLC

LengthsMC == [k \in Kinds |-> IF k = "5h" THEN 4 ELSE 5]
OffsetsMC == -1..1

DefaultGates ==
    [quota_tight |-> FALSE, security_posture |-> FALSE,
     context_warning |-> 75, context_critical |-> 85,
     quota_warning |-> 75, quota_critical |-> 85,
     quota_5h_warning |-> 75, quota_5h_critical |-> 85,
     quota_weekly_warning |-> 75, quota_weekly_critical |-> 85,
     cost_warning |-> 5, cost_critical |-> 20,
     cache_hot |-> 60, cache_cold |-> 30, cache_hot_low_ctx |-> 70, cache_cold_high_ctx |-> 60,
     cache_drift_drop |-> 30, wait_pressure |-> 80, wait_eta |-> 4,
     snapshot_pressure |-> 50, snapshot_eta |-> 2, auto_snapshot |-> FALSE,
     profile_switch |-> FALSE, profile_switch_window |-> 1, profile_switch_rate |-> 50,
     cross_window |-> FALSE, cross_pane_files |-> FALSE]

\* The operator asks for snapshots, or for everything, with a lower weekly limit.
SnapshotGates == [DefaultGates EXCEPT !.auto_snapshot = TRUE, !.cross_window = TRUE]
WatchfulGates ==
    [SnapshotGates EXCEPT !.quota_tight = TRUE, !.security_posture = TRUE,
        !.quota_weekly_warning = 40, !.quota_weekly_critical = 50, !.profile_switch = TRUE,
        !.cross_pane_files = TRUE]
GatesMC == {DefaultGates, SnapshotGates, WatchfulGates}

Process(command) ==
    [label |-> {}, titled |-> "Unknown", command |-> command, hint |-> "Unknown",
     tail |-> "Unknown", sure |-> FALSE]
RawInputs ==
    {Process("Claude"), Process("Codex"), Process("Antigravity"), Process("Qmonster"),
     [Process("Claude") EXCEPT !.titled = "Codex"],
     [Process("Codex") EXCEPT !.hint = "Claude"],
     [Process("Codex") EXCEPT !.hint = "Codex"],
     [Process("Unknown") EXCEPT !.label = {<<"Gemini", "Research">>}],
     [Process("Unknown") EXCEPT !.tail = "Claude"]}

Quiet ==
    [idle |-> "None", log_storm |-> FALSE, verbose |-> FALSE, error |-> FALSE,
     subagent |-> FALSE, task |-> "Unknown", context |-> Absent, quota |-> Absent,
     quota_5h |-> Absent, quota_weekly |-> Absent, resets_5h |-> None,
     resets_weekly |-> None, cost |-> Absent, cache |-> Absent, memory |-> FALSE,
     branch |-> {}, permissive |-> FALSE, busy |-> FALSE, files |-> {}]
Full == [Quiet EXCEPT !.context = 92, !.cache = 90, !.quota_weekly = 50, !.quota_5h = 80]
Storm == [Quiet EXCEPT !.log_storm = TRUE, !.verbose = TRUE, !.error = TRUE, !.subagent = TRUE]

\* A Claude that asks, and Codex screens.
ClaudeScreens == {Quiet, [Full EXCEPT !.idle = "PermissionWait", !.error = TRUE, !.cost = 25]}
CodexScreens ==
    {[Quiet EXCEPT !.context = 50, !.cache = 70, !.quota = 90, !.cost = 6],
     [Quiet EXCEPT !.context = 76, !.cache = 20, !.task = "Review", !.memory = TRUE,
                   !.permissive = TRUE]}

Entry(raw, screen) ==
    [dead |-> FALSE, raw |-> raw, screen |-> screen, path |-> "/repo", window |-> "w1",
     baseline |-> Absent]

\* One window with its reset shown early, in time and late, or both windows.
WindowScreens ==
    {[Quiet EXCEPT !.quota_5h = 80, !.resets_5h = o] : o \in Offsets}
    \union {[Quiet EXCEPT !.quota_5h = 80, !.quota_weekly = 50, !.resets_5h = 1,
                          !.resets_weekly = o] : o \in {0, 1}}
WindowListings  == {1 :> Entry(Process("Claude"), s) : s \in WindowScreens}
IdentityListings ==
    {1 :> [Entry(raw, Full) EXCEPT !.baseline = 95] : raw \in RawInputs}
    \union {1 :> Entry(raw, Storm) : raw \in RawInputs}
    \union {1 :> Entry(Process("Claude"), s) : s \in ClaudeScreens}
    \union {1 :> Entry(Process("Codex"), s) : s \in CodexScreens}
EndedListings ==
    {<<>>, 1 :> [Entry(Process("Claude"), Quiet) EXCEPT !.dead = TRUE]}

\* Three panes on one branch, in one or two windows, one of which may be asking.
Working(p, window, idle) ==
    [Entry(Process("Codex"),
           [Quiet EXCEPT !.busy = TRUE, !.branch = {"b"}, !.idle = idle,
                         !.files = {<<IF p = 3 THEN "/repo" ELSE "", "f">>}])
        EXCEPT !.window = window]
ClashListings ==
    {[p \in Panes |-> Working(p, w[p], IF p = 2 THEN idle ELSE "None")] :
        w \in {v \in [Panes -> {"w1", "w2"}] : v[1] = "w1"}, idle \in {"None", "PermissionWait"}}

ListingsMC == WindowListings \union IdentityListings \union EndedListings \union ClashListings
=============================================================================
