---------------------------- MODULE PolicyRules ----------------------------
(***************************************************************************)
(* The rules that turn what a poll reads off one pane into advice          *)
(* (policy/engine.rs, policy/rules/) and the effects the engine asks for.  *)
(*                                                                         *)
(* An identity id is that of Identity, s the pane's signals, g the gates   *)
(* of the configuration. Ratios are percentages, costs and times integers. *)
(***************************************************************************)
EXTENDS Identity

\* Severity, as ordered by the code.
Safe == 0  Good == 1  Concern == 2  Warning == 3  Risk == 4

Advice(action, severity) ==
    [action |-> action, severity |-> severity, strong |-> FALSE, compact |-> FALSE]
Strong(rec)  == [rec EXCEPT !.strong = TRUE]
Compact(rec) == [rec EXCEPT !.compact = TRUE]     \* suggests the command /compact

When(condition, rec) == IF condition THEN {rec} ELSE {}

\* The operator's attention is on a prompt of the provider.
Waiting(s) == s.idle \in {"InputWait", "PermissionWait"}

-----------------------------------------------------------------------------
(* Alerts and advisories *)

EvalAlerts(s) ==
    When(s.verbose, Advice("verbose-output", Concern))
    \union When(s.error, Advice("error-detected", Warning))
    \union When(s.subagent, Advice("subagent-detected", Concern))

LogStorm(id, s, g) ==
    IF ~s.log_storm \/ ~Sure(id) THEN {}
    ELSE {Advice("log-storm", Concern)}
         \union When(g.quota_tight, Advice("aggressive-log-storm", Warning))

CodeExploration(id, s) ==
    When(id.role \in {"Main", "Review"} /\ s.verbose /\ Sure(id),
         Advice("code-exploration", Concern))

ContextCritical(id, s, g) ==
    id.provider \in {"Claude", "Codex", "Gemini"} /\ Sure(id) /\ s.context >= g.context_critical

ContextWarning(id, s, g) ==
    /\ id.provider \in {"Claude", "Codex", "Gemini"} /\ Sure(id)
    /\ s.context \in g.context_warning..(g.context_critical - 1)

\* At most one of the two, both ask strongly for /compact.
ContextPressure(id, s, g) ==
    IF ContextCritical(id, s, g)
    THEN {Strong(Compact(Advice("context-act-now", Risk)))}
         \union When(g.quota_tight, Advice("aggressive-context", Risk))
    ELSE IF ContextWarning(id, s, g)
    THEN {Strong(Compact(Advice("context-checkpoint", Warning)))}
         \union When(g.quota_tight, Advice("aggressive-context", Warning))
    ELSE {}

\* The quota windows that press, ranked for ties: 5h, weekly, the generic one.
QuotaWindows(s, g) ==
    LET all == {[rank |-> 0, value |-> s.quota_5h,
                 warning |-> g.quota_5h_warning, critical |-> g.quota_5h_critical],
                [rank |-> 1, value |-> s.quota_weekly,
                 warning |-> g.quota_weekly_warning, critical |-> g.quota_weekly_critical],
                [rank |-> 2, value |-> s.quota,
                 warning |-> g.quota_warning, critical |-> g.quota_critical]}
    IN  {w \in all : w.value >= w.warning /\ w.value > 0}

\* Fault: the window with the highest reading is the urgent one.
HeadroomByValue(w) == 100 - w.value

Headroom(w) == w.critical - w.value

\* Only the window with the least headroom is told.
QuotaPressure(id, s, g) ==
    LET pressing == QuotaWindows(s, g)
        chosen == CHOOSE w \in pressing : \A v \in pressing :
                      \/ Headroom(w) < Headroom(v)
                      \/ Headroom(w) = Headroom(v) /\ w.rank <= v.rank
    IN  IF pressing = {} \/ ~Sure(id) THEN {}
        ELSE IF chosen.value >= chosen.critical THEN {Strong(Advice("quota-act-now", Risk))}
        ELSE {Advice("quota-pace", Warning)}

CostPressure(id, s, g) ==
    IF s.cost = Absent \/ ~Sure(id) THEN {}
    ELSE IF s.cost >= g.cost_critical THEN {Strong(Advice("cost-act-now", Risk))}
    ELSE When(s.cost >= g.cost_warning, Advice("cost-pace", Warning))

SecurityPosture(id, s, g) ==
    When(g.security_posture /\ Sure(id) /\ s.permissive, Advice("security-posture", Concern))

VerboseReview(id, s, g) ==
    IF id.role # "Review" \/ ~s.verbose \/ ~Sure(id) THEN {}
    ELSE {Advice("verbose-review", Concern)}
         \union When(g.quota_tight, Advice("aggressive-verbose-review", Warning))

\* Asks for no sure identity: any screen may show a context.
QuotaTightNudge(id, s, g) ==
    When(~g.quota_tight /\ id.provider # "Antigravity" /\ s.context >= 90,
         Advice("quota-tight-nudge", Concern))

EvalAdvisories(id, s, g) ==
    LogStorm(id, s, g) \union CodeExploration(id, s) \union ContextPressure(id, s, g)
    \union QuotaPressure(id, s, g) \union CostPressure(id, s, g)
    \union SecurityPosture(id, s, g) \union VerboseReview(id, s, g)
    \union QuotaTightNudge(id, s, g)

-----------------------------------------------------------------------------
(* Rules that hold their tongue while the operator is asked something *)

AutoMemory(id, s) ==
    When(Sure(id) /\ s.task \in {"Review", "SessionResume"} /\ ~Waiting(s),
         Advice("auto-memory", Concern))

AgentMemory(id, s) ==
    When(Sure(id) /\ s.memory /\ ~Waiting(s), Advice("agent-memory", Concern))

\* Fault: a hot cache speaks against /compact however full the context is.
CacheHotAtAnyContext(id, s, g) ==
    When(Sure(id) /\ ~Waiting(s) /\ s.cache > g.cache_hot /\ s.context # Absent,
         Advice("cache-hot-avoid-compact", Concern))

CacheHot(id, s, g) ==
    When(Sure(id) /\ ~Waiting(s) /\ s.cache > g.cache_hot
           /\ s.context # Absent /\ s.context < g.cache_hot_low_ctx,
         Advice("cache-hot-avoid-compact", Concern))

CacheCold(id, s, g) ==
    When(Sure(id) /\ ~Waiting(s) /\ s.cache # Absent /\ s.cache < g.cache_cold
           /\ s.context > g.cache_cold_high_ctx,
         Compact(Advice("cache-cold-compact", Good)))

\* baseline: the ratio of the oldest of enough recent samples, Absent with fewer.
CacheDrift(id, s, g, baseline) ==
    When(Sure(id) /\ ~Waiting(s) /\ s.cache # Absent /\ baseline # Absent
           /\ baseline - s.cache >= g.cache_drift_drop,
         Compact(Advice("cache-drift-compact", Concern)))

EvalCache(id, s, g, baseline) ==
    CacheHot(id, s, g) \union CacheCold(id, s, g) \union CacheDrift(id, s, g, baseline)

\* recent_errors: the latest observations, newest first.
ProfileSwitch(id, s, g, recent_errors) ==
    LET window == g.profile_switch_window
        errors == {i \in 1..window : i \in DOMAIN recent_errors /\ recent_errors[i]}
    IN  When(/\ g.profile_switch /\ Sure(id) /\ id.role = "Main" /\ ~Waiting(s)
             /\ ~g.quota_tight /\ id.provider \in {"Claude", "Codex", "Gemini"}
             /\ window > 0 /\ window \in DOMAIN recent_errors
             /\ 100 * Cardinality(errors) >= g.profile_switch_rate * window,
             Advice("profile-switch", Concern))

\* The window rolls within the given time and is used enough to care.
ResetNear(pressure, resets_at, floor, eta, now) ==
    pressure # Absent /\ resets_at # Absent /\ pressure >= floor
    /\ resets_at > now /\ resets_at - now <= eta

EvalReset(id, s, g, now) ==
    LET of(pressure, resets_at, wait, snapshot) ==
            When(ResetNear(pressure, resets_at, g.wait_pressure, g.wait_eta, now),
                 Advice(wait, Concern))
            \union When(ResetNear(pressure, resets_at, g.snapshot_pressure, g.snapshot_eta, now),
                        Advice(snapshot, Good))
    IN  IF ~Sure(id) \/ Waiting(s) THEN {}
        ELSE of(s.quota_5h, s.resets_5h, "pause-5h", "snapshot-5h")
             \union of(s.quota_weekly, s.resets_weekly, "pause-weekly", "snapshot-weekly")

IdleSeverity(cause) ==
    IF cause = "LimitHit" THEN Risk
    ELSE IF cause \in {"InputWait", "PermissionWait"} THEN Warning ELSE Concern

\* A pane tells when it halts, or halts for another cause.
IdleTransition(s, last) ==
    When(s.idle \notin {"None", last}, Advice("pane-state", IdleSeverity(s.idle)))

-----------------------------------------------------------------------------
(* The engine *)

ObserveOnly(id) == id.provider = "Antigravity"

Recommendations(id, s, g, last, baseline, recent_errors, now) ==
    IF ObserveOnly(id) THEN {}
    ELSE EvalAlerts(s) \union EvalAdvisories(id, s, g)
         \union AutoMemory(id, s) \union AgentMemory(id, s) \union EvalCache(id, s, g, baseline)
         \union ProfileSwitch(id, s, g, recent_errors) \union EvalReset(id, s, g, now)
         \union IdleTransition(s, last)

\* Notify when something is urgent, archive a log storm, and propose the command
\* of every strong recommendation that has one.
Effects(s, recs) ==
    {"Notify" : r \in {r \in recs : r.severity >= Warning}}
    \union (IF s.log_storm THEN {"ArchiveLocal"} ELSE {})
    \union {"PromptSendProposed" : r \in {r \in recs : r.strong /\ r.compact}}
=============================================================================
