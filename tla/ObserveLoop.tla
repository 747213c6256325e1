---------------------------- MODULE ObserveLoop ----------------------------
(***************************************************************************)
(* The observe loop of Qmonster (src/app/event_loop.rs), the part that     *)
(* turns successive tmux listings into per-pane reports: pane lifecycle    *)
(* tracking, the caches that carry one poll's facts into the next, and the *)
(* resets that keep them inside one pane lifetime.                         *)
(*                                                                         *)
(* The environment is unconstrained: a listing may contain any set of      *)
(* panes (windows close, the operator switches target, tmux reuses ids),   *)
(* each alive or dead, each showing anything in Observations.              *)
(***************************************************************************)
EXTENDS Naturals, Sequences, FiniteSets, PaneLifecycle

CONSTANTS
    Panes,          \* tmux pane ids
    Observations,   \* what the resolver and the adapters can extract from one live pane
    Providers, Claude, Unknown, Antigravity,
    Paths,          \* non-empty working directories
    Tails,          \* captured pane contents, up to trailing whitespace
    Causes, Stale,  \* idle causes, Stale being the stillness fallback
    Readings,       \* pressure values a Claude status line can show
    Errors,         \* texts of list_panes failures
    None,
    TailCap,        \* PaneTailHistory capacity (idle.stillness_polls, clamped)
    DriftFindings,  \* [security] identity_drift_findings
    MaxTicks        \* bound: polls in one run

\* An observation of a live pane; "marker" is the idle cause its text alone
\* shows. A conflicting identity is parsed by the common parser only, which
\* extracts no provider metric.
ObservationType ==
    [provider : Providers, conflict : BOOLEAN, path : Paths, tail : Tails,
     marker : (Causes \ {Stale}) \union {None}, pressure : Readings \union {None}]

ASSUME NoneAssumption ==
    /\ None \notin Causes /\ None \notin Readings /\ None \notin Errors
    /\ None \notin Paths /\ None \notin Providers
ASSUME ProvidersAssumption == {Claude, Unknown, Antigravity} \subseteq Providers
ASSUME CausesAssumption == Stale \in Causes
ASSUME ObservationsAssumption ==
    /\ Observations \subseteq ObservationType
    /\ \A o \in Observations : o.conflict => o.pressure = None
ASSUME BoundsAssumption ==
    TailCap \in 2..12 /\ MaxTicks \in Nat /\ DriftFindings \in BOOLEAN

VARIABLES
    tick,               \* number of list_panes calls; stands for Instant::now
    phase,              \* "waiting" between polls, "observing" inside the pane loop
    pending,            \* listed panes the loop has not reached, with their dead flag
    last_source_error,
    seen,               \* PaneLifecycle.seen: "unseen", "alive" or "dead"
    known,              \* Context.known_pane_ids
    tail_history,
    idle_transition, idle_entered_at,
    pressure_metric_cache,
    identity_history, reported_drifts, identity_conflicts_logged,
    reports,            \* the reports of the poll in progress or just finished
    born                \* history: the poll that first saw the present lifetime, or 0

loopVars   == <<tick, phase, pending, last_source_error>>
cacheVars  == <<tail_history, idle_transition, idle_entered_at, pressure_metric_cache,
                identity_history, reported_drifts, identity_conflicts_logged>>
vars       == <<loopVars, seen, known, cacheVars, reports, born>>

-----------------------------------------------------------------------------
(* Types *)

\* A cached fact together with the poll that gathered it.
Stamped(S) == [value : S, at : 1..MaxTicks]

Identity == [provider : Providers, path : Paths]
DriftKey == [kind : {"provider"}, from : Providers, to : Providers]
            \union [kind : {"worktree"}, from : Paths, to : Paths]
EmptyCache == [provider |-> None, pressure |-> None]

\* None is told apart from everything that may stand in its place.
ASSUME AbsenceAssumption ==
    None \notin Stamped(Readings) /\ None \notin Stamped(Identity) /\ None \notin 1..MaxTicks

CacheType  == [provider : Providers \union {None},
               pressure : Stamped(Readings) \union {None}]

\* What a poll says of a pane. "event" and "suppressed" are the lifecycle and
\* IdentitySuppressed audit records of the poll, "drifts" and "alerted" the
\* identity-drift and pane-state recommendations.
LiveReport ==
    [dead : {FALSE}, event : Events, suppressed : BOOLEAN, obs : Observations,
     idle : Causes \union {None}, entered_at : 1..MaxTicks \union {None},
     pressure : Readings \union {None}, drifts : SUBSET DriftKey, alerted : BOOLEAN]
DeadReport == [dead : {TRUE}, event : Events, suppressed : BOOLEAN]

TypeOK ==
    /\ tick \in 0..MaxTicks
    /\ phase \in {"waiting", "observing"}
    /\ pending \in [Panes -> {"none", "alive", "dead"}]
    /\ last_source_error \in Errors \union {None}
    /\ seen \in [Panes -> {"unseen", "alive", "dead"}]
    /\ known \subseteq Panes
    /\ tail_history \in [Panes -> Seq(Stamped(Tails))]
    /\ \A p \in Panes : Len(tail_history[p]) <= TailCap
    /\ idle_transition \in [Panes -> Causes \union {None}]
    /\ idle_entered_at \in [Panes -> 1..MaxTicks \union {None}]
    /\ pressure_metric_cache \in [Panes -> CacheType]
    /\ identity_history \in [Panes -> Stamped(Identity) \union {None}]
    /\ reported_drifts \in [Panes -> SUBSET Stamped(DriftKey)]
    /\ identity_conflicts_logged \in [Panes -> 1..MaxTicks \union {None}]
    /\ reports \in [Panes -> LiveReport \union DeadReport \union {None}]
    /\ born \in [Panes -> 0..MaxTicks]

-----------------------------------------------------------------------------
(* Helpers *)

\* Fault: panes that leave the listing are never forgotten.
ForgetNothing(listed) == seen

\* Every known pane that the new listing lacks is forgotten.
Forget(listed) ==
    [p \in Panes |-> IF p \in known /\ listed[p] = "none" THEN Forgotten(seen[p]) ELSE seen[p]]

Push(history, entry) ==
    LET kept == IF Len(history) = TailCap THEN Tail(history) ELSE history
    IN  Append(kept, entry)

\* PaneTailHistory::is_still(capacity): full, and every snapshot equal.
IsStill(history) ==
    /\ Len(history) >= TailCap
    /\ \A i \in DOMAIN history : history[i].value = history[1].value

\* Idle classification: a marker in the text wins, stillness is the fallback.
IdleState(obs, history) ==
    IF obs.marker # None THEN obs.marker
    ELSE IF IsStill(history) THEN Stale ELSE None

\* Fault: the entry time of an idle cause is refreshed by every poll.
EnteredAtEveryPoll(last, idle, entered) == IF idle = None THEN None ELSE tick

\* When the current idle cause was entered, from the last one reported.
EnteredAt(last, idle, entered) ==
    IF idle = last THEN entered ELSE IF idle = None THEN None ELSE tick

\* The cache entry after one parse. Only Claude panes have one; a reading
\* replaces the cached one, and its absence keeps it.
UpdatedCache(cache, obs) ==
    IF obs.provider # Claude THEN EmptyCache
    ELSE [provider |-> Claude,
          pressure |-> IF obs.pressure # None THEN [value |-> obs.pressure, at |-> tick]
                       ELSE IF cache.provider = Claude THEN cache.pressure ELSE None]

\* The pressure the report shows: the parsed reading, or the cached one.
ShownPressure(cache, obs) ==
    IF obs.provider = Claude /\ UpdatedCache(cache, obs).pressure # None
    THEN UpdatedCache(cache, obs).pressure.value
    ELSE obs.pressure

ObserveOnly(provider) == provider = Antigravity

\* detect_identity_drift: the changes between two identity snapshots.
Drifts(prev, cur) ==
    {k \in DriftKey :
        /\ DriftFindings
        /\ \/ /\ k.kind = "provider" /\ k.from # k.to /\ k.from # Unknown
              /\ k.from = prev.provider /\ k.to = cur.provider
           \/ /\ k.kind = "worktree" /\ k.from # k.to
              /\ k.from = prev.path /\ k.to = cur.path}

-----------------------------------------------------------------------------
(* Actions *)

Init ==
    /\ tick = 0 /\ phase = "waiting" /\ last_source_error = None
    /\ pending = [p \in Panes |-> "none"]
    /\ seen = [p \in Panes |-> "unseen"]
    /\ known = {}
    /\ tail_history = [p \in Panes |-> <<>>]
    /\ idle_transition = [p \in Panes |-> None]
    /\ idle_entered_at = [p \in Panes |-> None]
    /\ pressure_metric_cache = [p \in Panes |-> EmptyCache]
    /\ identity_history = [p \in Panes |-> None]
    /\ reported_drifts = [p \in Panes |-> {}]
    /\ identity_conflicts_logged = [p \in Panes |-> None]
    /\ reports = [p \in Panes |-> None]
    /\ born = [p \in Panes |-> 0]

\* list_panes failed: the poll ends before any bookkeeping, and the failure is
\* remembered so that a repeat of it raises no second notice.
ListFails(error) ==
    /\ phase = "waiting" /\ tick < MaxTicks
    /\ tick' = tick + 1
    /\ last_source_error' = error
    /\ UNCHANGED <<phase, pending, seen, known, cacheVars, reports, born>>

\* list_panes succeeded: forget every known pane that is gone, then start
\* over with the listed ones.
ListPanes(listed) ==
    /\ phase = "waiting" /\ tick < MaxTicks
    /\ tick' = tick + 1
    /\ phase' = "observing"
    /\ pending' = listed
    /\ seen' = Forget(listed)
    /\ known' = {p \in Panes : listed[p] # "none"}
    /\ reports' = [p \in Panes |-> None]
    /\ born' = [p \in Panes |-> IF listed[p] = "none" THEN 0 ELSE born[p]]
    /\ UNCHANGED <<last_source_error, cacheVars>>

\* A cache of pane p as the rest of the iteration finds it.
AfterReset(cache, p, event, empty) == IF Evicts(event) THEN empty ELSE cache[p]

\* One conflict is audited once, until the identity resolves again.
ConflictLogged(p, event, conflict) ==
    LET logged == AfterReset(identity_conflicts_logged, p, event, None)
    IN  IF ~conflict THEN None ELSE IF logged = None THEN tick ELSE logged
NewConflict(p, event, conflict) ==
    conflict /\ AfterReset(identity_conflicts_logged, p, event, None) = None

\* A listed pane that is dead: lifecycle and conflict bookkeeping only.
ObserveDead(p, conflict) ==
    LET event == LifecycleEvent(seen[p], "dead")
        Reset(cache, empty) == [cache EXCEPT ![p] = AfterReset(cache, p, event, empty)]
    IN
    /\ phase = "observing" /\ pending[p] = "dead"
    /\ pending' = [pending EXCEPT ![p] = "none"]
    /\ seen' = [seen EXCEPT ![p] = "dead"]
    /\ tail_history' = Reset(tail_history, <<>>)
    /\ idle_transition' = Reset(idle_transition, None)
    /\ idle_entered_at' = Reset(idle_entered_at, None)
    /\ pressure_metric_cache' = Reset(pressure_metric_cache, EmptyCache)
    /\ identity_history' = Reset(identity_history, None)
    /\ reported_drifts' = Reset(reported_drifts, {})
    /\ identity_conflicts_logged' =
           [identity_conflicts_logged EXCEPT ![p] = ConflictLogged(p, event, conflict)]
    /\ reports' = [reports EXCEPT ![p] =
           [dead |-> TRUE, event |-> event, suppressed |-> NewConflict(p, event, conflict)]]
    /\ born' = [born EXCEPT ![p] = 0]
    /\ UNCHANGED <<tick, phase, last_source_error, known>>

\* A live pane: reset on a new lifetime, then parse, evaluate and update the caches.
ObserveAlive(p, obs) ==
    LET event   == LifecycleEvent(seen[p], "alive")
        history == Push(AfterReset(tail_history, p, event, <<>>),
                        [value |-> obs.tail, at |-> tick])
        last    == AfterReset(idle_transition, p, event, None)
        idle    == IdleState(obs, history)
        entered == EnteredAt(last, idle, AfterReset(idle_entered_at, p, event, None))
        cache   == AfterReset(pressure_metric_cache, p, event, EmptyCache)
        prev    == AfterReset(identity_history, p, event, None)
        drifted == AfterReset(reported_drifts, p, event, {})
        new     == IF prev = None \/ ObserveOnly(obs.provider) THEN {}
                   ELSE Drifts(prev.value, obs) \ {d.value : d \in drifted}
    IN
    /\ phase = "observing" /\ pending[p] = "alive"
    /\ pending' = [pending EXCEPT ![p] = "none"]
    /\ seen' = [seen EXCEPT ![p] = "alive"]
    /\ tail_history' = [tail_history EXCEPT ![p] = history]
    /\ idle_transition' = [idle_transition EXCEPT ![p] = idle]
    /\ idle_entered_at' = [idle_entered_at EXCEPT ![p] = entered]
    /\ pressure_metric_cache' = [pressure_metric_cache EXCEPT ![p] = UpdatedCache(cache, obs)]
    /\ identity_history' = [identity_history EXCEPT ![p] =
           [value |-> [provider |-> obs.provider, path |-> obs.path], at |-> tick]]
    /\ reported_drifts' = [reported_drifts EXCEPT ![p] =
           drifted \union {[value |-> k, at |-> tick] : k \in new}]
    /\ identity_conflicts_logged' =
           [identity_conflicts_logged EXCEPT ![p] = ConflictLogged(p, event, obs.conflict)]
    /\ reports' = [reports EXCEPT ![p] =
           [dead |-> FALSE, event |-> event, obs |-> obs, idle |-> idle,
            suppressed |-> NewConflict(p, event, obs.conflict), entered_at |-> entered,
            pressure |-> ShownPressure(cache, obs), drifts |-> new,
            alerted |-> idle # None /\ idle # last /\ ~ObserveOnly(obs.provider)]]
    /\ born' = [born EXCEPT ![p] = IF @ = 0 THEN tick ELSE @]
    /\ UNCHANGED <<tick, phase, last_source_error, known>>

\* Every listed pane has been reported: the poll succeeded, so a remembered
\* source failure is over.
EndPoll ==
    /\ phase = "observing"
    /\ \A p \in Panes : pending[p] = "none"
    /\ phase' = "waiting"
    /\ last_source_error' = None
    /\ UNCHANGED <<tick, pending, seen, known, cacheVars, reports, born>>

Next ==
    \/ \E error \in Errors : ListFails(error)
    \/ \E listed \in [Panes -> {"none", "alive", "dead"}] : ListPanes(listed)
    \/ \E p \in Panes, conflict \in BOOLEAN : ObserveDead(p, conflict)
    \/ \E p \in Panes, obs \in Observations : ObserveAlive(p, obs)
    \/ EndPoll

Spec == Init /\ [][Next]_vars

-----------------------------------------------------------------------------
(* Properties *)

\* While a pane's present lifetime lasts, nothing a cache holds for it was
\* gathered before the poll that first saw this lifetime: the resets of
\* event_loop.rs, driven only by PaneLifecycle and known_pane_ids, let no fact
\* of a dead, vanished or re-used pane id reach the new pane.
NothingOutlivesItsPane ==
    \A p \in Panes : born[p] # 0 =>
        /\ \A i \in DOMAIN tail_history[p] : tail_history[p][i].at >= born[p]
        /\ idle_entered_at[p] # None => idle_entered_at[p] >= born[p]
        /\ pressure_metric_cache[p].pressure # None =>
               pressure_metric_cache[p].pressure.at >= born[p]
        /\ identity_history[p] # None => identity_history[p].at >= born[p]
        /\ \A d \in reported_drifts[p] : d.at >= born[p]
        /\ identity_conflicts_logged[p] # None => identity_conflicts_logged[p] >= born[p]

\* The lifecycle tracker and the polls agree on which panes are live: a pane
\* counts as alive exactly while a lifetime lasts, and only if the last listing
\* had it, so that forgetting known panes alone can never miss one.
LifecycleTracksListings ==
    \A p \in Panes :
        /\ seen[p] = "alive" => p \in known
        /\ seen[p] = "alive" <=> born[p] # 0

=============================================================================
