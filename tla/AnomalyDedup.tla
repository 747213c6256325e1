----------------------------- MODULE AnomalyDedup -----------------------------
(***************************************************************************)
(* From detectors to the operator: eval_anomalies with its edge-triggered  *)
(* dedup map, the promotion of signals and the notification they ask for   *)
(* (policy/rules/anomaly.rs and its caller in app/event_loop.rs).          *)
(*                                                                         *)
(* An episode of a kind on a pane is an uninterrupted run of observations  *)
(* in which its detector is not silent. Panes share nothing here, so the   *)
(* order in which a poll visits them is left open.                         *)
(***************************************************************************)
EXTENDS AnomalyDetectors, PaneLifecycle

CONSTANTS
    Panes,
    Readings,       \* the samples a tick may take
    Windows,        \* values of [anomaly] window_polls
    Minimums,       \* values of [anomaly] min_confidence
    Promotes        \* [anomaly.promote]: per kind, the confidence it needs

ASSUME DedupAssumption ==
    /\ Readings \subseteq Sample
    /\ Windows \subseteq Nat \ {0} /\ Windows # {}
    /\ Minimums \subseteq Confidence /\ Minimums # {}
    /\ Promotes \in [Kinds -> Confidence]

VARIABLES
    gates,      \* PolicyGates, the part read here
    seen,       \* PaneLifecycle.seen
    history,    \* Context.anomaly_history
    dedup,      \* Context.anomaly_dedup: per pane, the kinds with an entry
    report,     \* of the pane's last observation: what is shown and promoted
    \* History of the present lifetime, which the code does not keep:
    told,       \* how often each kind was told in its present episode
    raised,     \* kinds that were promoted in their present episode
    lapsed,     \* kinds told in an episode that ended while switched off
    due         \* of the last observation: kinds to be told, kinds at High

vars == <<gates, seen, history, dedup, report, told, raised, lapsed, due>>

Gates  == [enabled : BOOLEAN, window : Windows, minimum : Minimums]
Report == [anomalies : SUBSET Kinds, promoted : SUBSET Kinds, notify : BOOLEAN]
Due    == [loud : SUBSET Kinds, high : SUBSET Kinds, first : BOOLEAN]

Untold     == [kind \in Kinds |-> 0]
NoReport   == [anomalies |-> {}, promoted |-> {}, notify |-> FALSE]
NothingDue == [loud |-> {}, high |-> {}, first |-> FALSE]

TypeOK ==
    /\ gates \in Gates
    /\ seen \in [Panes -> {"unseen", "alive", "dead"}]
    /\ \A p \in Panes : history[p] \in Seq(Sample)
    /\ \A p \in Panes : \E n \in Windows : Len(history[p]) <= n
    /\ dedup \in [Panes -> SUBSET Kinds]
    /\ report \in [Panes -> Report]
    /\ told \in [Panes -> [Kinds -> Nat]]
    /\ raised \in [Panes -> SUBSET Kinds]
    /\ lapsed \in [Panes -> SUBSET Kinds]
    /\ due \in [Panes -> Due]

-----------------------------------------------------------------------------
(* eval_anomalies *)

\* push_front, then AnomalyHistory::trim.
Push(deque, sample) == Recent(<<sample>> \o deque, gates.window)

\* Signals that are new and confident enough.
Emitted(verdicts, kinds, before) ==
    {kind \in kinds : /\ verdicts[kind] # Silent
                      /\ verdicts[kind] >= gates.minimum
                      /\ kind \notin before}

\* Every detector's verdict; that of SubagentSideEffect comes last, from the
\* signals that the others have just emitted.
Verdicts(samples, before) ==
    LET others == DetectorVerdicts(samples, gates.window)
        out    == IF gates.enabled THEN Emitted(others, Detectors, before) ELSE {}
    IN  [kind \in Kinds |->
            IF kind \in Detectors THEN others[kind]
            ELSE SubagentSideEffect(samples, gates.window, out)]

\* Fault: a signal that is filtered out is recorded as well.
DedupOfFiltered(verdicts, before) == {kind \in Kinds : verdicts[kind] # Silent}

\* Fault: only what is promoted is recorded.
DedupOfPromoted(verdicts, before) ==
    {kind \in Kinds : /\ verdicts[kind] # Silent
                      /\ kind \in before \/ verdicts[kind] >= Promotes[kind]}

\* The entries afterwards: kept while the detector speaks, cleared when it is
\* silent, made for what is emitted. Switched off, nothing is touched.
DedupAfter(verdicts, before) ==
    IF gates.enabled
    THEN {kind \in Kinds : verdicts[kind] # Silent /\ kind \in before}
            \union Emitted(verdicts, Kinds, before)
    ELSE before

\* promote_anomalies_to_recommendations and the Notify it asks for: only High
\* has the severity of a warning.
ReportOf(verdicts, out) ==
    LET promoted == {kind \in out : verdicts[kind] >= Promotes[kind]} IN
    [anomalies |-> out, promoted |-> promoted,
     notify |-> \E kind \in promoted : verdicts[kind] = High]

-----------------------------------------------------------------------------
(* Actions *)

Init ==
    /\ gates \in Gates
    /\ seen = [p \in Panes |-> "unseen"]
    /\ history = [p \in Panes |-> <<>>]
    /\ dedup = [p \in Panes |-> {}]
    /\ report = [p \in Panes |-> NoReport]
    /\ told = [p \in Panes |-> Untold]
    /\ raised = [p \in Panes |-> {}]
    /\ lapsed = [p \in Panes |-> {}]
    /\ due = [p \in Panes |-> NothingDue]

\* What the history variables make of an observation of a pane.
Remember(p, verdicts, out, promoted) ==
    LET speaking == {kind \in Kinds : verdicts[kind] # Silent}
        ended    == {kind \in Kinds : told[p][kind] > 0} \ speaking
    IN
    /\ told' = [told EXCEPT ![p] = [kind \in Kinds |->
         IF kind \notin speaking THEN 0
         ELSE IF kind \in out THEN @[kind] + 1 ELSE @[kind]]]
    /\ raised' = [raised EXCEPT ![p] = (@ \intersect speaking) \union promoted]
    /\ lapsed' = [lapsed EXCEPT ![p] =
         IF gates.enabled THEN @ \intersect speaking ELSE @ \union ended]
    /\ due' = [due EXCEPT ![p] =
         [loud |-> {kind \in speaking : gates.enabled /\ verdicts[kind] >= gates.minimum},
          high |-> {kind \in speaking : gates.enabled /\ verdicts[kind] = High},
          first |-> seen[p] # "alive"]]

\* A live pane: reset on a new lifetime, push the samples of the tick, evaluate,
\* promote; at the end of the poll the paths of its cross-pane findings are
\* folded into the sample, where the next tick sees them.
ObserveAlive(p, reading) ==
    LET evicted  == Evicts(LifecycleEvent(seen[p], "alive"))
        samples  == Push(IF evicted THEN <<>> ELSE history[p], [reading EXCEPT !.edits = {}])
        before   == IF evicted THEN {} ELSE dedup[p]
        verdicts == Verdicts(samples, before)
        out      == IF gates.enabled THEN Emitted(verdicts, Kinds, before) ELSE {}
        shown    == ReportOf(verdicts, out)
    IN
    /\ seen' = [seen EXCEPT ![p] = "alive"]
    /\ history' = [history EXCEPT ![p] = [samples EXCEPT ![1].edits = reading.edits]]
    /\ dedup' = [dedup EXCEPT ![p] = DedupAfter(verdicts, before)]
    /\ report' = [report EXCEPT ![p] = shown]
    /\ Remember(p, verdicts, out, shown.promoted)
    /\ UNCHANGED gates

\* The pane's lifetime is over, and with it its history.
Forget(p) ==
    /\ told' = [told EXCEPT ![p] = Untold]
    /\ raised' = [raised EXCEPT ![p] = {}]
    /\ lapsed' = [lapsed EXCEPT ![p] = {}]
    /\ due' = [due EXCEPT ![p] = NothingDue]

\* A dead pane: its death drops deques and entries; nothing is evaluated.
ObserveDead(p) ==
    LET evicted == Evicts(LifecycleEvent(seen[p], "dead")) IN
    /\ seen' = [seen EXCEPT ![p] = "dead"]
    /\ history' = [history EXCEPT ![p] = IF evicted THEN <<>> ELSE @]
    /\ dedup' = [dedup EXCEPT ![p] = IF evicted THEN {} ELSE @]
    /\ report' = [report EXCEPT ![p] = NoReport]
    /\ Forget(p)
    /\ UNCHANGED gates

\* The listing no longer has the pane; its deques and entries stay.
Vanish(p) ==
    /\ seen[p] = "alive"
    /\ seen' = [seen EXCEPT ![p] = Forgotten(@)]
    /\ report' = [report EXCEPT ![p] = NoReport]
    /\ Forget(p)
    /\ UNCHANGED <<gates, history, dedup>>

\* The operator edits the [anomaly] parameters between two polls.
ChangeSettings ==
    /\ gates' \in Gates \ {gates}
    /\ due' = [p \in Panes |-> NothingDue]
    /\ UNCHANGED <<seen, history, dedup, report, told, raised, lapsed>>

Next ==
    \/ \E p \in Panes, reading \in Readings : ObserveAlive(p, reading)
    \/ \E p \in Panes : ObserveDead(p) \/ Vanish(p)
    \/ ChangeSettings

Spec == Init /\ [][Next]_vars

-----------------------------------------------------------------------------
(* Properties *)

\* However long an episode lasts, whatever is switched, filtered or resized
\* meanwhile, it is told at most once ("edge-triggered dedup").
EpisodesAreToldOnce == \A p \in Panes, kind \in Kinds : told[p][kind] <= 1

\* And it is told as soon as its confidence suffices: nothing left over from an
\* earlier episode, an earlier lifetime or a filtered signal suppresses it. The
\* exception: the map keeps the entry of an episode that ended while the
\* detectors were switched off, and suppresses the next one after they are
\* switched on.
EpisodesAreTold ==
    \A p \in Panes : \A kind \in due[p].loud : told[p][kind] > 0 \/ kind \in lapsed[p]

\* The first observation of a lifetime raises nothing, unless the window is one
\* poll: each detector needs two observations of the same lifetime (or rows of an
\* earlier process, which are the subject of AnomalyReplay), whatever the pane id
\* showed before it was reused (the evictions of run_once_with_target).
FirstSightIsSilent ==
    gates.window > 1 => \A p \in Panes : due[p].first => report[p].anomalies = {}

\* An episode that is at High is promoted, now or earlier in the episode. Not so
\* in the code: one that was told at Medium is "still active" when it gets to
\* High, and is never promoted or notified.
HighEpisodesArePromoted ==
    \A p \in Panes : due[p].high \subseteq raised[p] \union lapsed[p]
=============================================================================
