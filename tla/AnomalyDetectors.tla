-------------------------- MODULE AnomalyDetectors --------------------------
(***************************************************************************)
(* What the detectors of policy/rules/anomaly.rs make of a pane's rolling  *)
(* window. A window is a sequence of samples, newest first; a verdict is a *)
(* confidence, or Silent. Time is counted in nominal polls of two seconds, *)
(* and a threshold has the unit of what it is compared with.               *)
(***************************************************************************)
EXTENDS Integers, Sequences, FiniteSetsExt

CONSTANTS
    Providers,      \* of which "Claude", "Codex" and "Gemini" have detectors
    Places,         \* current_path
    Paths,          \* files that panes may edit at the same time
    None,           \* a reading the provider did not show
    MinFlips, ErrorPercent, MinDrop, MinFindings,
    CostPerPoll, TokensPerPoll, MemoryRise

ASSUME DetectorsAssumption ==
    /\ None \notin Nat
    /\ \A t \in {MinFlips, ErrorPercent, MinDrop, MinFindings,
                 CostPerPoll, TokensPerPoll, MemoryRise} : t \in Nat \ {0}

Silent == 0
Low    == 1
Medium == 2
High   == 3
Confidence == Low..High

Detectors == {"IdentityChurn", "ErrorBurst", "CacheDiscontinuity", "CrossPaneEditCluster",
              "CostSlope", "TokenSlope", "MemoryGrowth"}
Kinds == Detectors \union {"SubagentSideEffect"}

\* AnomalyKind::supported_providers.
Supports(kind, provider) ==
    CASE kind \in {"CacheDiscontinuity", "CrossPaneEditCluster"} -> provider \in {"Claude", "Codex"}
      [] kind = "TokenSlope"   -> provider = "Codex"
      [] kind = "MemoryGrowth" -> provider = "Gemini"
      [] OTHER                 -> provider \in {"Claude", "Codex", "Gemini"}

Metric == Nat \union {None}

\* One tick: "gap" is the time since the tick before, 0 when the clock did not
\* advance; "edits" are the paths of the concurrent-edit findings of the tick.
Sample == [provider : Providers, place : Places, error : BOOLEAN, subagent : BOOLEAN,
           drift : BOOLEAN, ratio : Metric, cost : Metric, tokens : Metric,
           memory : Metric, edits : SUBSET Paths, gap : Nat]

Recent(history, n) == SubSeq(history, 1, IF Len(history) < n THEN Len(history) ELSE n)

Occurrences(window, flag) == Cardinality({i \in DOMAIN window : window[i][flag]})

\* The ticks of the window at which a metric was read.
Known(window, metric) == {i \in DOMAIN window : window[i][metric] # None}

\* From the oldest known reading to the newest.
Rise(window, metric) ==
    LET known == Known(window, metric)
    IN  IF Cardinality(known) < 2 THEN 0
        ELSE window[Min(known)][metric] - window[Max(known)][metric]

\* Most detectors: Medium at the threshold, High at one and a half of it.
Graded(value, threshold) ==
    IF value < threshold THEN Silent
    ELSE IF 2 * value >= 3 * threshold THEN High ELSE Medium

IdentityChurn(window) ==
    LET flips == {i \in 1..(Len(window) - 1) :
                    \/ window[i].provider # window[i + 1].provider
                    \/ window[i].place # window[i + 1].place}
    IN  Graded(Cardinality(flips), MinFlips)

ErrorBurst(window, n) ==
    IF Len(window) < n THEN Silent
    ELSE Graded(100 * Occurrences(window, "error"), ErrorPercent * n)

\* A drop of the hit ratio over the window, or drift found repeatedly in it.
CacheDiscontinuity(window) ==
    LET drifts == Occurrences(window, "drift")
        drop   == -Rise(window, "ratio")
    IN
    IF 2 * drop >= 3 * MinDrop \/ drifts >= 4 THEN High
    ELSE IF drop >= MinDrop \/ drifts >= 2 THEN Medium ELSE Silent

CrossPaneEditCluster(window) ==
    LET FoundOften(n) == \E path \in Paths :
            Cardinality({i \in DOMAIN window : path \in window[i].edits}) >= n
    IN
    IF FoundOften(2 * MinFindings) THEN High
    ELSE IF FoundOften(MinFindings) THEN Medium ELSE Silent

\* elapsed_secs_for_window: the time between the ends of a full window, or
\* nominally one poll per sample when the clock shows none.
Elapsed(window) ==
    LET upTo[i \in 0..Len(window)] == IF i = 0 THEN 0 ELSE upTo[i - 1] + window[i].gap
        between == upTo[Len(window) - 1]
    IN  IF between > 0 THEN between ELSE Len(window)

\* The detectors of a rise want a full window and two readings in it.
RiseVerdict(window, metric, n, threshold) ==
    IF Len(window) < n \/ Cardinality(Known(window, metric)) < 2 THEN Silent
    ELSE Graded(Rise(window, metric), threshold)

\* Every detector on the recent window, those aside that the provider of the
\* newest sample does not support.
DetectorVerdicts(history, n) ==
    LET window   == Recent(history, n)
        provider == history[1].provider
        If(kind, verdict) == IF Supports(kind, provider) THEN verdict ELSE Silent
    IN
    [IdentityChurn        |-> If("IdentityChurn", IdentityChurn(window)),
     ErrorBurst           |-> If("ErrorBurst", ErrorBurst(window, n)),
     CacheDiscontinuity   |-> If("CacheDiscontinuity", CacheDiscontinuity(window)),
     CrossPaneEditCluster |-> If("CrossPaneEditCluster", CrossPaneEditCluster(window)),
     CostSlope            |-> If("CostSlope",
        RiseVerdict(window, "cost", n, CostPerPoll * Elapsed(window))),
     TokenSlope           |-> If("TokenSlope",
        RiseVerdict(window, "tokens", n, TokensPerPoll * Elapsed(window))),
     MemoryGrowth         |-> If("MemoryGrowth", RiseVerdict(window, "memory", n, MemoryRise))]

\* detect_subagent_side_effect: a hint in the window next to another anomaly
\* that is told in this tick. It is not asked whether the provider supports it.
SubagentSideEffect(history, n, others) ==
    IF others # {} /\ Occurrences(Recent(history, n), "subagent") > 0 THEN Medium ELSE Silent
=============================================================================
