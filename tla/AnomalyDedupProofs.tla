------------------------- MODULE AnomalyDedupProofs -------------------------
(***************************************************************************)
(* Whatever the detectors say, and whatever is switched, filtered or       *)
(* resized: every episode is told, and told once. And of what they say, by *)
(* their definitions: nothing at the first sight of a lifetime.            *)
(***************************************************************************)
EXTENDS AnomalyDedup, FiniteSetTheorems, SequenceTheorems, TLAPS

\* The types the argument needs; of the windows and verdicts it needs none.
EntriesType ==
    /\ seen \in [Panes -> {"unseen", "alive", "dead"}]
    /\ dedup \in [Panes -> SUBSET Kinds]
    /\ told \in [Panes -> [Kinds -> Nat]]
    /\ lapsed \in [Panes -> SUBSET Kinds]
    /\ due \in [Panes -> Due]

\* While a lifetime lasts, the map has an entry of exactly the kinds that were
\* told in their present episode, and of those that lapsed.
EntriesAreExplained ==
    \A p \in Panes : seen[p] = "alive" =>
        \A kind \in Kinds : kind \in dedup[p] <=> told[p][kind] > 0 \/ kind \in lapsed[p]

\* No episode outlives its pane, and a pane that was never seen has no entry.
NoLifeNoEpisode ==
    \A p \in Panes : seen[p] # "alive" =>
        /\ told[p] = Untold /\ lapsed[p] = {}
        /\ due[p] = NothingDue
        /\ seen[p] = "unseen" => dedup[p] = {}

DedupInv ==
    /\ EntriesType
    /\ EntriesAreExplained
    /\ NoLifeNoEpisode
    /\ EpisodesAreToldOnce
    /\ EpisodesAreTold

-----------------------------------------------------------------------------

LEMMA InitDedup == Init => DedupInv
<1> SUFFICES ASSUME Init PROVE DedupInv
  OBVIOUS
<1>1. Untold \in [Kinds -> Nat] /\ \A kind \in Kinds : Untold[kind] = 0
  BY DEF Untold
<1>2. NothingDue \in Due /\ NothingDue.loud = {}
  BY DEF NothingDue, Due
<1>3. EntriesType
  BY <1>1, <1>2 DEF Init, EntriesType
<1>4. EntriesAreExplained /\ NoLifeNoEpisode
  BY <1>1 DEF Init, EntriesAreExplained, NoLifeNoEpisode
<1>5. EpisodesAreToldOnce /\ EpisodesAreTold
  BY <1>1, <1>2 DEF Init, EpisodesAreToldOnce, EpisodesAreTold
<1> QED
  BY <1>3, <1>4, <1>5 DEF DedupInv

\* What one evaluation does to one kind, whatever the verdicts are.
LEMMA OneEvaluation ==
    ASSUME NEW p \in Panes, NEW verdicts, NEW before \in SUBSET Kinds, NEW out, NEW promoted,
           DedupInv,
           out = IF gates.enabled THEN Emitted(verdicts, Kinds, before) ELSE {},
           \A kind \in Kinds : kind \in before <=> told[p][kind] > 0 \/ kind \in lapsed[p],
           Remember(p, verdicts, out, promoted)
    PROVE  /\ DedupAfter(verdicts, before) \in SUBSET Kinds
           /\ told'[p] \in [Kinds -> Nat] /\ lapsed'[p] \in SUBSET Kinds /\ due'[p] \in Due
           /\ \A kind \in Kinds :
                /\ kind \in DedupAfter(verdicts, before) <=> told'[p][kind] > 0 \/ kind \in lapsed'[p]
                /\ told'[p][kind] <= 1
                /\ kind \in due'[p].loud => told'[p][kind] > 0 \/ kind \in lapsed'[p]
           /\ \A q \in Panes \ {p} :
                told'[q] = told[q] /\ lapsed'[q] = lapsed[q] /\ due'[q] = due[q]
           /\ told' \in [Panes -> [Kinds -> Nat]]
           /\ lapsed' \in [Panes -> SUBSET Kinds]
           /\ due' \in [Panes -> Due]
<1> DEFINE speaking == {kind \in Kinds : verdicts[kind] # Silent}
<1> DEFINE loud == {kind \in speaking : gates.enabled /\ verdicts[kind] >= gates.minimum}
<1> DEFINE high == {kind \in speaking : gates.enabled /\ verdicts[kind] = High}
<1>1. /\ told[p] \in [Kinds -> Nat] /\ lapsed[p] \in SUBSET Kinds
      /\ \A kind \in Kinds : told[p][kind] <= 1
  BY DEF DedupInv, EntriesType, EpisodesAreToldOnce
<1>2. /\ told' = [told EXCEPT ![p] = [kind \in Kinds |->
            IF kind \notin speaking THEN 0
            ELSE IF kind \in out THEN told[p][kind] + 1 ELSE told[p][kind]]]
      /\ lapsed' = [lapsed EXCEPT ![p] =
            IF gates.enabled THEN lapsed[p] \intersect speaking
            ELSE lapsed[p] \union ({kind \in Kinds : told[p][kind] > 0} \ speaking)]
      /\ due' = [due EXCEPT ![p] = [loud |-> loud, high |-> high, first |-> seen[p] # "alive"]]
  BY DEF Remember
<1>3. /\ told'[p] = [kind \in Kinds |->
            IF kind \notin speaking THEN 0
            ELSE IF kind \in out THEN told[p][kind] + 1 ELSE told[p][kind]]
      /\ lapsed'[p] = IF gates.enabled THEN lapsed[p] \intersect speaking
            ELSE lapsed[p] \union ({kind \in Kinds : told[p][kind] > 0} \ speaking)
      /\ due'[p] = [loud |-> loud, high |-> high, first |-> seen[p] # "alive"]
      /\ \A q \in Panes \ {p} : told'[q] = told[q] /\ lapsed'[q] = lapsed[q] /\ due'[q] = due[q]
  BY <1>2 DEF DedupInv, EntriesType
<1>4. \A kind \in Kinds : kind \in out =>
         told[p][kind] = 0 /\ kind \notin lapsed[p] /\ kind \in speaking
  BY <1>1 DEF Emitted
<1>5. /\ told'[p] \in [Kinds -> Nat] /\ lapsed'[p] \in SUBSET Kinds
      /\ \A kind \in Kinds : told'[p][kind] <= 1
  BY <1>1, <1>3, <1>4
<1>6. loud \in SUBSET Kinds /\ high \in SUBSET Kinds /\ (seen[p] # "alive") \in BOOLEAN
  OBVIOUS
<1>7. due'[p] \in Due
  BY <1>3, <1>6 DEF Due
<1>8. ASSUME NEW kind \in Kinds
      PROVE  /\ kind \in DedupAfter(verdicts, before) <=> told'[p][kind] > 0 \/ kind \in lapsed'[p]
             /\ kind \in due'[p].loud => told'[p][kind] > 0 \/ kind \in lapsed'[p]
  <2>1. told'[p][kind] = IF kind \notin speaking THEN 0
                         ELSE IF kind \in out THEN told[p][kind] + 1 ELSE told[p][kind]
    BY <1>3
  <2>2. told[p][kind] \in Nat
    BY <1>1
  <2>3. due'[p].loud = loud
    BY <1>3
  <2>4. CASE gates.enabled
    <3>1. kind \in DedupAfter(verdicts, before) <=> (kind \in speaking /\ kind \in before) \/ kind \in out
      BY <2>4 DEF DedupAfter, Emitted
    <3>2. kind \in lapsed'[p] <=> kind \in lapsed[p] /\ kind \in speaking
      BY <2>4, <1>3
    <3>3. kind \in loud => kind \in speaking /\ (kind \in before \/ kind \in out)
      BY <2>4 DEF Emitted
    <3> QED
      BY <3>1, <3>2, <3>3, <2>1, <2>2, <2>3, <1>4
  <2>5. CASE ~gates.enabled
    <3>1. DedupAfter(verdicts, before) = before /\ out = {} /\ loud = {}
      BY <2>5 DEF DedupAfter
    <3>2. kind \in lapsed'[p] <=> kind \in lapsed[p] \/ (told[p][kind] > 0 /\ kind \notin speaking)
      BY <2>5, <1>3
    <3> QED
      BY <3>1, <3>2, <2>1, <2>2, <2>3
  <2> QED
    BY <2>4, <2>5
<1>9. DedupAfter(verdicts, before) \in SUBSET Kinds
  BY DEF DedupAfter, Emitted
<1>10. /\ told' \in [Panes -> [Kinds -> Nat]] /\ lapsed' \in [Panes -> SUBSET Kinds]
       /\ due' \in [Panes -> Due]
  BY <1>2, <1>3, <1>5, <1>7 DEF DedupInv, EntriesType
<1> QED
  BY <1>3, <1>5, <1>7, <1>8, <1>9, <1>10

LEMMA ObserveAliveDedup ==
    ASSUME DedupInv, NEW p \in Panes, NEW reading \in Readings, ObserveAlive(p, reading)
    PROVE  DedupInv'
<1> DEFINE evicted  == Evicts(LifecycleEvent(seen[p], "alive"))
           samples  == Push(IF evicted THEN <<>> ELSE history[p], [reading EXCEPT !.edits = {}])
           before   == IF evicted THEN {} ELSE dedup[p]
           verdicts == Verdicts(samples, before)
           out      == IF gates.enabled THEN Emitted(verdicts, Kinds, before) ELSE {}
           promoted == ReportOf(verdicts, out).promoted
<1>1. /\ seen' = [seen EXCEPT ![p] = "alive"]
      /\ dedup' = [dedup EXCEPT ![p] = DedupAfter(verdicts, before)]
      /\ Remember(p, verdicts, out, promoted)
  BY DEF ObserveAlive
<1>2. seen[p] \in {"unseen", "alive", "dead"} /\ dedup[p] \in SUBSET Kinds
  BY DEF DedupInv, EntriesType
<1>3. evicted <=> seen[p] = "dead"
  BY <1>2 DEF Evicts, LifecycleEvent
<1>4. before \in SUBSET Kinds
  BY <1>2
<1>5. \A kind \in Kinds : kind \in before <=> told[p][kind] > 0 \/ kind \in lapsed[p]
  <2>1. CASE seen[p] = "alive"
    BY <2>1, <1>3 DEF DedupInv, EntriesAreExplained
  <2>2. CASE seen[p] # "alive"
    <3>1. before = {} /\ told[p] = Untold /\ lapsed[p] = {}
      BY <2>2, <1>2, <1>3 DEF DedupInv, NoLifeNoEpisode
    <3> QED
      BY <3>1 DEF Untold
  <2> QED
    BY <2>1, <2>2
<1> HIDE DEF evicted, samples, verdicts, promoted, before
<1>6. /\ DedupAfter(verdicts, before) \in SUBSET Kinds
      /\ \A kind \in Kinds :
           /\ kind \in DedupAfter(verdicts, before) <=> told'[p][kind] > 0 \/ kind \in lapsed'[p]
           /\ told'[p][kind] <= 1
           /\ kind \in due'[p].loud => told'[p][kind] > 0 \/ kind \in lapsed'[p]
      /\ \A q \in Panes \ {p} :
           told'[q] = told[q] /\ lapsed'[q] = lapsed[q] /\ due'[q] = due[q]
      /\ told' \in [Panes -> [Kinds -> Nat]]
      /\ lapsed' \in [Panes -> SUBSET Kinds]
      /\ due' \in [Panes -> Due]
  BY <1>1, <1>4, <1>5, OneEvaluation
<1>7. /\ seen'[p] = "alive" /\ dedup'[p] = DedupAfter(verdicts, before)
      /\ \A q \in Panes \ {p} : seen'[q] = seen[q] /\ dedup'[q] = dedup[q]
  BY <1>1 DEF DedupInv, EntriesType
<1>8. EntriesType'
  BY <1>1, <1>6 DEF DedupInv, EntriesType
<1>9. EntriesAreExplained' /\ NoLifeNoEpisode'
  <2>1. ASSUME NEW q \in Panes, seen'[q] = "alive", NEW kind \in Kinds
        PROVE  kind \in dedup'[q] <=> told'[q][kind] > 0 \/ kind \in lapsed'[q]
    <3>1. CASE q = p
      BY <3>1, <1>6, <1>7
    <3>2. CASE q # p
      BY <3>2, <2>1, <1>6, <1>7 DEF DedupInv, EntriesAreExplained
    <3> QED
      BY <3>1, <3>2
  <2>2. NoLifeNoEpisode'
    BY <1>6, <1>7 DEF DedupInv, NoLifeNoEpisode
  <2> QED
    BY <2>1, <2>2 DEF EntriesAreExplained
<1>10. EpisodesAreToldOnce'
  BY <1>6, <1>7 DEF DedupInv, EpisodesAreToldOnce
<1>11. EpisodesAreTold'
  <2> SUFFICES ASSUME NEW q \in Panes, NEW kind \in due'[q].loud
               PROVE  told'[q][kind] > 0 \/ kind \in lapsed'[q]
    BY DEF EpisodesAreTold
  <2>1. kind \in Kinds
    BY <1>8 DEF EntriesType, Due
  <2>2. CASE q = p
    BY <2>1, <2>2, <1>6
  <2>3. CASE q # p
    BY <2>3, <1>6 DEF DedupInv, EpisodesAreTold
  <2> QED
    BY <2>2, <2>3
<1> QED
  BY <1>8, <1>9, <1>10, <1>11 DEF DedupInv

\* A pane that is not alive any more, dead or gone.
LEMMA EndOfLife ==
    ASSUME DedupInv, NEW p \in Panes, NEW entries \in SUBSET Kinds,
           seen' = [seen EXCEPT ![p] = "dead"],
           dedup' = [dedup EXCEPT ![p] = entries],
           Forget(p)
    PROVE  DedupInv'
<1>1. Untold \in [Kinds -> Nat] /\ \A kind \in Kinds : Untold[kind] = 0
  BY DEF Untold
<1>2. NothingDue \in Due /\ NothingDue.loud = {}
  BY DEF NothingDue, Due
<1>3. /\ seen'[p] = "dead" /\ told'[p] = Untold /\ lapsed'[p] = {} /\ due'[p] = NothingDue
      /\ \A q \in Panes \ {p} :
           /\ seen'[q] = seen[q] /\ dedup'[q] = dedup[q] /\ told'[q] = told[q]
           /\ lapsed'[q] = lapsed[q] /\ due'[q] = due[q]
  BY DEF Forget, DedupInv, EntriesType
<1>4. EntriesType'
  BY <1>1, <1>2 DEF Forget, DedupInv, EntriesType
<1>5. EntriesAreExplained' /\ NoLifeNoEpisode'
  BY <1>3 DEF DedupInv, EntriesAreExplained, NoLifeNoEpisode
<1>6. EpisodesAreToldOnce'
  BY <1>1, <1>3 DEF DedupInv, EpisodesAreToldOnce
<1>7. EpisodesAreTold'
  BY <1>2, <1>3 DEF DedupInv, EpisodesAreTold
<1> QED
  BY <1>4, <1>5, <1>6, <1>7 DEF DedupInv

LEMMA NextDedup == DedupInv /\ [Next]_vars => DedupInv'
<1> SUFFICES ASSUME DedupInv, [Next]_vars PROVE DedupInv'
  OBVIOUS
<1>1. CASE \E p \in Panes, reading \in Readings : ObserveAlive(p, reading)
  BY <1>1, ObserveAliveDedup
<1>2. CASE \E p \in Panes : ObserveDead(p)
  <2>1. PICK p \in Panes : ObserveDead(p)
    BY <1>2
  <2> DEFINE entries == IF Evicts(LifecycleEvent(seen[p], "dead")) THEN {} ELSE dedup[p]
  <2>2. /\ seen' = [seen EXCEPT ![p] = "dead"] /\ dedup' = [dedup EXCEPT ![p] = entries]
        /\ Forget(p)
    BY <2>1 DEF ObserveDead
  <2>3. entries \in SUBSET Kinds
    BY DEF DedupInv, EntriesType
  <2> QED
    BY <2>2, <2>3, EndOfLife
<1>3. CASE \E p \in Panes : Vanish(p)
  <2>1. PICK p \in Panes : Vanish(p)
    BY <1>3
  <2>2. /\ seen' = [seen EXCEPT ![p] = "dead"] /\ dedup' = [dedup EXCEPT ![p] = dedup[p]]
        /\ Forget(p) /\ dedup[p] \in SUBSET Kinds
    BY <2>1 DEF Vanish, Forgotten, DedupInv, EntriesType
  <2> QED
    BY <2>2, EndOfLife
<1>4. CASE ChangeSettings
  <2>1. NothingDue \in Due /\ NothingDue.loud = {}
    BY DEF NothingDue, Due
  <2>2. /\ UNCHANGED <<seen, dedup, told, lapsed>>
        /\ due' = [p \in Panes |-> NothingDue]
    BY <1>4 DEF ChangeSettings
  <2>3. EntriesType' /\ EntriesAreExplained' /\ NoLifeNoEpisode'
    BY <2>1, <2>2 DEF DedupInv, EntriesType, EntriesAreExplained, NoLifeNoEpisode
  <2>4. EpisodesAreToldOnce' /\ EpisodesAreTold'
    BY <2>1, <2>2 DEF DedupInv, EpisodesAreToldOnce, EpisodesAreTold
  <2> QED
    BY <2>3, <2>4 DEF DedupInv
<1>5. CASE UNCHANGED vars
  BY <1>5 DEF vars, DedupInv, EntriesType, EntriesAreExplained, NoLifeNoEpisode,
     EpisodesAreToldOnce, EpisodesAreTold
<1> QED
  BY <1>1, <1>2, <1>3, <1>4, <1>5 DEF Next

-----------------------------------------------------------------------------

\* The inductive invariant: the map of eval_anomalies has an entry of exactly
\* the kinds told in their present episode or lapsed, in every reachable state.
THEOREM DedupInvariance == Spec => []DedupInv
<1> QED
  BY InitDedup, NextDedup, PTL DEF Spec

\* For any panes, readings, thresholds and settings: no episode is told twice.
THEOREM ToldOnce == Spec => []EpisodesAreToldOnce
<1>1. DedupInv => EpisodesAreToldOnce
  BY DEF DedupInv
<1> QED
  BY <1>1, DedupInvariance, PTL

\* For any panes, readings, thresholds and settings: an episode is told as soon
\* as it is confident enough, unless an entry lapsed while switched off.
THEOREM Told == Spec => []EpisodesAreTold
<1>1. DedupInv => EpisodesAreTold
  BY DEF DedupInv
<1> QED
  BY <1>1, DedupInvariance, PTL

-----------------------------------------------------------------------------
(* The detectors on a window of one sample *)

LEMMA FewOfOne == \A S : S \subseteq {1} => Cardinality(S) \in Nat /\ Cardinality(S) < 2
<1> SUFFICES ASSUME NEW S, S \subseteq {1} PROVE Cardinality(S) \in Nat /\ Cardinality(S) < 2
  OBVIOUS
<1>1. IsFiniteSet({1}) /\ Cardinality({1}) = 1
  BY FS_Singleton
<1>2. IsFiniteSet(S) /\ Cardinality(S) <= Cardinality({1})
  BY <1>1, FS_Subset
<1>3. Cardinality(S) \in Nat
  BY <1>2, FS_CardinalityType
<1> QED
  BY <1>1, <1>2, <1>3

\* Two ticks at least, or a full window, is what each of them asks for.
LEMMA LoneSampleIsSilent ==
    ASSUME NEW s \in Sample, s.edits = {}, NEW n \in Nat, n > 1
    PROVE  \A kind \in Detectors : DetectorVerdicts(<<s>>, n)[kind] = Silent
<1> DEFINE window == Recent(<<s>>, n)
           If(kind, verdict) == IF Supports(kind, <<s>>[1].provider) THEN verdict ELSE Silent
<1>1. window = <<s>> /\ Len(window) = 1 /\ DOMAIN window = {1} /\ window[1] = s
  <2>1. <<s>> \in Seq(Sample) /\ Len(<<s>>) = 1
    OBVIOUS
  <2>2. window = SubSeq(<<s>>, 1, 1)
    BY <2>1 DEF Recent
  <2>3. /\ SubSeq(<<s>>, 1, 1) \in Seq(Sample) /\ Len(SubSeq(<<s>>, 1, 1)) = 1
        /\ SubSeq(<<s>>, 1, 1)[1] = s
    BY <2>1
  <2>4. DOMAIN SubSeq(<<s>>, 1, 1) = {1}
    BY <2>3
  <2>5. SubSeq(<<s>>, 1, 1) = <<s>>
    <3> DEFINE t == SubSeq(<<s>>, 1, 1)
               u == <<s>>
    <3>1. \A i \in 1 .. Len(t) : t[i] = u[i]
      BY <2>3
    <3>2. t \in Seq(Sample) /\ u \in Seq(Sample) /\ Len(t) = Len(u)
      BY <2>1, <2>3
    <3> HIDE DEF t, u
    <3>3. t = u
      BY <3>1, <3>2, SeqEqual
    <3> QED
      BY <3>3 DEF t, u
  <2> QED
    BY <2>2, <2>3, <2>4, <2>5
<1> HIDE DEF window
<1>2. /\ MinFlips > 0 /\ MinFlips \in Nat /\ MinDrop > 0 /\ MinDrop \in Nat
      /\ MinFindings > 0 /\ MinFindings \in Nat
  BY DetectorsAssumption
<1>3. IdentityChurn(window) = Silent
  <2>1. {i \in 1..(Len(window) - 1) :
           \/ window[i].provider # window[i + 1].provider
           \/ window[i].place # window[i + 1].place} = {}
    BY <1>1
  <2>2. Cardinality({}) = 0
    BY FS_EmptySet
  <2> QED
    BY <2>1, <2>2, <1>2 DEF IdentityChurn, Graded
<1>4. ErrorBurst(window, n) = Silent
  BY <1>1 DEF ErrorBurst
<1>5. \A metric : Known(window, metric) \subseteq {1}
  BY <1>1 DEF Known
<1>6. \A metric : Cardinality(Known(window, metric)) < 2
  BY <1>5, FewOfOne
<1>7. CacheDiscontinuity(window) = Silent
  <2>1. Occurrences(window, "drift") \in Nat /\ Occurrences(window, "drift") < 2
    BY <1>1, FewOfOne DEF Occurrences
  <2>2. Rise(window, "ratio") = 0
    BY <1>6 DEF Rise
  <2> QED
    BY <2>1, <2>2, <1>2 DEF CacheDiscontinuity
<1>8. CrossPaneEditCluster(window) = Silent
  <2>1. \A path \in Paths : {i \in DOMAIN window : path \in window[i].edits} = {}
    BY <1>1
  <2>2. Cardinality({}) = 0
    BY FS_EmptySet
  <2>3. \A k \in {MinFindings, 2 * MinFindings}, path \in Paths :
           ~(Cardinality({i \in DOMAIN window : path \in window[i].edits}) >= k)
    <3> SUFFICES ASSUME NEW k \in {MinFindings, 2 * MinFindings}, NEW path \in Paths
                 PROVE  ~(Cardinality({i \in DOMAIN window : path \in window[i].edits}) >= k)
      OBVIOUS
    <3>1. Cardinality({i \in DOMAIN window : path \in window[i].edits}) = 0
      BY <2>1, <2>2
    <3> HIDE DEF window
    <3> QED
      BY <3>1, <1>2
  <2> QED
    BY <2>3 DEF CrossPaneEditCluster
<1>9. \A metric, threshold : RiseVerdict(window, metric, n, threshold) = Silent
  BY <1>1 DEF RiseVerdict
<1>10. DetectorVerdicts(<<s>>, n) =
         [IdentityChurn        |-> If("IdentityChurn", IdentityChurn(window)),
          ErrorBurst           |-> If("ErrorBurst", ErrorBurst(window, n)),
          CacheDiscontinuity   |-> If("CacheDiscontinuity", CacheDiscontinuity(window)),
          CrossPaneEditCluster |-> If("CrossPaneEditCluster", CrossPaneEditCluster(window)),
          CostSlope            |-> If("CostSlope",
             RiseVerdict(window, "cost", n, CostPerPoll * Elapsed(window))),
          TokenSlope           |-> If("TokenSlope",
             RiseVerdict(window, "tokens", n, TokensPerPoll * Elapsed(window))),
          MemoryGrowth         |-> If("MemoryGrowth", RiseVerdict(window, "memory", n, MemoryRise))]
  BY DEF DetectorVerdicts, window
<1> QED
  BY <1>3, <1>4, <1>7, <1>8, <1>9, <1>10 DEF Detectors

\* Nothing is emitted then, the annotation of other anomalies included.
LEMMA NothingIsEmitted ==
    ASSUME NEW s \in Sample, s.edits = {}, gates \in Gates, gates.window > 1, NEW before
    PROVE  Emitted(Verdicts(<<s>>, before), Kinds, before) = {}
<1>1. gates.window \in Nat
  BY DedupAssumption DEF Gates
<1> DEFINE others == DetectorVerdicts(<<s>>, gates.window)
           out    == IF gates.enabled THEN Emitted(others, Detectors, before) ELSE {}
<1>2. \A kind \in Detectors : others[kind] = Silent
  BY <1>1, LoneSampleIsSilent
<1>3. out = {}
  BY <1>2 DEF Emitted
<1>4. SubagentSideEffect(<<s>>, gates.window, out) = Silent
  BY <1>3 DEF SubagentSideEffect
<1>5. Verdicts(<<s>>, before) = [kind \in Kinds |->
         IF kind \in Detectors THEN others[kind]
         ELSE SubagentSideEffect(<<s>>, gates.window, out)]
  BY DEF Verdicts
<1>6. \A kind \in Kinds : Verdicts(<<s>>, before)[kind] = Silent
  BY <1>2, <1>4, <1>5
<1> QED
  BY <1>6 DEF Emitted

-----------------------------------------------------------------------------
(* Types, and the first sight *)

SilentInv ==
    /\ TypeOK
    /\ history \in [Panes -> Seq(Sample)]
    /\ \A p \in Panes : seen[p] = "unseen" => history[p] = <<>>
    /\ FirstSightIsSilent

\* What trim leaves of a deque with a new sample in front.
LEMMA PushIsTrimmed ==
    ASSUME gates \in Gates, NEW deque \in Seq(Sample), NEW s \in Sample
    PROVE  /\ Push(deque, s) \in Seq(Sample)
           /\ Len(Push(deque, s)) \in 1..gates.window
           /\ deque = <<>> /\ gates.window > 1 => Push(deque, s) = <<s>>
<1> DEFINE w == gates.window
           all == <<s>> \o deque
           m == IF Len(all) < w THEN Len(all) ELSE w
<1>1. w \in Nat \ {0} /\ all \in Seq(Sample) /\ Len(all) = Len(deque) + 1
  <2>1. w \in Windows
    BY DEF Gates
  <2>2. <<s>> \in Seq(Sample) /\ Len(<<s>>) = 1
    OBVIOUS
  <2>3. all \in Seq(Sample) /\ Len(all) = Len(deque) + 1
    BY <2>2, ConcatProperties
  <2> QED
    BY <2>1, <2>3, DedupAssumption
<1>2. m \in Nat /\ m >= 1 /\ m <= w /\ m <= Len(all)
  BY <1>1
<1>3. Push(deque, s) = SubSeq(all, 1, m)
  BY DEF Push, Recent
<1> HIDE DEF all, m
<1>4. \A i \in 1..m : all[i] \in Sample
  BY <1>1, <1>2
<1>5. /\ SubSeq(all, 1, m) \in Seq(Sample) /\ Len(SubSeq(all, 1, m)) = m
      /\ \A i \in 1..m : SubSeq(all, 1, m)[i] = all[i]
  BY <1>2, <1>4, SubSeqProperties
<1>6. ASSUME deque = <<>>, w > 1 PROVE SubSeq(all, 1, m) = <<s>>
  <2>1. all = <<s>> /\ Len(all) = 1 /\ <<s>> \in Seq(Sample)
    <3>1. <<s>> \in Seq(Sample)
      OBVIOUS
    <3>2. <<s>> \o << >> = <<s>>
      BY <3>1, ConcatEmptySeq
    <3> QED
      BY <1>6, <3>1, <3>2 DEF all
  <2>2. m = 1
    BY <1>1, <1>6, <2>1 DEF m
  <2> DEFINE t == SubSeq(all, 1, m)
  <2>3. t \in Seq(Sample) /\ Len(t) = Len(all) /\ \A i \in 1..Len(t) : t[i] = all[i]
    BY <1>5, <2>1, <2>2
  <2> HIDE DEF t
  <2>4. t = all
    BY <1>1, <2>3, SeqEqual
  <2> QED
    BY <2>1, <2>4 DEF t
<1> QED
  BY <1>1, <1>2, <1>3, <1>5, <1>6

LEMMA InitSilent == Init => SilentInv
<1> SUFFICES ASSUME Init PROVE SilentInv
  OBVIOUS
<1>1. /\ Untold \in [Kinds -> Nat] /\ NothingDue \in Due /\ NothingDue.first = FALSE
      /\ NoReport \in Report
  BY DEF Untold, NothingDue, Due, NoReport, Report
<1>2. history \in [Panes -> Seq(Sample)] /\ \A p \in Panes : history[p] = <<>>
  BY DEF Init
<1>3. \A p \in Panes : \E n \in Windows : Len(history[p]) <= n
  <2>1. PICK n \in Windows : TRUE
    BY DedupAssumption
  <2>2. n \in Nat
    BY DedupAssumption
  <2> QED
    BY <1>2, <2>1, <2>2
<1>4. TypeOK
  <2>1. /\ gates \in Gates /\ seen \in [Panes -> {"unseen", "alive", "dead"}]
        /\ dedup \in [Panes -> SUBSET Kinds] /\ report \in [Panes -> Report]
        /\ told \in [Panes -> [Kinds -> Nat]] /\ raised \in [Panes -> SUBSET Kinds]
        /\ lapsed \in [Panes -> SUBSET Kinds] /\ due \in [Panes -> Due]
    BY <1>1 DEF Init
  <2>2. \A p \in Panes : history[p] \in Seq(Sample)
    BY <1>2
  <2> QED
    BY <1>3, <2>1, <2>2 DEF TypeOK
<1>5. FirstSightIsSilent
  BY <1>1 DEF Init, FirstSightIsSilent
<1> QED
  BY <1>2, <1>4, <1>5 DEF SilentInv

LEMMA ObserveAliveSilent ==
    ASSUME SilentInv, NEW p \in Panes, NEW reading \in Readings, ObserveAlive(p, reading)
    PROVE  SilentInv'
<1> DEFINE s        == [reading EXCEPT !.edits = {}]
           evicted  == Evicts(LifecycleEvent(seen[p], "alive"))
           deque    == IF evicted THEN <<>> ELSE history[p]
           samples  == Push(deque, s)
           before   == IF evicted THEN {} ELSE dedup[p]
           verdicts == Verdicts(samples, before)
           out      == IF gates.enabled THEN Emitted(verdicts, Kinds, before) ELSE {}
           shown    == ReportOf(verdicts, out)
           after    == [samples EXCEPT ![1].edits = reading.edits]
<1>1. /\ seen' = [seen EXCEPT ![p] = "alive"]
      /\ history' = [history EXCEPT ![p] = after]
      /\ dedup' = [dedup EXCEPT ![p] = DedupAfter(verdicts, before)]
      /\ report' = [report EXCEPT ![p] = shown]
      /\ Remember(p, verdicts, out, shown.promoted)
      /\ gates' = gates
  BY DEF ObserveAlive
<1>2. /\ gates \in Gates /\ seen \in [Panes -> {"unseen", "alive", "dead"}]
      /\ history \in [Panes -> Seq(Sample)] /\ dedup \in [Panes -> SUBSET Kinds]
      /\ report \in [Panes -> Report] /\ told \in [Panes -> [Kinds -> Nat]]
      /\ raised \in [Panes -> SUBSET Kinds] /\ lapsed \in [Panes -> SUBSET Kinds]
      /\ due \in [Panes -> Due]
      /\ \A q \in Panes : \E n \in Windows : Len(history[q]) <= n
      /\ gates.window \in Windows
  BY DEF SilentInv, TypeOK, Gates
<1>3. reading \in Sample /\ s \in Sample /\ s.edits = {} /\ reading.edits \in SUBSET Paths
  BY DedupAssumption DEF Sample
<1>4. deque \in Seq(Sample) /\ before \in SUBSET Kinds
  BY <1>2
<1>5. /\ samples \in Seq(Sample) /\ Len(samples) \in 1..gates.window
      /\ deque = <<>> /\ gates.window > 1 => samples = <<s>>
  BY <1>2, <1>3, <1>4, PushIsTrimmed
<1>6. seen[p] # "alive" => deque = <<>>
  <2>1. seen[p] \in {"unseen", "alive", "dead"}
    BY <1>2
  <2>2. seen[p] = "dead" => evicted
    BY DEF Evicts, LifecycleEvent
  <2>3. seen[p] = "unseen" => history[p] = <<>>
    BY DEF SilentInv
  <2> QED
    BY <2>1, <2>2, <2>3
<1>7. out \in SUBSET Kinds /\ DedupAfter(verdicts, before) \in SUBSET Kinds
  <2> HIDE DEF verdicts, before
  <2>1. Emitted(verdicts, Kinds, before) \in SUBSET Kinds
    BY DEF Emitted
  <2> QED
    BY <1>4, <2>1 DEF DedupAfter
<1> HIDE DEF s, evicted, deque, samples, before
<1>8. seen[p] # "alive" /\ gates.window > 1 => out = {}
  BY <1>2, <1>3, <1>5, <1>6, NothingIsEmitted
<1> HIDE DEF verdicts, out
<1>9. shown \in Report /\ shown.anomalies = out /\ shown.promoted \in SUBSET Kinds
  BY <1>7 DEF ReportOf, Report
<1>10. after \in Seq(Sample) /\ Len(after) = Len(samples)
  <2>1. samples[1] \in Sample /\ 1 \in DOMAIN samples
    BY <1>5
  <2>2. [samples[1] EXCEPT !.edits = reading.edits] \in Sample
    BY <1>3, <2>1 DEF Sample
  <2>3. after = [samples EXCEPT ![1] = [samples[1] EXCEPT !.edits = reading.edits]]
    OBVIOUS
  <2> HIDE DEF after
  <2> QED
    BY <1>5, <2>1, <2>2, <2>3
<1> HIDE DEF shown, after
<1> DEFINE speaking == {kind \in Kinds : verdicts[kind] # Silent}
           loud == {kind \in speaking : gates.enabled /\ verdicts[kind] >= gates.minimum}
           high == {kind \in speaking : gates.enabled /\ verdicts[kind] = High}
           count == [kind \in Kinds |->
                       IF kind \notin speaking THEN 0
                       ELSE IF kind \in out THEN told[p][kind] + 1 ELSE told[p][kind]]
           over == {kind \in Kinds : told[p][kind] > 0} \ speaking
<1>11. /\ told' = [told EXCEPT ![p] = count]
       /\ raised' = [raised EXCEPT ![p] = (raised[p] \intersect speaking) \union shown.promoted]
       /\ lapsed' = [lapsed EXCEPT ![p] =
            IF gates.enabled THEN lapsed[p] \intersect speaking ELSE lapsed[p] \union over]
       /\ due' = [due EXCEPT ![p] = [loud |-> loud, high |-> high, first |-> seen[p] # "alive"]]
  BY <1>1 DEF Remember
<1>12. /\ count \in [Kinds -> Nat] /\ loud \in SUBSET Kinds /\ high \in SUBSET Kinds
       /\ over \in SUBSET Kinds /\ (seen[p] # "alive") \in BOOLEAN
  BY <1>2
<1> HIDE DEF loud, high, count, over, speaking
<1>13. [loud |-> loud, high |-> high, first |-> seen[p] # "alive"] \in Due
  BY <1>12 DEF Due
<1>14. TypeOK'
  <2>1. history' \in [Panes -> Seq(Sample)]
    BY <1>1, <1>2, <1>10
  <2>2. \A q \in Panes : \E n \in Windows : Len(history'[q]) <= n
    <3> SUFFICES ASSUME NEW q \in Panes PROVE \E n \in Windows : Len(history'[q]) <= n
      OBVIOUS
    <3>1. CASE q = p
      <4>1. history'[q] = after
        BY <1>1, <1>2, <3>1
      <4>2. Len(after) <= gates.window
        BY <1>5, <1>10
      <4> QED
        BY <1>2, <4>1, <4>2
    <3>2. CASE q # p
      BY <1>1, <1>2, <3>2
    <3> QED
      BY <3>1, <3>2
  <2>3. /\ seen' \in [Panes -> {"unseen", "alive", "dead"}] /\ dedup' \in [Panes -> SUBSET Kinds]
        /\ report' \in [Panes -> Report] /\ gates' \in Gates
    BY <1>1, <1>2, <1>7, <1>9
  <2>4. told' \in [Panes -> [Kinds -> Nat]] /\ due' \in [Panes -> Due]
    BY <1>2, <1>11, <1>12, <1>13
  <2>5. raised' \in [Panes -> SUBSET Kinds] /\ lapsed' \in [Panes -> SUBSET Kinds]
    BY <1>2, <1>9, <1>11, <1>12
  <2> QED
    BY <2>1, <2>2, <2>3, <2>4, <2>5 DEF TypeOK
<1>15. history' \in [Panes -> Seq(Sample)]
  BY <1>1, <1>2, <1>10
<1>16. \A q \in Panes : seen'[q] = "unseen" => history'[q] = <<>>
  BY <1>1, <1>2 DEF SilentInv
<1>17. FirstSightIsSilent'
  <2> SUFFICES ASSUME gates'.window > 1, NEW q \in Panes, due'[q].first
               PROVE  report'[q].anomalies = {}
    BY DEF FirstSightIsSilent
  <2>1. CASE q = p
    <3>1. due'[p].first = (seen[p] # "alive") /\ report'[p] = shown
      BY <1>1, <1>2, <1>11
    <3> QED
      BY <1>1, <1>8, <1>9, <2>1, <3>1
  <2>2. CASE q # p
    <3>1. due'[q] = due[q] /\ report'[q] = report[q]
      BY <1>1, <1>2, <1>11, <2>2
    <3> QED
      BY <1>1, <3>1 DEF SilentInv, FirstSightIsSilent
  <2> QED
    BY <2>1, <2>2
<1> QED
  BY <1>14, <1>15, <1>16, <1>17 DEF SilentInv

\* A pane that is not alive any more; its deque is dropped or stays.
LEMMA EndOfLifeSilent ==
    ASSUME SilentInv, NEW p \in Panes, NEW deque \in {history[p], <<>>},
           NEW entries \in SUBSET Kinds,
           seen' = [seen EXCEPT ![p] = "dead"],
           history' = [history EXCEPT ![p] = deque],
           dedup' = [dedup EXCEPT ![p] = entries],
           report' = [report EXCEPT ![p] = NoReport],
           Forget(p), gates' = gates
    PROVE  SilentInv'
<1>1. /\ gates \in Gates /\ seen \in [Panes -> {"unseen", "alive", "dead"}]
      /\ history \in [Panes -> Seq(Sample)] /\ dedup \in [Panes -> SUBSET Kinds]
      /\ report \in [Panes -> Report] /\ told \in [Panes -> [Kinds -> Nat]]
      /\ raised \in [Panes -> SUBSET Kinds] /\ lapsed \in [Panes -> SUBSET Kinds]
      /\ due \in [Panes -> Due]
      /\ \A q \in Panes : \E n \in Windows : Len(history[q]) <= n
  BY DEF SilentInv, TypeOK
<1>2. /\ Untold \in [Kinds -> Nat] /\ NothingDue \in Due /\ NothingDue.first = FALSE
      /\ NoReport \in Report
  BY DEF Untold, NothingDue, Due, NoReport, Report
<1>3. deque \in Seq(Sample) /\ \E n \in Windows : Len(deque) <= n
  <2>1. PICK n \in Windows : Len(history[p]) <= n
    BY <1>1
  <2>2. n \in Nat
    BY DedupAssumption
  <2>3. <<>> \in Seq(Sample) /\ Len(<<>>) = 0
    OBVIOUS
  <2>4. CASE deque = history[p]
    BY <1>1, <2>1, <2>4
  <2>5. CASE deque = <<>>
    <3>1. Len(deque) = 0
      BY <2>3, <2>5
    <3> QED
      BY <2>1, <2>2, <2>3, <2>5, <3>1
  <2> QED
    BY <2>4, <2>5
<1>4. history' \in [Panes -> Seq(Sample)]
  BY <1>1, <1>3
<1>5. \A q \in Panes : \E n \in Windows : Len(history'[q]) <= n
  BY <1>1, <1>3
<1>6. TypeOK'
  <2>1. /\ seen' \in [Panes -> {"unseen", "alive", "dead"}] /\ dedup' \in [Panes -> SUBSET Kinds]
        /\ report' \in [Panes -> Report] /\ gates' \in Gates
    BY <1>1, <1>2
  <2>2. /\ told' \in [Panes -> [Kinds -> Nat]] /\ due' \in [Panes -> Due]
        /\ raised' \in [Panes -> SUBSET Kinds] /\ lapsed' \in [Panes -> SUBSET Kinds]
    BY <1>1, <1>2 DEF Forget
  <2> QED
    BY <1>4, <1>5, <2>1, <2>2 DEF TypeOK
<1>7. \A q \in Panes : seen'[q] = "unseen" => history'[q] = <<>>
  BY <1>1 DEF SilentInv
<1>8. FirstSightIsSilent'
  <2> SUFFICES ASSUME gates'.window > 1, NEW q \in Panes, due'[q].first
               PROVE  report'[q].anomalies = {}
    BY DEF FirstSightIsSilent
  <2>1. q # p
    BY <1>1, <1>2 DEF Forget
  <2>2. due'[q] = due[q] /\ report'[q] = report[q]
    BY <1>1, <2>1 DEF Forget
  <2> QED
    BY <2>2 DEF SilentInv, FirstSightIsSilent
<1> QED
  BY <1>4, <1>6, <1>7, <1>8 DEF SilentInv

LEMMA NextSilent == SilentInv /\ [Next]_vars => SilentInv'
<1> SUFFICES ASSUME SilentInv, [Next]_vars PROVE SilentInv'
  OBVIOUS
<1>1. CASE \E p \in Panes, reading \in Readings : ObserveAlive(p, reading)
  BY <1>1, ObserveAliveSilent
<1>2. CASE \E p \in Panes : ObserveDead(p)
  <2>1. PICK p \in Panes : ObserveDead(p)
    BY <1>2
  <2> DEFINE evicted == Evicts(LifecycleEvent(seen[p], "dead"))
             deque   == IF evicted THEN <<>> ELSE history[p]
             entries == IF evicted THEN {} ELSE dedup[p]
  <2>2. /\ seen' = [seen EXCEPT ![p] = "dead"] /\ history' = [history EXCEPT ![p] = deque]
        /\ dedup' = [dedup EXCEPT ![p] = entries] /\ report' = [report EXCEPT ![p] = NoReport]
        /\ Forget(p) /\ gates' = gates
    BY <2>1 DEF ObserveDead
  <2>3. deque \in {history[p], <<>>} /\ entries \in SUBSET Kinds
    BY DEF SilentInv, TypeOK
  <2> QED
    BY <2>2, <2>3, EndOfLifeSilent
<1>3. CASE \E p \in Panes : Vanish(p)
  <2>1. PICK p \in Panes : Vanish(p)
    BY <1>3
  <2>2. /\ seen' = [seen EXCEPT ![p] = "dead"] /\ history' = [history EXCEPT ![p] = history[p]]
        /\ dedup' = [dedup EXCEPT ![p] = dedup[p]] /\ report' = [report EXCEPT ![p] = NoReport]
        /\ Forget(p) /\ gates' = gates /\ dedup[p] \in SUBSET Kinds
    BY <2>1 DEF Vanish, Forgotten, SilentInv, TypeOK
  <2> QED
    BY <2>2, EndOfLifeSilent
<1>4. CASE ChangeSettings
  <2>1. NothingDue \in Due /\ NothingDue.first = FALSE
    BY DEF NothingDue, Due
  <2>2. /\ UNCHANGED <<seen, history, dedup, report, told, raised, lapsed>>
        /\ due' = [p \in Panes |-> NothingDue] /\ gates' \in Gates
    BY <1>4 DEF ChangeSettings
  <2>3. due' \in [Panes -> Due] /\ \A p \in Panes : due'[p].first = FALSE
    BY <2>1, <2>2
  <2>4. TypeOK'
    BY <2>2, <2>3 DEF SilentInv, TypeOK
  <2>5. FirstSightIsSilent'
    BY <2>3 DEF FirstSightIsSilent
  <2> QED
    BY <2>2, <2>4, <2>5 DEF SilentInv
<1>5. CASE UNCHANGED vars
  BY <1>5 DEF vars, SilentInv, TypeOK, FirstSightIsSilent
<1> QED
  BY <1>1, <1>2, <1>3, <1>4, <1>5 DEF Next

\* For any readings, panes and settings the deques are sequences of samples no
\* longer than the longest window, and the map has entries of known kinds.
THEOREM DedupTypes == Spec => []TypeOK
<1>1. SilentInv => TypeOK
  BY DEF SilentInv
<1> QED
  BY <1>1, InitSilent, NextSilent, PTL DEF Spec

\* For any readings, thresholds and settings: a lifetime begins with an empty
\* deque, also on a pane id that was used before, and on a window of one sample
\* every one of the eight detectors is silent.
THEOREM FirstSightSilent == Spec => []FirstSightIsSilent
<1>1. SilentInv => FirstSightIsSilent
  BY DEF SilentInv
<1> QED
  BY <1>1, InitSilent, NextSilent, PTL DEF Spec
=============================================================================
