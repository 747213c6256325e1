-------------------------- MODULE ObserveLoopProofs --------------------------
(***************************************************************************)
(* Proofs about ObserveLoop, for any sets of panes and observations, any   *)
(* history capacity and any number of polls: its invariants, and that it   *)
(* implements PaneReports.                                                 *)
(***************************************************************************)
EXTENDS ObserveLoopHistory, SequenceTheorems, TLAPS

\* A pane never seen has nothing cached, so its first lifetime starts clean.
UnseenHasNoCache ==
    \A p \in Panes : seen[p] = "unseen" =>
        /\ tail_history[p] = <<>>
        /\ idle_entered_at[p] = None
        /\ pressure_metric_cache[p].pressure = None
        /\ identity_history[p] = None
        /\ reported_drifts[p] = {}
        /\ identity_conflicts_logged[p] = None

\* Where the loop is: inside a poll the clock has started, and what is left to
\* observe was listed; between polls nothing is left.
PollProgress ==
    /\ phase = "observing" => tick >= 1
    /\ \A p \in Panes : pending[p] # "none" => phase = "observing" /\ p \in known
    /\ \A p \in Panes : born[p] <= tick

\* The inductive invariant.
IInv ==
    /\ TypeOK
    /\ PollProgress
    /\ LifecycleTracksListings
    /\ UnseenHasNoCache
    /\ NothingOutlivesItsPane

-----------------------------------------------------------------------------
(* Types of the helpers *)

\* Pushing a tail keeps a history within its capacity.
LEMMA PushType ==
    ASSUME NEW S, NEW h \in Seq(S), Len(h) <= TailCap, NEW e \in S
    PROVE  Push(h, e) \in Seq(S) /\ Len(Push(h, e)) <= TailCap
<1>1. TailCap \in Nat /\ TailCap >= 2
  BY BoundsAssumption
<1>2. CASE Len(h) = TailCap
  <2>1. h # <<>>
    BY <1>1, <1>2
  <2>2. Tail(h) \in Seq(S) /\ Len(Tail(h)) = Len(h) - 1
    BY <2>1
  <2> QED
    BY <1>1, <1>2, <2>2 DEF Push
<1>3. CASE Len(h) # TailCap
  BY <1>1, <1>3 DEF Push
<1> QED
  BY <1>2, <1>3

\* Every stamp in a pushed history is a stamp of the old one or the new one.
LEMMA PushStamps ==
    ASSUME NEW S, NEW h \in Seq(S), NEW e \in S, Len(h) <= TailCap,
           NEW i \in DOMAIN Push(h, e)
    PROVE  Push(h, e)[i] = e \/ \E j \in DOMAIN h : Push(h, e)[i] = h[j]
<1>1. TailCap \in Nat /\ TailCap >= 2
  BY BoundsAssumption
<1>2. CASE Len(h) = TailCap
  <2>1. h # <<>>
    BY <1>1, <1>2
  <2>2. /\ Tail(h) \in Seq(S) /\ Len(Tail(h)) = Len(h) - 1
        /\ \A k \in 1..(Len(h) - 1) : Tail(h)[k] = h[k + 1]
    BY <2>1
  <2>3. Push(h, e) = Append(Tail(h), e)
    BY <1>2 DEF Push
  <2> QED
    BY <1>1, <1>2, <2>2, <2>3
<1>3. CASE Len(h) # TailCap
  <2>1. Push(h, e) = Append(h, e)
    BY <1>3 DEF Push
  <2> QED
    BY <2>1
<1> QED
  BY <1>2, <1>3
-----------------------------------------------------------------------------
(* Type correctness *)

LEMMA ObservationFields ==
    ASSUME NEW o \in Observations
    PROVE  /\ o \in ObservationType
           /\ o.provider \in Providers /\ o.conflict \in BOOLEAN /\ o.path \in Paths
           /\ o.tail \in Tails /\ o.marker \in Causes \union {None}
           /\ o.pressure \in Readings \union {None}
BY ObservationsAssumption DEF ObservationType

\* The state a reset leaves is the old one or the empty one.
LEMMA ResetCases ==
    ASSUME NEW cache, NEW p \in Panes, NEW event, NEW empty
    PROVE  AfterReset(cache, p, event, empty) \in {cache[p], empty}
BY DEF AfterReset

LEMMA EventType ==
    ASSUME NEW prev, NEW cur
    PROVE  LifecycleEvent(prev, cur) \in Events
BY DEF LifecycleEvent, Events

LEMMA ConflictLoggedType ==
    ASSUME TypeOK, NEW p \in Panes, NEW event, NEW conflict \in BOOLEAN, tick >= 1
    PROVE  /\ ConflictLogged(p, event, conflict) \in 1..MaxTicks \union {None}
           /\ NewConflict(p, event, conflict) \in BOOLEAN
<1>1. AfterReset(identity_conflicts_logged, p, event, None) \in 1..MaxTicks \union {None}
  BY ResetCases DEF TypeOK
<1>2. tick \in 1..MaxTicks
  BY BoundsAssumption DEF TypeOK
<1> QED
  BY <1>1, <1>2 DEF ConflictLogged, NewConflict

LEMMA CacheTypes ==
    ASSUME NEW cache \in CacheType, NEW o \in Observations, tick \in 1..MaxTicks
    PROVE  /\ UpdatedCache(cache, o) \in CacheType
           /\ ShownPressure(cache, o) \in Readings \union {None}
<1>1. o.pressure \in Readings \union {None}
  BY ObservationFields
<1>2. UpdatedCache(cache, o) \in CacheType
  <2>1. EmptyCache \in CacheType
    BY DEF EmptyCache, CacheType
  <2>2. ASSUME o.pressure # None
        PROVE  [value |-> o.pressure, at |-> tick] \in Stamped(Readings)
    BY <1>1, <2>2 DEF Stamped
  <2>3. Claude \in Providers
    BY ProvidersAssumption
  <2> QED
    BY <2>1, <2>2, <2>3 DEF UpdatedCache, CacheType
<1>3. UpdatedCache(cache, o).pressure # None =>
         UpdatedCache(cache, o).pressure.value \in Readings
  BY <1>2 DEF CacheType, Stamped
<1> QED
  BY <1>1, <1>2, <1>3 DEF ShownPressure

LEMMA TypeInit == Init => TypeOK
<1> SUFFICES ASSUME Init PROVE TypeOK
  OBVIOUS
<1>1. EmptyCache \in CacheType
  BY DEF EmptyCache, CacheType
<1>2. \A p \in Panes : tail_history[p] \in Seq(Stamped(Tails)) /\ Len(tail_history[p]) <= TailCap
  BY BoundsAssumption DEF Init
<1> QED
  BY <1>1, <1>2, BoundsAssumption DEF Init, TypeOK

LEMMA TypeObserveDead ==
    ASSUME TypeOK, PollProgress, NEW p \in Panes, NEW conflict \in BOOLEAN,
           ObserveDead(p, conflict)
    PROVE  TypeOK'
<1> DEFINE event == LifecycleEvent(seen[p], "dead")
<1>1. phase = "observing" /\ tick >= 1
  BY DEF ObserveDead, PollProgress
<1>2. event \in Events
  BY EventType
<1>3. /\ ConflictLogged(p, event, conflict) \in 1..MaxTicks \union {None}
      /\ NewConflict(p, event, conflict) \in BOOLEAN
  BY <1>1, ConflictLoggedType
<1>4. EmptyCache \in CacheType
  BY DEF EmptyCache, CacheType
<1>5. /\ tail_history' \in [Panes -> Seq(Stamped(Tails))]
      /\ \A q \in Panes : Len(tail_history'[q]) <= TailCap
  <2>1. /\ AfterReset(tail_history, p, event, <<>>) \in Seq(Stamped(Tails))
        /\ Len(AfterReset(tail_history, p, event, <<>>)) <= TailCap
    BY BoundsAssumption DEF TypeOK, AfterReset
  <2> QED
    BY <2>1 DEF ObserveDead, TypeOK
<1>6. /\ idle_transition' \in [Panes -> Causes \union {None}]
      /\ idle_entered_at' \in [Panes -> 1..MaxTicks \union {None}]
      /\ pressure_metric_cache' \in [Panes -> CacheType]
  BY <1>4 DEF ObserveDead, TypeOK, AfterReset
<1>7. /\ identity_history' \in [Panes -> Stamped(Identity) \union {None}]
      /\ reported_drifts' \in [Panes -> SUBSET Stamped(DriftKey)]
  BY DEF ObserveDead, TypeOK, AfterReset
<1>8. /\ identity_conflicts_logged' \in [Panes -> 1..MaxTicks \union {None}]
      /\ reports' \in [Panes -> LiveReport \union DeadReport \union {None}]
  BY <1>2, <1>3 DEF ObserveDead, TypeOK, DeadReport
<1>9. /\ pending' \in [Panes -> {"none", "alive", "dead"}]
      /\ seen' \in [Panes -> {"unseen", "alive", "dead"}]
      /\ born' \in [Panes -> 0..MaxTicks]
  BY BoundsAssumption DEF ObserveDead, TypeOK
<1>10. UNCHANGED <<tick, phase, last_source_error, known>>
  BY DEF ObserveDead
<1> HIDE DEF event
<1> QED
  BY <1>5, <1>6, <1>7, <1>8, <1>9, <1>10 DEF TypeOK

LEMMA TypeObserveAlive ==
    ASSUME TypeOK, PollProgress, NEW p \in Panes, NEW obs \in Observations,
           ObserveAlive(p, obs)
    PROVE  TypeOK'
<1> DEFINE event   == LifecycleEvent(seen[p], "alive")
           old     == AfterReset(tail_history, p, event, <<>>)
           history == Push(old, [value |-> obs.tail, at |-> tick])
           last    == AfterReset(idle_transition, p, event, None)
           idle    == IdleState(obs, history)
           before  == AfterReset(idle_entered_at, p, event, None)
           entered == EnteredAt(last, idle, before)
           cache   == AfterReset(pressure_metric_cache, p, event, EmptyCache)
           prev    == AfterReset(identity_history, p, event, None)
           drifted == AfterReset(reported_drifts, p, event, {})
           new     == IF prev = None \/ ObserveOnly(obs.provider) THEN {}
                      ELSE Drifts(prev.value, obs) \ {d.value : d \in drifted}
<1>1. tick \in 1..MaxTicks /\ tick >= 1
  BY BoundsAssumption DEF ObserveAlive, PollProgress, TypeOK
<1>2. event \in Events
  BY EventType
<1>3. /\ history \in Seq(Stamped(Tails))
      /\ Len(history) <= TailCap
  <2>1. old \in Seq(Stamped(Tails)) /\ Len(old) <= TailCap
    BY BoundsAssumption DEF TypeOK, AfterReset
  <2>2. [value |-> obs.tail, at |-> tick] \in Stamped(Tails)
    BY <1>1, ObservationFields DEF Stamped
  <2> QED
    BY <2>1, <2>2, PushType
<1>4. idle \in Causes \union {None}
  BY ObservationFields, CausesAssumption DEF IdleState
<1>5. entered \in 1..MaxTicks \union {None}
  <2>1. before \in 1..MaxTicks \union {None}
    BY ResetCases DEF TypeOK
  <2> QED
    BY <1>1, <2>1 DEF EnteredAt
<1>6. /\ UpdatedCache(cache, obs) \in CacheType
      /\ ShownPressure(cache, obs) \in Readings \union {None}
  <2>1. EmptyCache \in CacheType
    BY DEF EmptyCache, CacheType
  <2>2. cache \in CacheType
    BY <2>1 DEF TypeOK, AfterReset
  <2> QED
    BY <1>1, <2>2, CacheTypes
<1>7. [value |-> [provider |-> obs.provider, path |-> obs.path], at |-> tick]
         \in Stamped(Identity)
  BY <1>1, ObservationFields DEF Stamped, Identity
<1>8. new \in SUBSET DriftKey
  BY DEF Drifts
<1>9. drifted \union {[value |-> k, at |-> tick] : k \in new} \in SUBSET Stamped(DriftKey)
  <2>1. drifted \in SUBSET Stamped(DriftKey)
    BY DEF TypeOK, AfterReset
  <2> QED
    BY <1>1, <1>8, <2>1 DEF Stamped
<1>10. /\ ConflictLogged(p, event, obs.conflict) \in 1..MaxTicks \union {None}
       /\ NewConflict(p, event, obs.conflict) \in BOOLEAN
  BY <1>1, ObservationFields, ConflictLoggedType
<1>11. [dead |-> FALSE, event |-> event, obs |-> obs, idle |-> idle,
        suppressed |-> NewConflict(p, event, obs.conflict), entered_at |-> entered,
        pressure |-> ShownPressure(cache, obs), drifts |-> new,
        alerted |-> idle # None /\ idle # last /\ ~ObserveOnly(obs.provider)] \in LiveReport
  BY <1>2, <1>4, <1>5, <1>6, <1>8, <1>10 DEF LiveReport
<1>12. /\ tail_history' = [tail_history EXCEPT ![p] = history]
       /\ idle_transition' = [idle_transition EXCEPT ![p] = idle]
       /\ idle_entered_at' = [idle_entered_at EXCEPT ![p] = entered]
       /\ pressure_metric_cache' = [pressure_metric_cache EXCEPT ![p] = UpdatedCache(cache, obs)]
       /\ identity_history' = [identity_history EXCEPT ![p] =
             [value |-> [provider |-> obs.provider, path |-> obs.path], at |-> tick]]
       /\ reported_drifts' = [reported_drifts EXCEPT ![p] =
             drifted \union {[value |-> k, at |-> tick] : k \in new}]
       /\ identity_conflicts_logged' =
             [identity_conflicts_logged EXCEPT ![p] = ConflictLogged(p, event, obs.conflict)]
       /\ reports' = [reports EXCEPT ![p] =
             [dead |-> FALSE, event |-> event, obs |-> obs, idle |-> idle,
              suppressed |-> NewConflict(p, event, obs.conflict), entered_at |-> entered,
              pressure |-> ShownPressure(cache, obs), drifts |-> new,
              alerted |-> idle # None /\ idle # last /\ ~ObserveOnly(obs.provider)]]
  BY Zenon DEF ObserveAlive
<1> HIDE DEF event, old, history, last, idle, before, entered, cache, prev, drifted, new
<1>13. /\ tail_history' \in [Panes -> Seq(Stamped(Tails))]
       /\ \A q \in Panes : Len(tail_history'[q]) <= TailCap
  BY <1>3, <1>12 DEF TypeOK
<1>14. /\ idle_transition' \in [Panes -> Causes \union {None}]
       /\ idle_entered_at' \in [Panes -> 1..MaxTicks \union {None}]
       /\ pressure_metric_cache' \in [Panes -> CacheType]
       /\ identity_conflicts_logged' \in [Panes -> 1..MaxTicks \union {None}]
  BY <1>4, <1>5, <1>6, <1>10, <1>12 DEF TypeOK
<1>15. /\ identity_history' \in [Panes -> Stamped(Identity) \union {None}]
       /\ reported_drifts' \in [Panes -> SUBSET Stamped(DriftKey)]
  BY <1>7, <1>9, <1>12 DEF TypeOK
<1>16. reports' \in [Panes -> LiveReport \union DeadReport \union {None}]
  BY <1>11, <1>12 DEF TypeOK
<1>17. born' \in [Panes -> 0..MaxTicks]
  BY <1>1 DEF ObserveAlive, TypeOK
<1> QED
  BY <1>13, <1>14, <1>15, <1>16, <1>17 DEF ObserveAlive, TypeOK

LEMMA TypeNext == TypeOK /\ PollProgress /\ [Next]_vars => TypeOK'
<1> SUFFICES ASSUME TypeOK, PollProgress, [Next]_vars PROVE TypeOK'
  OBVIOUS
<1> USE BoundsAssumption
<1>1. ASSUME NEW error \in Errors, ListFails(error) PROVE TypeOK'
  BY <1>1 DEF TypeOK, ListFails, cacheVars
<1>2. ASSUME NEW listed \in [Panes -> {"none", "alive", "dead"}], ListPanes(listed)
      PROVE  TypeOK'
  BY <1>2 DEF TypeOK, ListPanes, Forget, Forgotten, cacheVars
<1>3. ASSUME NEW p \in Panes, NEW conflict \in BOOLEAN, ObserveDead(p, conflict)
      PROVE  TypeOK'
  BY <1>3, TypeObserveDead
<1>4. ASSUME NEW p \in Panes, NEW obs \in Observations, ObserveAlive(p, obs)
      PROVE  TypeOK'
  BY <1>4, TypeObserveAlive
<1>5. CASE EndPoll
  BY <1>5 DEF TypeOK, EndPoll, cacheVars
<1>6. CASE UNCHANGED vars
  BY <1>6 DEF TypeOK, vars, loopVars, cacheVars
<1> QED
  BY <1>1, <1>2, <1>3, <1>4, <1>5, <1>6 DEF Next

-----------------------------------------------------------------------------
(* Lifecycle tracking *)

LEMMA TrackingInit == Init => PollProgress /\ LifecycleTracksListings /\ UnseenHasNoCache
BY DEF Init, PollProgress, LifecycleTracksListings, UnseenHasNoCache, EmptyCache

\* The bookkeeping of a listing forgets exactly the panes whose lifetime ended.
LEMMA TrackingNext ==
    ASSUME TypeOK, PollProgress, LifecycleTracksListings, [Next]_vars
    PROVE  PollProgress' /\ LifecycleTracksListings'
<1> USE BoundsAssumption DEF TypeOK, PollProgress, LifecycleTracksListings
<1>1. ASSUME NEW error \in Errors, ListFails(error)
      PROVE  PollProgress' /\ LifecycleTracksListings'
  BY <1>1 DEF ListFails
<1>2. ASSUME NEW listed \in [Panes -> {"none", "alive", "dead"}], ListPanes(listed)
      PROVE  PollProgress' /\ LifecycleTracksListings'
  <2>1. PollProgress'
    BY <1>2 DEF ListPanes
  <2>2. ASSUME NEW p \in Panes
        PROVE  /\ seen'[p] = "alive" => p \in known'
               /\ seen'[p] = "alive" <=> born'[p] # 0
    <3>1. CASE listed[p] = "none"
      BY <1>2, <3>1 DEF ListPanes, Forget, Forgotten
    <3>2. CASE listed[p] # "none"
      BY <1>2, <3>2 DEF ListPanes, Forget, Forgotten
    <3> QED
      BY <3>1, <3>2
  <2> QED
    BY <2>1, <2>2
<1>3. ASSUME NEW p \in Panes, NEW conflict \in BOOLEAN, ObserveDead(p, conflict)
      PROVE  PollProgress' /\ LifecycleTracksListings'
  BY <1>3 DEF ObserveDead
<1>4. ASSUME NEW p \in Panes, NEW obs \in Observations, ObserveAlive(p, obs)
      PROVE  PollProgress' /\ LifecycleTracksListings'
  BY <1>4 DEF ObserveAlive
<1>5. CASE EndPoll
  BY <1>5 DEF EndPoll
<1>6. CASE UNCHANGED vars
  BY <1>6 DEF vars, loopVars
<1> QED
  BY <1>1, <1>2, <1>3, <1>4, <1>5, <1>6 DEF Next

LEMMA UnseenNext ==
    ASSUME TypeOK, UnseenHasNoCache, [Next]_vars
    PROVE  UnseenHasNoCache'
<1> USE DEF TypeOK, UnseenHasNoCache
<1>1. ASSUME NEW error \in Errors, ListFails(error) PROVE UnseenHasNoCache'
  BY <1>1 DEF ListFails, cacheVars
<1>2. ASSUME NEW listed \in [Panes -> {"none", "alive", "dead"}], ListPanes(listed)
      PROVE  UnseenHasNoCache'
  BY <1>2 DEF ListPanes, Forget, Forgotten, cacheVars
<1>3. ASSUME NEW p \in Panes, NEW conflict \in BOOLEAN, ObserveDead(p, conflict)
      PROVE  UnseenHasNoCache'
  BY <1>3 DEF ObserveDead
<1>4. ASSUME NEW p \in Panes, NEW obs \in Observations, ObserveAlive(p, obs)
      PROVE  UnseenHasNoCache'
  BY <1>4 DEF ObserveAlive
<1>5. CASE EndPoll
  BY <1>5 DEF EndPoll, cacheVars
<1>6. CASE UNCHANGED vars
  BY <1>6 DEF vars, cacheVars
<1> QED
  BY <1>1, <1>2, <1>3, <1>4, <1>5, <1>6 DEF Next

-----------------------------------------------------------------------------
(* No fact outlives its pane *)

\* What NothingOutlivesItsPane says of one pane whose lifetime began at poll b.
CachedSince(p, b) ==
    /\ \A i \in DOMAIN tail_history[p] : tail_history[p][i].at >= b
    /\ idle_entered_at[p] # None => idle_entered_at[p] >= b
    /\ pressure_metric_cache[p].pressure # None => pressure_metric_cache[p].pressure.at >= b
    /\ identity_history[p] # None => identity_history[p].at >= b
    /\ \A d \in reported_drifts[p] : d.at >= b
    /\ identity_conflicts_logged[p] # None => identity_conflicts_logged[p] >= b

LEMMA CachedSinceIsTheProperty ==
    NothingOutlivesItsPane <=> \A p \in Panes : born[p] # 0 => CachedSince(p, born[p])
BY DEF NothingOutlivesItsPane, CachedSince

\* Observing a live pane writes only facts of this poll, and keeps only facts
\* of the present lifetime: a new lifetime finds the caches reset or unused.
LEMMA ObserveAliveSince ==
    ASSUME TypeOK, PollProgress, LifecycleTracksListings, UnseenHasNoCache,
           NothingOutlivesItsPane,
           NEW p \in Panes, NEW obs \in Observations, ObserveAlive(p, obs)
    PROVE  CachedSince(p, born[p])'
<1> DEFINE event   == LifecycleEvent(seen[p], "alive")
           old     == AfterReset(tail_history, p, event, <<>>)
           history == Push(old, [value |-> obs.tail, at |-> tick])
           last    == AfterReset(idle_transition, p, event, None)
           idle    == IdleState(obs, history)
           before  == AfterReset(idle_entered_at, p, event, None)
           cache   == AfterReset(pressure_metric_cache, p, event, EmptyCache)
           prev    == AfterReset(identity_history, p, event, None)
           drifted == AfterReset(reported_drifts, p, event, {})
           logged  == AfterReset(identity_conflicts_logged, p, event, None)
           new     == IF prev = None \/ ObserveOnly(obs.provider) THEN {}
                      ELSE Drifts(prev.value, obs) \ {d.value : d \in drifted}
           b       == born'[p]
<1>1. /\ tick \in Nat /\ tick >= 1
      /\ b = IF born[p] = 0 THEN tick ELSE born[p]
      /\ b \in Nat /\ b <= tick
  BY BoundsAssumption DEF ObserveAlive, PollProgress, TypeOK
\* The caches as the iteration finds them hold facts of this lifetime only.
<1>2. /\ old \in Seq(Stamped(Tails)) /\ Len(old) <= TailCap
      /\ \A i \in DOMAIN old : old[i].at >= b
      /\ before # None => before >= b
      /\ cache.pressure # None => cache.pressure.at >= b
      /\ \A d \in drifted : d.at >= b
      /\ logged # None => logged >= b
  <2>1. CASE Evicts(event)
    BY <2>1, BoundsAssumption DEF AfterReset, EmptyCache
  <2>2. CASE ~Evicts(event) /\ seen[p] = "unseen"
    <3>1. old = <<>> /\ before = None /\ cache.pressure = None /\ drifted = {} /\ logged = None
      BY <2>2 DEF AfterReset, UnseenHasNoCache
    <3> HIDE DEF old, before, cache, drifted, logged
    <3> QED
      BY <3>1, BoundsAssumption
  <2>3. CASE ~Evicts(event) /\ seen[p] # "unseen"
    <3>1. seen[p] = "alive"
      BY <2>3 DEF LifecycleEvent, Evicts, TypeOK
    <3>2. born[p] # 0 /\ b = born[p]
      BY <1>1, <3>1 DEF LifecycleTracksListings
    <3>3. CachedSince(p, b)
      BY <3>2, CachedSinceIsTheProperty
    <3>4. /\ old = tail_history[p] /\ before = idle_entered_at[p]
          /\ cache = pressure_metric_cache[p] /\ drifted = reported_drifts[p]
          /\ logged = identity_conflicts_logged[p]
      BY <2>3 DEF AfterReset
    <3> HIDE DEF old, before, cache, drifted, logged
    <3> QED
      BY <3>3, <3>4 DEF CachedSince, TypeOK
  <2> QED
    BY <2>1, <2>2, <2>3
<1>3. \A i \in DOMAIN history : history[i].at >= b
  <2>1. [value |-> obs.tail, at |-> tick] \in Stamped(Tails)
    BY <1>1, ObservationFields, BoundsAssumption DEF Stamped, ObserveAlive, TypeOK
  <2>2. ASSUME NEW i \in DOMAIN history
        PROVE  \/ history[i] = [value |-> obs.tail, at |-> tick]
               \/ \E j \in DOMAIN old : history[i] = old[j]
    BY <1>2, <2>1, <2>2, PushStamps
  <2> HIDE DEF old, history
  <2> QED
    BY <1>1, <1>2, <2>2
<1>4. EnteredAt(last, idle, before) # None => EnteredAt(last, idle, before) >= b
  BY <1>1, <1>2 DEF EnteredAt
<1>5. UpdatedCache(cache, obs).pressure # None => UpdatedCache(cache, obs).pressure.at >= b
  BY <1>1, <1>2 DEF UpdatedCache, EmptyCache
<1>6. \A d \in drifted \union {[value |-> k, at |-> tick] : k \in new} : d.at >= b
  BY <1>1, <1>2
<1>7. ConflictLogged(p, event, obs.conflict) # None =>
         ConflictLogged(p, event, obs.conflict) >= b
  BY <1>1, <1>2 DEF ConflictLogged
<1>8. /\ tail_history'[p] = history
      /\ idle_entered_at'[p] = EnteredAt(last, idle, before)
      /\ pressure_metric_cache'[p] = UpdatedCache(cache, obs)
      /\ identity_history'[p] =
            [value |-> [provider |-> obs.provider, path |-> obs.path], at |-> tick]
      /\ reported_drifts'[p] = drifted \union {[value |-> k, at |-> tick] : k \in new}
      /\ identity_conflicts_logged'[p] = ConflictLogged(p, event, obs.conflict)
  BY DEF ObserveAlive, TypeOK
<1> HIDE DEF event, old, history, last, idle, before, cache, prev, drifted, logged, new
<1> QED
  BY <1>1, <1>3, <1>4, <1>5, <1>6, <1>7, <1>8 DEF CachedSince

\* A step about pane p leaves the facts of every other pane alone.
LEMMA OthersKeepTheirFacts ==
    ASSUME TypeOK, NothingOutlivesItsPane, NEW p \in Panes, NEW q \in Panes, q # p,
           \/ \E conflict \in BOOLEAN : ObserveDead(p, conflict)
           \/ \E obs \in Observations : ObserveAlive(p, obs),
           born'[q] # 0
    PROVE  CachedSince(q, born[q])'
<1>1. /\ tail_history'[q] = tail_history[q]
      /\ idle_entered_at'[q] = idle_entered_at[q]
      /\ pressure_metric_cache'[q] = pressure_metric_cache[q]
      /\ identity_history'[q] = identity_history[q]
      /\ reported_drifts'[q] = reported_drifts[q]
      /\ identity_conflicts_logged'[q] = identity_conflicts_logged[q]
      /\ born'[q] = born[q]
  <2>1. CASE \E conflict \in BOOLEAN : ObserveDead(p, conflict)
    BY <2>1 DEF ObserveDead, TypeOK
  <2>2. CASE \E obs \in Observations : ObserveAlive(p, obs)
    BY <2>2, SMTT(30) DEF ObserveAlive, TypeOK
  <2> QED
    BY <2>1, <2>2
<1>2. CachedSince(q, born[q])
  BY <1>1, CachedSinceIsTheProperty
<1> QED
  BY <1>1, <1>2 DEF CachedSince

LEMMA OutlivesNext ==
    ASSUME IInv, [Next]_vars
    PROVE  NothingOutlivesItsPane'
<1> USE DEF IInv
<1>1. ASSUME NEW error \in Errors, ListFails(error) PROVE NothingOutlivesItsPane'
  BY <1>1 DEF ListFails, cacheVars, NothingOutlivesItsPane
<1>2. ASSUME NEW listed \in [Panes -> {"none", "alive", "dead"}], ListPanes(listed)
      PROVE  NothingOutlivesItsPane'
  BY <1>2 DEF ListPanes, cacheVars, NothingOutlivesItsPane, TypeOK
<1>3. ASSUME NEW p \in Panes, NEW conflict \in BOOLEAN, ObserveDead(p, conflict)
      PROVE  NothingOutlivesItsPane'
  <2>1. born'[p] = 0
    BY <1>3 DEF ObserveDead, TypeOK
  <2>2. \A q \in Panes : q # p /\ born'[q] # 0 => CachedSince(q, born[q])'
    BY <1>3, OthersKeepTheirFacts
  <2> QED
    BY <2>1, <2>2 DEF CachedSince, NothingOutlivesItsPane
<1>4. ASSUME NEW p \in Panes, NEW obs \in Observations, ObserveAlive(p, obs)
      PROVE  NothingOutlivesItsPane'
  <2>1. CachedSince(p, born[p])'
    BY <1>4, ObserveAliveSince
  <2>2. \A q \in Panes : q # p /\ born'[q] # 0 => CachedSince(q, born[q])'
    BY <1>4, OthersKeepTheirFacts
  <2> QED
    BY <2>1, <2>2 DEF CachedSince, NothingOutlivesItsPane
<1>5. CASE EndPoll
  BY <1>5 DEF EndPoll, cacheVars, NothingOutlivesItsPane
<1>6. CASE UNCHANGED vars
  BY <1>6 DEF vars, cacheVars, NothingOutlivesItsPane
<1> QED
  BY <1>1, <1>2, <1>3, <1>4, <1>5, <1>6 DEF Next

-----------------------------------------------------------------------------
(* Theorems *)

LEMMA InvInit == Init => IInv
BY TypeInit, TrackingInit DEF IInv, Init, NothingOutlivesItsPane

LEMMA InvNext == IInv /\ [Next]_vars => IInv'
BY TypeNext, TrackingNext, UnseenNext, OutlivesNext DEF IInv

\* The invariant holds in every state of every run of the loop.
THEOREM Invariance == Spec => []IInv
BY InvInit, InvNext, PTL DEF Spec

\* Every variable keeps its type, and no tail history passes its capacity.
THEOREM TypeCorrect == Spec => []TypeOK
<1>1. IInv => TypeOK
  BY DEF IInv
<1> QED
  BY <1>1, Invariance, PTL

\* The lifecycle tracker follows the listings: see LifecycleTracksListings.
THEOREM LifecycleTracked == Spec => []LifecycleTracksListings
<1>1. IInv => LifecycleTracksListings
  BY DEF IInv
<1> QED
  BY <1>1, Invariance, PTL

\* No cache ever carries a fact from one pane lifetime into the next.
THEOREM NoStaleLifetime == Spec => []NothingOutlivesItsPane
<1>1. IInv => NothingOutlivesItsPane
  BY DEF IInv
<1> QED
  BY <1>1, Invariance, PTL

-----------------------------------------------------------------------------
(* What the caches are, in terms of the log *)

AliveEntry == [kind : {"alive"}, at : Nat, obs : Observations]
EntryType  == AliveEntry \union [kind : {"dead"}, at : Nat, conflict : BOOLEAN]
              \union [kind : {"missing"}, at : Nat]

\* The present lifetime begins with entry s.
StartsAt(entries, s) ==
    /\ s \in 1..(Len(entries) + 1)
    /\ \A j \in s..Len(entries) : Promise!Alive(entries[j])
    /\ s > 1 => ~Promise!Alive(entries[s - 1])

\* The ring holds the tails of the latest polls of the lifetime.
RingOf(life, ring) ==
    /\ Len(ring) = IF Len(life) < TailCap THEN Len(life) ELSE TailCap
    /\ \A i \in 1..Len(ring) : ring[i].value = life[Len(life) - Len(ring) + i].obs.tail

\* The present idle cause has lasted since poll b of the lifetime.
BegunAt(life, b) ==
    /\ b \in 1..Len(life)
    /\ \A j \in b..Len(life) : Promise!IdleAt(life, j) = Promise!IdleAt(life, Len(life))
    /\ b > 1 => Promise!IdleAt(life, b - 1) # Promise!IdleAt(life, Len(life))

IdleOf(life, cause, since) ==
    /\ cause = Promise!IdleAt(life, Len(life))
    /\ \E b \in 1..Len(life) :
          BegunAt(life, b) /\ since = IF cause = None THEN None ELSE life[b].at

\* Poll r of the lifetime has the latest reading since the provider changed.
ReadAt(life, r) ==
    /\ r \in 1..Len(life) /\ life[r].obs.pressure # None
    /\ \A j \in r..Len(life) : life[j].obs.provider = Claude
    /\ \A j \in (r + 1)..Len(life) : life[j].obs.pressure = None

\* No poll has one.
Unread(life) ==
    \A i \in 1..Len(life) : life[i].obs.pressure # None =>
        \E j \in i..Len(life) : life[j].obs.provider # Claude

PressureOf(life, cache) ==
    IF life[Len(life)].obs.provider # Claude THEN cache = EmptyCache
    ELSE /\ cache.provider = Claude
         /\ IF cache.pressure = None THEN Unread(life)
            ELSE \E r \in 1..Len(life) :
                    ReadAt(life, r) /\ cache.pressure.value = life[r].obs.pressure

IdentityOf(life, snapshot) ==
    /\ snapshot # None
    /\ snapshot.value.provider = life[Len(life)].obs.provider
    /\ snapshot.value.path = life[Len(life)].obs.path

Told(life, n) ==
    UNION {Promise!DriftsAt(life, i) : i \in {j \in 2..n : ~Promise!ObserveOnlyAt(life, j)}}

DriftsOf(life, drifted) == {d.value : d \in drifted} = Told(life, Len(life))

\* The caches of a live pane are functions of its present lifetime.
CachesOf(p, life) ==
    /\ RingOf(life, tail_history[p])
    /\ IdleOf(life, idle_transition[p], idle_entered_at[p])
    /\ PressureOf(life, pressure_metric_cache[p])
    /\ IdentityOf(life, identity_history[p])
    /\ DriftsOf(life, reported_drifts[p])

\* A conflict is remembered exactly if the latest observation showed one.
ConflictOf(entries, logged) ==
    \/ /\ \A i \in 1..Len(entries) : entries[i].kind = "missing"
       /\ logged = None
    \/ \E o \in 1..Len(entries) :
          /\ entries[o].kind # "missing"
          /\ \A i \in (o + 1)..Len(entries) : entries[i].kind = "missing"
          /\ logged # None <=> Promise!ConflictAt(entries[o])

\* What the log and the state of one pane have to do with each other.
Explained(p) ==
    /\ log[p] \in Seq(EntryType)
    /\ \E s \in 1..(Len(log[p]) + 1) : StartsAt(log[p], s)
    /\ seen[p] = "unseen" <=> log[p] = <<>>
    /\ seen[p] = "alive" <=> log[p] # <<>> /\ Promise!Alive(log[p][Len(log[p])])
    /\ seen[p] = "alive" => CachesOf(p, Promise!Lifetime(log[p]))
    /\ seen[p] = "unseen" => idle_transition[p] = None /\ pressure_metric_cache[p] = EmptyCache
    /\ p \in known /\ pending[p] = "none" => seen[p] # "unseen"
    /\ ConflictOf(log[p], identity_conflicts_logged[p])

HistoryInv == log \in [Panes -> Seq(EntryType)] /\ \A p \in Panes : Explained(p)

-----------------------------------------------------------------------------
(* Lifetimes as sequences *)

LEMMA MinIs ==
    ASSUME NEW S \in SUBSET Nat, NEW x \in S, \A y \in S : x <= y
    PROVE  Promise!Min(S) = x
<1> DEFINE least == Promise!Min(S)
<1>1. least \in S /\ \A y \in S : least <= y
  BY DEF Promise!Min
<1>2. least <= x /\ x <= least
  BY <1>1
<1> HIDE DEF least
<1>3. least \in Nat /\ x \in Nat
  BY <1>1
<1> QED
  BY <1>2, <1>3 DEF least

LEMMA MaxIs ==
    ASSUME NEW S \in SUBSET Nat, NEW x \in S, \A y \in S : y <= x
    PROVE  Promise!Max(S) = x
<1> DEFINE most == Promise!Max(S)
<1>1. most \in S /\ \A y \in S : y <= most
  BY DEF Promise!Max
<1>2. most <= x /\ x <= most
  BY <1>1
<1> HIDE DEF most
<1>3. most \in Nat /\ x \in Nat
  BY <1>1
<1> QED
  BY <1>2, <1>3 DEF most

LEMMA AliveEntries ==
    ASSUME NEW x \in EntryType
    PROVE  Promise!Alive(x) <=> x \in AliveEntry
BY DEF EntryType, AliveEntry, Promise!Alive

\* The lifetime is the suffix that begins there.
LEMMA LifetimeIs ==
    ASSUME NEW e \in Seq(EntryType), NEW s, StartsAt(e, s)
    PROVE  /\ Promise!Lifetime(e) = SubSeq(e, s, Len(e))
           /\ Promise!Lifetime(e) \in Seq(AliveEntry)
           /\ Len(Promise!Lifetime(e)) = Len(e) - s + 1
           /\ \A i \in 1..Len(Promise!Lifetime(e)) : Promise!Lifetime(e)[i] = e[s + i - 1]
<1> DEFINE n == Len(e)
           starts == {i \in 1..(n + 1) : \A j \in i..n : Promise!Alive(e[j])}
<1>1. n \in Nat /\ s \in 1..(n + 1)
  BY DEF StartsAt
<1>2. Promise!Min(starts) = s
  <2>1. s \in starts /\ starts \in SUBSET Nat
    BY <1>1 DEF StartsAt
  <2>2. ASSUME NEW y \in starts PROVE s <= y
    <3>1. y \in 1..(n + 1) /\ \A j \in y..n : Promise!Alive(e[j])
      OBVIOUS
    <3>2. ASSUME y < s PROVE FALSE
      <4>1. s - 1 \in y..n /\ s > 1
        BY <1>1, <3>1, <3>2
      <4> QED
        BY <3>1, <4>1 DEF StartsAt
    <3> QED
      BY <1>1, <3>1, <3>2
  <2> HIDE DEF starts
  <2> QED
    BY <2>1, <2>2, MinIs
<1>3. Promise!Lifetime(e) = SubSeq(e, s, n)
  BY <1>2 DEF Promise!Lifetime
<1>4. \A i \in s..n : e[i] \in AliveEntry
  <2> SUFFICES ASSUME NEW i \in s..n PROVE e[i] \in AliveEntry
    OBVIOUS
  <2>1. i \in 1..n
    BY <1>1
  <2>2. e[i] \in EntryType
    BY <2>1
  <2> QED
    BY <2>2, AliveEntries DEF StartsAt
<1> HIDE DEF n
<1>5. /\ SubSeq(e, s, n) \in Seq(AliveEntry)
      /\ Len(SubSeq(e, s, n)) = IF s <= n THEN n - s + 1 ELSE 0
      /\ \A i \in 1..(n - s + 1) : SubSeq(e, s, n)[i] = e[s + i - 1]
  BY <1>1, <1>4, SubSeqProperties
<1>6. Len(SubSeq(e, s, n)) = n - s + 1
  BY <1>1, <1>5
<1> QED
  BY <1>3, <1>5, <1>6 DEF n

\* A lifetime that has grown by one poll.
Grown(life, x, longer) ==
    /\ life \in Seq(AliveEntry) /\ longer \in Seq(AliveEntry) /\ x \in AliveEntry
    /\ Len(longer) = Len(life) + 1
    /\ \A i \in 1..Len(life) : longer[i] = life[i]
    /\ longer[Len(longer)] = x

LEMMA AppendAlive ==
    ASSUME NEW e \in Seq(EntryType), NEW s, StartsAt(e, s), NEW x \in AliveEntry
    PROVE  /\ StartsAt(Append(e, x), s)
           /\ Grown(Promise!Lifetime(e), x, Promise!Lifetime(Append(e, x)))
<1> DEFINE f == Append(e, x)
           n == Len(e)
<1>1. x \in EntryType /\ Promise!Alive(x)
  BY DEF EntryType, AliveEntry, Promise!Alive
<1>2. /\ f \in Seq(EntryType) /\ Len(f) = n + 1 /\ n \in Nat
      /\ f[n + 1] = x /\ \A i \in 1..n : f[i] = e[i]
  BY <1>1
<1> HIDE DEF f, n
<1>3. s \in 1..(n + 1)
  BY DEF StartsAt, n
<1>4. StartsAt(f, s)
  <2>1. s \in 1..(Len(f) + 1)
    BY <1>2, <1>3
  <2>2. \A j \in s..Len(f) : Promise!Alive(f[j])
    <3> SUFFICES ASSUME NEW j \in s..Len(f) PROVE Promise!Alive(f[j])
      OBVIOUS
    <3>1. CASE j = n + 1
      BY <1>1, <1>2, <3>1
    <3>2. CASE j # n + 1
      <4>1. j \in s..n /\ j \in 1..n
        BY <1>2, <1>3, <3>2
      <4> QED
        BY <1>2, <4>1 DEF StartsAt, n
    <3> QED
      BY <3>1, <3>2
  <2>3. s > 1 => ~Promise!Alive(f[s - 1])
    <3> SUFFICES ASSUME s > 1 PROVE ~Promise!Alive(f[s - 1])
      OBVIOUS
    <3>1. s - 1 \in 1..n
      BY <1>2, <1>3
    <3> QED
      BY <1>2, <3>1 DEF StartsAt
  <2> QED
    BY <2>1, <2>2, <2>3 DEF StartsAt
<1> DEFINE life == Promise!Lifetime(e)
           longer == Promise!Lifetime(f)
<1>5. /\ life \in Seq(AliveEntry) /\ Len(life) = n - s + 1
      /\ \A i \in 1..Len(life) : life[i] = e[s + i - 1]
  BY LifetimeIs DEF n
<1>6. /\ longer \in Seq(AliveEntry) /\ Len(longer) = Len(f) - s + 1
      /\ \A i \in 1..Len(longer) : longer[i] = f[s + i - 1]
  BY <1>2, <1>4, LifetimeIs
<1> HIDE DEF life, longer
<1>7. Len(longer) = Len(life) + 1 /\ Len(longer) \in 1..(n + 1) /\ s + Len(longer) - 1 = n + 1
  BY <1>2, <1>3, <1>5, <1>6
<1>8. longer[Len(longer)] = x
  BY <1>2, <1>6, <1>7
<1>9. \A i \in 1..Len(life) : longer[i] = life[i]
  <2> SUFFICES ASSUME NEW i \in 1..Len(life) PROVE longer[i] = life[i]
    OBVIOUS
  <2>1. i \in 1..Len(longer) /\ s + i - 1 \in 1..n
    BY <1>2, <1>3, <1>5, <1>7
  <2> QED
    BY <1>2, <1>5, <1>6, <2>1
<1> QED
  BY <1>4, <1>5, <1>6, <1>7, <1>8, <1>9 DEF Grown, life, longer, f

\* A death or a missing pane ends the lifetime.
LEMMA AppendOther ==
    ASSUME NEW e \in Seq(EntryType), NEW x \in EntryType, ~Promise!Alive(x)
    PROVE  StartsAt(Append(e, x), Len(e) + 2)
BY DEF StartsAt

-----------------------------------------------------------------------------
(* One more poll of a lifetime, cache by cache *)

LEMMA GrownLength ==
    ASSUME NEW life, NEW x, NEW longer, Grown(life, x, longer)
    PROVE  /\ Len(life) \in Nat /\ Len(longer) = Len(life) + 1 /\ Len(longer) \in 1..Len(longer)
           /\ longer[Len(life) + 1] = x /\ longer[Len(longer)] = x
           /\ \A i \in 1..Len(life) : longer[i] = life[i]
           /\ \A i \in 1..Len(longer) : longer[i] \in AliveEntry
BY DEF Grown

\* The ring after one more push.
LEMMA RingStep ==
    ASSUME NEW life, NEW x, NEW longer, Grown(life, x, longer),
           NEW ring \in Seq(Stamped(Tails)), RingOf(life, ring),
           NEW e \in Stamped(Tails), e.value = x.obs.tail
    PROVE  RingOf(longer, Push(ring, e))
<1> DEFINE m == Len(life)
           k == Len(ring)
           new == Push(ring, e)
<1>1. TailCap \in Nat /\ TailCap >= 2
  BY BoundsAssumption
<1>2. /\ m \in Nat /\ Len(longer) = m + 1 /\ longer[m + 1] = x
      /\ \A i \in 1..m : longer[i] = life[i]
  BY GrownLength
<1>3. /\ k \in Nat /\ k = IF m < TailCap THEN m ELSE TailCap
      /\ \A i \in 1..k : ring[i].value = life[m - k + i].obs.tail
  BY DEF RingOf
<1>4. CASE k = TailCap
  <2>1. ring # <<>>
    BY <1>1, <1>4
  <2>2. /\ Tail(ring) \in Seq(Stamped(Tails)) /\ Len(Tail(ring)) = k - 1
        /\ \A i \in 1..(k - 1) : Tail(ring)[i] = ring[i + 1]
    BY <2>1
  <2>3. new = Append(Tail(ring), e)
    BY <1>4 DEF Push
  <2>4. Len(new) = k /\ new[k] = e /\ \A i \in 1..(k - 1) : new[i] = ring[i + 1]
    BY <1>1, <1>4, <2>2, <2>3
  <2> HIDE DEF new, m, k
  <2>5. Len(new) = IF Len(longer) < TailCap THEN Len(longer) ELSE TailCap
    BY <1>1, <1>2, <1>3, <1>4, <2>4
  <2>6. ASSUME NEW i \in 1..Len(new)
        PROVE  new[i].value = longer[Len(longer) - Len(new) + i].obs.tail
    <3>1. /\ Len(longer) = m + 1 /\ Len(new) = k /\ m \in Nat /\ k \in Nat
          /\ i \in Nat
      BY <1>2, <1>3, <2>4, <2>6
    <3>2. Len(longer) - Len(new) + i = m - k + (i + 1)
      BY ONLY <3>1
    <3>3. CASE i = k
      <4>1. m - k + (i + 1) = m + 1
        BY <3>3, <3>1
      <4> QED
        BY <1>2, <2>4, <3>3, <3>2, <4>1
    <3>4. CASE i # k
      <4>1. i \in 1..(k - 1) /\ i + 1 \in 1..k /\ m - k + (i + 1) \in 1..m
        BY <1>1, <1>2, <1>3, <1>4, <2>4, <2>6, <3>4
      <4>2. new[i].value = life[m - k + (i + 1)].obs.tail
        BY <1>3, <2>4, <4>1
      <4>3. longer[m - k + (i + 1)] = life[m - k + (i + 1)]
        BY <1>2, <4>1
      <4> QED
        BY <3>2, <4>2, <4>3
    <3> QED
      BY <3>3, <3>4
  <2> QED
    BY <2>5, <2>6 DEF RingOf, new
<1>5. CASE k # TailCap
  <2>1. k = m /\ m < TailCap
    BY <1>1, <1>2, <1>3, <1>5
  <2>2. new = Append(ring, e)
    BY <1>5 DEF Push
  <2>3. Len(new) = m + 1 /\ new[m + 1] = e /\ \A i \in 1..m : new[i] = ring[i]
    BY <2>1, <2>2
  <2> HIDE DEF new, m, k
  <2>4. Len(new) = IF Len(longer) < TailCap THEN Len(longer) ELSE TailCap
    BY <1>1, <1>2, <2>1, <2>3
  <2>5. ASSUME NEW i \in 1..Len(new)
        PROVE  new[i].value = longer[Len(longer) - Len(new) + i].obs.tail
    <3>1. Len(longer) - Len(new) + i = i
      BY <1>2, <2>3, <2>5
    <3>2. CASE i = m + 1
      BY <1>2, <2>3, <3>1, <3>2
    <3>3. CASE i # m + 1
      <4>1. i \in 1..m
        BY <1>2, <2>3, <2>5, <3>3
      <4>2. ring[i].value = life[m - k + i].obs.tail /\ m - k + i = i
        BY <1>2, <1>3, <2>1, <4>1
      <4> QED
        BY <1>2, <2>3, <3>1, <4>1, <4>2
    <3> QED
      BY <3>2, <3>3
  <2> QED
    BY <2>4, <2>5 DEF RingOf, new
<1> QED
  BY <1>4, <1>5

\* Stillness by the ring is stillness by the log.
LEMMA StillnessIs ==
    ASSUME NEW life \in Seq(AliveEntry), Len(life) >= 1,
           NEW ring \in Seq(Stamped(Tails)), RingOf(life, ring)
    PROVE  IdleState(life[Len(life)].obs, ring) = Promise!IdleAt(life, Len(life))
<1> DEFINE m == Len(life)
           k == Len(ring)
           window == (m - TailCap + 1)..m
           equal == \A j, l \in window : life[j].obs.tail = life[l].obs.tail
<1>1. TailCap \in Nat /\ TailCap >= 2
  BY BoundsAssumption
<1>2. /\ m \in Nat /\ k \in Nat /\ k = IF m < TailCap THEN m ELSE TailCap
      /\ \A i \in 1..k : ring[i].value = life[m - k + i].obs.tail
      /\ DOMAIN ring = 1..k
  BY DEF RingOf
<1> HIDE DEF m, k
<1>3. IsStill(ring) <=> m >= TailCap /\ equal
  <2>1. CASE m < TailCap
    BY <1>1, <1>2, <2>1 DEF IsStill, k
  <2>2. CASE m >= TailCap
    <3>1. k = TailCap
      BY <1>1, <1>2, <2>2
    <3>2. IsStill(ring) <=> \A i \in 1..k : ring[i].value = ring[1].value
      BY <1>1, <1>2, <3>1 DEF IsStill, k
    <3>3. ASSUME equal, NEW i \in 1..k PROVE ring[i].value = ring[1].value
      <4>1. 1 \in 1..k /\ m - k + i \in window /\ m - k + 1 \in window
        BY <1>1, <1>2, <3>1, <3>3
      <4>2. life[m - k + i].obs.tail = life[m - k + 1].obs.tail
        BY <3>3, <4>1
      <4> QED
        BY <1>2, <4>1, <4>2
    <3>4. ASSUME \A i \in 1..k : ring[i].value = ring[1].value, NEW j \in window, NEW l \in window
          PROVE  life[j].obs.tail = life[l].obs.tail
      <4>1. /\ j - (m - k) \in 1..k /\ l - (m - k) \in 1..k
            /\ m - k + (j - (m - k)) = j /\ m - k + (l - (m - k)) = l
        BY <1>1, <1>2, <3>1, <3>4
      <4>2. ring[j - (m - k)].value = life[j].obs.tail /\ ring[l - (m - k)].value = life[l].obs.tail
        BY <1>2, <4>1
      <4> QED
        BY <3>4, <4>1, <4>2
    <3> HIDE DEF window
    <3>5. (\A i \in 1..k : ring[i].value = ring[1].value) => equal
      BY <3>4
    <3>6. equal => \A i \in 1..k : ring[i].value = ring[1].value
      BY <3>3
    <3> QED
      BY <2>2, <3>2, <3>5, <3>6
  <2> QED
    BY <1>1, <1>2, <2>1, <2>2
<1>4. Promise!IdleAt(life, m) = IF life[m].obs.marker # None THEN life[m].obs.marker
                                ELSE IF m >= TailCap /\ equal THEN Stale ELSE None
  BY DEF Promise!IdleAt
<1> HIDE DEF equal, window
<1> QED
  BY <1>3, <1>4 DEF IdleState, m

\* What a poll showed does not change when the lifetime goes on.
LEMMA IdleAtSame ==
    ASSUME NEW life, NEW x, NEW longer, Grown(life, x, longer), NEW i \in 1..Len(life)
    PROVE  Promise!IdleAt(longer, i) = Promise!IdleAt(life, i)
<1>1. TailCap \in Nat /\ TailCap >= 2
  BY BoundsAssumption
<1>2. Len(life) \in Nat /\ \A j \in 1..Len(life) : longer[j] = life[j]
  BY GrownLength
<1> DEFINE window == (i - TailCap + 1)..i
           Equal(l) == \A j, k \in window : l[j].obs.tail = l[k].obs.tail
<1>3. i >= TailCap => (Equal(longer) <=> Equal(life))
  <2> SUFFICES ASSUME i >= TailCap PROVE Equal(longer) <=> Equal(life)
    OBVIOUS
  <2>1. \A j \in window : j \in 1..Len(life)
    BY <1>1, <1>2
  <2> HIDE DEF window
  <2>2. \A j \in window : longer[j] = life[j]
    BY <1>2, <2>1
  <2> QED
    BY <2>2
<1>4. longer[i] = life[i]
  BY <1>2
<1>5. \A l : Promise!IdleAt(l, i) = IF l[i].obs.marker # None THEN l[i].obs.marker
                                  ELSE IF i >= TailCap /\ Equal(l) THEN Stale ELSE None
  BY DEF Promise!IdleAt
<1> HIDE DEF Equal, window
<1> QED
  BY <1>3, <1>4, <1>5

\* The beginning of the present cause is the one PaneReports finds.
LEMMA EnteredIs ==
    ASSUME NEW life \in Seq(AliveEntry), NEW b, BegunAt(life, b)
    PROVE  Promise!EnteredAt(life) =
              IF Promise!IdleAt(life, Len(life)) = None THEN None ELSE life[b].at
<1> DEFINE n == Len(life)
           begun == {i \in 1..n : \A j \in i..n : Promise!IdleAt(life, j) = Promise!IdleAt(life, n)}
<1>1. n \in Nat /\ b \in 1..n
  BY DEF BegunAt
<1>2. b \in begun /\ begun \in SUBSET Nat
  BY <1>1 DEF BegunAt
<1>3. ASSUME NEW y \in begun PROVE b <= y
  <2>1. y \in 1..n /\ \A j \in y..n : Promise!IdleAt(life, j) = Promise!IdleAt(life, n)
    OBVIOUS
  <2>2. ASSUME y < b PROVE FALSE
    <3>1. b - 1 \in y..n /\ b > 1
      BY <1>1, <2>1, <2>2
    <3> QED
      BY <2>1, <3>1 DEF BegunAt
  <2> QED
    BY <1>1, <2>1, <2>2
<1> HIDE DEF begun
<1>4. Promise!Min(begun) = b
  BY <1>2, <1>3, MinIs
<1> QED
  BY <1>4 DEF Promise!EnteredAt, begun

\* EnteredAt of the loop is the entry time of PaneReports.
LEMMA IdleStep ==
    ASSUME NEW life, NEW x, NEW longer, Grown(life, x, longer), x.at = tick,
           NEW last, NEW before,
           \/ Len(life) = 0 /\ last = None /\ before = None
           \/ Len(life) > 0 /\ IdleOf(life, last, before)
    PROVE  LET idle == Promise!IdleAt(longer, Len(longer)) IN
           /\ IdleOf(longer, idle, EnteredAt(last, idle, before))
           /\ EnteredAt(last, idle, before) = Promise!EnteredAt(longer)
           /\ last = IF Len(longer) = 1 THEN None
                     ELSE Promise!IdleAt(longer, Len(longer) - 1)
<1> DEFINE m == Len(life)
           idle == Promise!IdleAt(longer, m + 1)
           since == EnteredAt(last, idle, before)
<1>1. /\ m \in Nat /\ Len(longer) = m + 1 /\ longer[m + 1] = x /\ longer \in Seq(AliveEntry)
      /\ \A i \in 1..m : longer[i] = life[i]
  BY GrownLength DEF Grown
<1>2. \A i \in 1..m : Promise!IdleAt(longer, i) = Promise!IdleAt(life, i)
  BY IdleAtSame
<1>3. m > 0 => last = Promise!IdleAt(longer, m)
  BY <1>1, <1>2 DEF IdleOf
<1> HIDE DEF m
<1>4. \E b \in 1..(m + 1) : BegunAt(longer, b) /\ since = IF idle = None THEN None ELSE longer[b].at
  <2>1. CASE m > 0 /\ idle = last
    <3>1. PICK b \in 1..m : BegunAt(life, b) /\ before = IF last = None THEN None ELSE life[b].at
      BY <1>1, <2>1 DEF IdleOf, m
    <3>2. BegunAt(longer, b)
      <4>1. b \in 1..(m + 1)
        BY <1>1
      <4>2. ASSUME NEW j \in b..(m + 1) PROVE Promise!IdleAt(longer, j) = idle
        <5>1. CASE j = m + 1
          BY <5>1
        <5>2. CASE j # m + 1
          <6>1. j \in b..m /\ j \in 1..m /\ m \in 1..m
            BY <1>1, <5>2
          <6>2. Promise!IdleAt(life, j) = Promise!IdleAt(life, m)
            BY <3>1, <6>1 DEF BegunAt, m
          <6> QED
            BY <1>2, <1>3, <2>1, <6>1, <6>2
        <5> QED
          BY <5>1, <5>2
      <4>3. ASSUME b > 1 PROVE Promise!IdleAt(longer, b - 1) # idle
        <5>1. b - 1 \in 1..m /\ m \in 1..m
          BY <1>1, <4>3
        <5>2. Promise!IdleAt(life, b - 1) # Promise!IdleAt(life, m)
          BY <3>1, <4>3 DEF BegunAt, m
        <5> QED
          BY <1>2, <1>3, <2>1, <5>1, <5>2
      <4> QED
        BY <1>1, <4>1, <4>2, <4>3 DEF BegunAt
    <3>3. since = before /\ longer[b] = life[b] /\ b \in 1..(m + 1)
      BY <1>1, <2>1 DEF EnteredAt
    <3> QED
      BY <2>1, <3>1, <3>2, <3>3
  <2>2. CASE ~(m > 0 /\ idle = last)
    <3>1. BegunAt(longer, m + 1)
      <4>1. \A j \in (m + 1)..(m + 1) : Promise!IdleAt(longer, j) = idle
        BY <1>1
      <4>2. m + 1 > 1 => Promise!IdleAt(longer, (m + 1) - 1) # idle
        <5> SUFFICES ASSUME m + 1 > 1 PROVE Promise!IdleAt(longer, (m + 1) - 1) # idle
          OBVIOUS
        <5>1. m > 0 /\ (m + 1) - 1 = m
          BY <1>1
        <5> QED
          BY <1>3, <2>2, <5>1
      <4> QED
        BY <1>1, <4>1, <4>2 DEF BegunAt
    <3>2. since = IF idle = None THEN None ELSE tick
      <4>1. CASE m > 0
        BY <2>2, <4>1 DEF EnteredAt
      <4>2. CASE ~(m > 0)
        <5>1. last = None /\ before = None
          BY <1>1, <4>2 DEF m
        <5> QED
          BY <5>1 DEF EnteredAt
      <4> QED
        BY <4>1, <4>2
    <3>3. m + 1 \in 1..(m + 1)
      BY <1>1
    <3> QED
      BY <1>1, <3>1, <3>2, <3>3
  <2> QED
    BY <2>1, <2>2
<1> HIDE DEF since
<1>5. IdleOf(longer, idle, since)
  BY <1>1, <1>4 DEF IdleOf
<1>6. since = Promise!EnteredAt(longer)
  BY <1>1, <1>4, EnteredIs
<1>7. last = IF m + 1 = 1 THEN None ELSE Promise!IdleAt(longer, (m + 1) - 1)
  <2>1. CASE m = 0
    BY <1>1, <2>1 DEF m
  <2>2. CASE m > 0
    <3>1. m + 1 # 1 /\ (m + 1) - 1 = m
      BY <1>1, <2>2
    <3> QED
      BY <1>3, <2>2, <3>1
  <2> QED
    BY <1>1, <2>1, <2>2
<1> QED
  BY <1>1, <1>5, <1>6, <1>7 DEF since, m

\* The cached reading is the one PaneReports looks for.
LEMMA PressureIs ==
    ASSUME NEW life \in Seq(AliveEntry), Len(life) >= 1, NEW cache, PressureOf(life, cache)
    PROVE  Promise!Pressure(life) =
              IF life[Len(life)].obs.provider = Claude /\ cache.pressure # None
              THEN cache.pressure.value ELSE life[Len(life)].obs.pressure
<1> DEFINE n == Len(life)
           read == {i \in 1..n : /\ life[i].obs.pressure # None
                                 /\ \A j \in i..n : life[j].obs.provider = Claude}
<1>1. n \in Nat /\ n >= 1
  OBVIOUS
<1>2. Promise!Pressure(life) =
         IF life[n].obs.provider = Claude /\ read # {}
         THEN life[Promise!Max(read)].obs.pressure ELSE life[n].obs.pressure
  BY DEF Promise!Pressure
<1> HIDE DEF n
<1>3. CASE life[n].obs.provider # Claude
  BY <1>2, <1>3 DEF n
<1>4. CASE life[n].obs.provider = Claude /\ cache.pressure = None
  <2>1. Unread(life)
    BY <1>4 DEF PressureOf, n
  <2>2. ASSUME NEW i \in read PROVE FALSE
    <3>1. i \in 1..n /\ life[i].obs.pressure # None
      OBVIOUS
    <3>2. PICK j \in i..n : life[j].obs.provider # Claude
      BY <2>1, <3>1 DEF Unread, n
    <3> QED
      BY <3>2
  <2>3. read = {}
    BY <2>2
  <2> HIDE DEF read
  <2> QED
    BY <1>2, <1>4, <2>3 DEF n
<1>5. CASE life[n].obs.provider = Claude /\ cache.pressure # None
  <2>1. PICK r \in 1..n : ReadAt(life, r) /\ cache.pressure.value = life[r].obs.pressure
    BY <1>5 DEF PressureOf, n
  <2>2. r \in read /\ read \in SUBSET Nat
    BY <1>1, <2>1 DEF ReadAt, n
  <2>3. ASSUME NEW y \in read PROVE y <= r
    <3>1. y \in 1..n /\ life[y].obs.pressure # None
      OBVIOUS
    <3>2. ASSUME y > r PROVE FALSE
      <4>1. y \in (r + 1)..n
        BY <1>1, <2>1, <3>1, <3>2
      <4> QED
        BY <2>1, <3>1, <4>1 DEF ReadAt, n
    <3> QED
      BY <1>1, <2>1, <3>1, <3>2
  <2> HIDE DEF read
  <2>4. Promise!Max(read) = r /\ read # {}
    BY <2>2, <2>3, MaxIs
  <2> QED
    BY <1>2, <1>5, <2>1, <2>4 DEF n
<1> QED
  BY <1>3, <1>4, <1>5

LEMMA PressureStep ==
    ASSUME NEW life, NEW x, NEW longer, Grown(life, x, longer), tick \in 1..MaxTicks,
           NEW cache,
           \/ Len(life) = 0 /\ cache = EmptyCache
           \/ Len(life) > 0 /\ PressureOf(life, cache)
    PROVE  /\ PressureOf(longer, UpdatedCache(cache, x.obs))
           /\ ShownPressure(cache, x.obs) = Promise!Pressure(longer)
<1> DEFINE m == Len(life)
           after == UpdatedCache(cache, x.obs)
<1>1. /\ m \in Nat /\ Len(longer) = m + 1 /\ longer[m + 1] = x /\ longer \in Seq(AliveEntry)
      /\ \A i \in 1..m : longer[i] = life[i]
  BY GrownLength DEF Grown
<1>2. x.obs \in Observations
  BY DEF Grown, AliveEntry
<1>3. /\ x.obs.pressure \in Readings \union {None}
      /\ Claude # None
  BY <1>2, ObservationFields, NoneAssumption, ProvidersAssumption
<1> HIDE DEF m
<1>4. PressureOf(longer, after)
  <2>1. CASE x.obs.provider # Claude
    <3>1. after = EmptyCache
      BY <2>1 DEF UpdatedCache
    <3> QED
      BY <1>1, <2>1, <3>1 DEF PressureOf
  <2>2. CASE x.obs.provider = Claude /\ x.obs.pressure # None
    <3>1. /\ after.provider = Claude
          /\ after.pressure = [value |-> x.obs.pressure, at |-> tick]
      BY <2>2 DEF UpdatedCache
    <3>2. after.pressure \in Stamped(Readings)
      BY <1>3, <2>2, <3>1 DEF Stamped
    <3>3. after.pressure # None /\ after.pressure.value = longer[m + 1].obs.pressure
      BY <1>1, <3>1, <3>2, AbsenceAssumption
    <3>4. ReadAt(longer, m + 1)
      BY <1>1, <2>2 DEF ReadAt
    <3>5. m + 1 \in 1..Len(longer)
      BY <1>1
    <3> HIDE DEF after
    <3> QED
      BY <1>1, <2>2, <3>1, <3>3, <3>4, <3>5 DEF PressureOf
  <2>3. CASE x.obs.provider = Claude /\ x.obs.pressure = None /\ cache.provider = Claude
    <3>1. m > 0 /\ PressureOf(life, cache)
      BY <1>1, <1>3, <2>3 DEF EmptyCache, m
    <3>2. life[m].obs.provider = Claude
      BY <1>3, <2>3, <3>1 DEF PressureOf, EmptyCache, m
    <3>3. after.provider = Claude /\ after.pressure = cache.pressure
      BY <2>3 DEF UpdatedCache
    <3> HIDE DEF after
    <3>4. CASE cache.pressure = None
      <4>1. Unread(life)
        BY <3>1, <3>2, <3>4 DEF PressureOf, m
      <4>2. ASSUME NEW i \in 1..Len(longer), longer[i].obs.pressure # None
            PROVE  \E j \in i..Len(longer) : longer[j].obs.provider # Claude
        <5>1. i \in 1..m
          BY <1>1, <2>3, <4>2
        <5>2. PICK j \in i..m : life[j].obs.provider # Claude
          BY <1>1, <4>1, <4>2, <5>1 DEF Unread, m
        <5>3. j \in 1..m /\ j \in i..Len(longer)
          BY <1>1, <5>1
        <5> QED
          BY <1>1, <5>2, <5>3
      <4>3. Unread(longer)
        BY <4>2 DEF Unread
      <4> QED
        BY <1>1, <2>3, <3>3, <3>4, <4>3 DEF PressureOf
    <3>5. CASE cache.pressure # None
      <4>1. PICK r \in 1..m : ReadAt(life, r) /\ cache.pressure.value = life[r].obs.pressure
        BY <3>1, <3>2, <3>5 DEF PressureOf, m
      <4>2. r \in 1..Len(longer) /\ longer[r] = life[r]
        BY <1>1, <4>1
      <4>3. \A j \in r..Len(longer) : longer[j].obs.provider = Claude
        <5> SUFFICES ASSUME NEW j \in r..Len(longer) PROVE longer[j].obs.provider = Claude
          OBVIOUS
        <5>1. j = m + 1 \/ j \in r..m
          BY <1>1, <4>1
        <5>2. j \in r..m => j \in 1..m
          BY <1>1, <4>1
        <5> QED
          BY <1>1, <2>3, <4>1, <5>1, <5>2 DEF ReadAt, m
      <4>4. \A j \in (r + 1)..Len(longer) : longer[j].obs.pressure = None
        <5> SUFFICES ASSUME NEW j \in (r + 1)..Len(longer) PROVE longer[j].obs.pressure = None
          OBVIOUS
        <5>1. j = m + 1 \/ j \in (r + 1)..m
          BY <1>1, <4>1
        <5>2. j \in (r + 1)..m => j \in 1..m
          BY <1>1, <4>1
        <5> QED
          BY <1>1, <2>3, <4>1, <5>1, <5>2 DEF ReadAt, m
      <4>5. ReadAt(longer, r)
        BY <4>1, <4>2, <4>3, <4>4 DEF ReadAt
      <4> QED
        BY <1>1, <2>3, <3>3, <3>5, <4>1, <4>2, <4>5 DEF PressureOf
    <3> QED
      BY <3>4, <3>5
  <2>4. CASE x.obs.provider = Claude /\ x.obs.pressure = None /\ cache.provider # Claude
    <3>1. after.provider = Claude /\ after.pressure = None
      BY <2>4 DEF UpdatedCache
    <3>2. m > 0 => life[m].obs.provider # Claude
      BY <1>1, <2>4 DEF PressureOf, m
    <3>3. ASSUME NEW i \in 1..Len(longer), longer[i].obs.pressure # None
          PROVE  \E j \in i..Len(longer) : longer[j].obs.provider # Claude
      <4>1. i \in 1..m
        BY <1>1, <2>4, <3>3
      <4>2. m > 0 /\ m \in 1..m /\ m \in i..Len(longer)
        BY <1>1, <4>1
      <4> QED
        BY <1>1, <3>2, <4>2
    <3>4. Unread(longer)
      BY <3>3 DEF Unread
    <3> HIDE DEF after
    <3> QED
      BY <1>1, <2>4, <3>1, <3>4 DEF PressureOf
  <2> QED
    BY <2>1, <2>2, <2>3, <2>4
<1>5. Promise!Pressure(longer) =
         IF x.obs.provider = Claude /\ after.pressure # None
         THEN after.pressure.value ELSE x.obs.pressure
  BY <1>1, <1>4, PressureIs
<1> QED
  BY <1>4, <1>5 DEF ShownPressure

\* detect_identity_drift finds what DriftsAt defines.
LEMMA DriftsIs ==
    ASSUME NEW life \in Seq(AliveEntry), NEW i \in 2..Len(life), NEW prev,
           prev.provider = life[i - 1].obs.provider, prev.path = life[i - 1].obs.path
    PROVE  Drifts(prev, life[i].obs) = Promise!DriftsAt(life, i)
<1> DEFINE a == life[i - 1].obs
           b == life[i].obs
           provider == [kind |-> "provider", from |-> a.provider, to |-> b.provider]
           worktree == [kind |-> "worktree", from |-> a.path, to |-> b.path]
<1>1. a \in Observations /\ b \in Observations
  <2>1. i - 1 \in 1..Len(life) /\ i \in 1..Len(life)
    OBVIOUS
  <2>2. life[i - 1] \in AliveEntry /\ life[i] \in AliveEntry
    BY <2>1
  <2> QED
    BY <2>2 DEF AliveEntry
<1>2. /\ a.provider \in Providers /\ b.provider \in Providers
      /\ a.path \in Paths /\ b.path \in Paths
  BY <1>1, ObservationFields
<1>3. Promise!DriftsAt(life, i) =
         (IF DriftFindings /\ a.provider # b.provider /\ a.provider # Unknown
          THEN {provider} ELSE {})
         \union (IF DriftFindings /\ a.path # b.path THEN {worktree} ELSE {})
  BY DEF Promise!DriftsAt
<1>4. Drifts(prev, b) =
         {k \in DriftKey :
            /\ DriftFindings
            /\ \/ /\ k.kind = "provider" /\ k.from # k.to /\ k.from # Unknown
                  /\ k.from = a.provider /\ k.to = b.provider
               \/ /\ k.kind = "worktree" /\ k.from # k.to
                  /\ k.from = a.path /\ k.to = b.path}
  BY DEF Drifts
<1> HIDE DEF a, b
<1>5. provider \in DriftKey /\ worktree \in DriftKey
  BY <1>2 DEF DriftKey
<1>6. ASSUME NEW k \in DriftKey
      PROVE  /\ k.kind = "provider" /\ k.from = a.provider /\ k.to = b.provider <=> k = provider
             /\ k.kind = "worktree" /\ k.from = a.path /\ k.to = b.path <=> k = worktree
  BY DEF DriftKey
<1>7. /\ provider.kind = "provider" /\ provider.from = a.provider /\ provider.to = b.provider
      /\ worktree.kind = "worktree" /\ worktree.from = a.path /\ worktree.to = b.path
  OBVIOUS
<1> HIDE DEF provider, worktree
<1>8. ASSUME NEW k \in Drifts(prev, b) PROVE k \in Promise!DriftsAt(life, i)
  <2>1. k \in DriftKey
    BY <1>4, <1>8
  <2> QED
    BY <1>3, <1>4, <1>6, <1>8, <2>1
<1>9. ASSUME NEW k \in Promise!DriftsAt(life, i) PROVE k \in Drifts(prev, b)
  BY <1>3, <1>4, <1>5, <1>7, <1>9
<1>10. Drifts(prev, b) = Promise!DriftsAt(life, i)
  BY <1>8, <1>9
<1> QED
  BY <1>10 DEF b

\* The changes a poll reports, and what is remembered of them.
Untold(prev, drifted, obs) ==
    IF prev = None \/ ObserveOnly(obs.provider) THEN {}
    ELSE Drifts(prev.value, obs) \ {d.value : d \in drifted}
Remembered(drifted, new) == drifted \union {[value |-> k, at |-> tick] : k \in new}

\* What was told stays told, and is told once.
LEMMA DriftStep ==
    ASSUME NEW life, NEW x, NEW longer, Grown(life, x, longer),
           NEW prev, NEW drifted, DriftsOf(life, drifted),
           \/ Len(life) = 0 /\ prev = None
           \/ Len(life) > 0 /\ IdentityOf(life, prev),
           NEW new, new = Untold(prev, drifted, x.obs)
    PROVE  /\ DriftsOf(longer, Remembered(drifted, new))
           /\ new = Promise!NewDrifts(longer)
<1>0. new = IF prev = None \/ ObserveOnly(x.obs.provider) THEN {}
            ELSE Drifts(prev.value, x.obs) \ {d.value : d \in drifted}
  BY DEF Untold
<1> DEFINE m == Len(life)
           values == {d.value : d \in drifted}
<1>1. /\ m \in Nat /\ Len(longer) = m + 1 /\ longer[m + 1] = x /\ longer \in Seq(AliveEntry)
      /\ \A i \in 1..m : longer[i] = life[i]
  BY GrownLength DEF Grown
<1> HIDE DEF m
<1>2. \A i \in 2..m : /\ Promise!DriftsAt(longer, i) = Promise!DriftsAt(life, i)
                      /\ Promise!ObserveOnlyAt(longer, i) <=> Promise!ObserveOnlyAt(life, i)
  <2> SUFFICES ASSUME NEW i \in 2..m
               PROVE  /\ Promise!DriftsAt(longer, i) = Promise!DriftsAt(life, i)
                      /\ Promise!ObserveOnlyAt(longer, i) <=> Promise!ObserveOnlyAt(life, i)
    OBVIOUS
  <2>1. longer[i] = life[i] /\ longer[i - 1] = life[i - 1]
    BY <1>1
  <2> QED
    BY <2>1 DEF Promise!DriftsAt, Promise!ObserveOnlyAt
<1>3. values = Told(longer, m)
  <2>1. {j \in 2..m : ~Promise!ObserveOnlyAt(longer, j)}
           = {j \in 2..m : ~Promise!ObserveOnlyAt(life, j)}
    BY <1>2
  <2>2. Told(longer, m) = Told(life, m)
    BY <1>2, <2>1 DEF Told
  <2> QED
    BY <2>2 DEF DriftsOf, m
<1>4. Promise!ObserveOnlyAt(longer, m + 1) <=> ObserveOnly(x.obs.provider)
  BY <1>1 DEF Promise!ObserveOnlyAt, ObserveOnly
<1>5. Promise!NewDrifts(longer) =
         IF m + 1 < 2 \/ ObserveOnly(x.obs.provider) THEN {}
         ELSE Promise!DriftsAt(longer, m + 1) \ values
  <2>1. (m + 1) - 1 = m
    BY <1>1
  <2> QED
    BY <1>1, <1>3, <1>4, <2>1 DEF Promise!NewDrifts, Told
<1>6. new = IF m + 1 < 2 \/ ObserveOnly(x.obs.provider) THEN {}
            ELSE Promise!DriftsAt(longer, m + 1) \ values
  <2>1. CASE m = 0
    BY <1>0, <2>1 DEF m
  <2>2. CASE m > 0
    <3>1. /\ prev # None /\ prev.value.provider = life[m].obs.provider
          /\ prev.value.path = life[m].obs.path
      BY <2>2 DEF IdentityOf, m
    <3>2. m + 1 \in 2..Len(longer) /\ (m + 1) - 1 = m /\ longer[m] = life[m] /\ ~(m + 1 < 2)
      BY <1>1, <2>2
    <3>3. Drifts(prev.value, x.obs) = Promise!DriftsAt(longer, m + 1)
      BY <1>1, <3>1, <3>2, DriftsIs
    <3> QED
      BY <1>0, <3>1, <3>2, <3>3
  <2> QED
    BY <1>1, <2>1, <2>2
<1>7. {d.value : d \in drifted \union {[value |-> k, at |-> tick] : k \in new}} = values \union new
  <2> DEFINE stamped == {[value |-> k, at |-> tick] : k \in new}
  <2>1. ASSUME NEW z \in {d.value : d \in drifted \union stamped} PROVE z \in values \union new
    <3>1. PICK d \in drifted \union stamped : z = d.value
      BY <2>1
    <3>2. CASE d \in drifted
      BY <3>1, <3>2
    <3>3. CASE d \in stamped
      <4>1. PICK k \in new : d = [value |-> k, at |-> tick]
        BY <3>3
      <4> QED
        BY <3>1, <4>1
    <3> QED
      BY <3>1, <3>2, <3>3
  <2>2. ASSUME NEW k \in new PROVE k \in {d.value : d \in drifted \union stamped}
    <3>1. [value |-> k, at |-> tick] \in stamped /\ [value |-> k, at |-> tick].value = k
      OBVIOUS
    <3> HIDE DEF stamped
    <3> QED
      BY <3>1
  <2>3. \A z \in values : z \in {d.value : d \in drifted \union stamped}
    OBVIOUS
  <2> HIDE DEF stamped, values
  <2>4. {d.value : d \in drifted \union stamped} = values \union new
    BY <2>1, <2>2, <2>3
  <2> QED
    BY <2>4 DEF stamped
<1> HIDE DEF values
<1>8. Told(longer, m + 1) = values \union new
  <2>1. CASE m + 1 < 2 \/ ObserveOnly(x.obs.provider)
    <3>1. {j \in 2..(m + 1) : ~Promise!ObserveOnlyAt(longer, j)}
             = {j \in 2..m : ~Promise!ObserveOnlyAt(longer, j)}
      BY <1>1, <1>4, <2>1
    <3> QED
      BY <1>3, <1>6, <2>1, <3>1 DEF Told
  <2>2. CASE ~(m + 1 < 2 \/ ObserveOnly(x.obs.provider))
    <3>1. {j \in 2..(m + 1) : ~Promise!ObserveOnlyAt(longer, j)}
             = {j \in 2..m : ~Promise!ObserveOnlyAt(longer, j)} \union {m + 1}
      BY <1>1, <1>4, <2>2
    <3>2. Told(longer, m + 1) = Told(longer, m) \union Promise!DriftsAt(longer, m + 1)
      BY <3>1 DEF Told
    <3> QED
      BY <1>3, <1>6, <2>2, <3>2
  <2> QED
    BY <2>1, <2>2
<1> QED
  BY <1>1, <1>5, <1>6, <1>7, <1>8 DEF DriftsOf, Remembered

-----------------------------------------------------------------------------
(* Audits: events and conflicts *)

LEMMA AppendFacts ==
    ASSUME NEW e \in Seq(EntryType), NEW x \in EntryType
    PROVE  /\ Append(e, x) \in Seq(EntryType)
           /\ Len(e) \in Nat /\ Len(Append(e, x)) = Len(e) + 1
           /\ Append(e, x)[Len(e) + 1] = x
           /\ \A i \in 1..Len(e) : Append(e, x)[i] = e[i]
           /\ Append(e, x) # <<>>
OBVIOUS

LEMMA AppendPrefix ==
    ASSUME NEW e \in Seq(EntryType), NEW x \in EntryType
    PROVE  SubSeq(Append(e, x), 1, Len(e)) = e
<1>1. Append(e, x) \in Seq(EntryType) /\ Len(e) \in Nat /\ Len(Append(e, x)) = Len(e) + 1
      /\ \A i \in 1..Len(e) : Append(e, x)[i] = e[i]
  BY AppendFacts
<1>2. /\ SubSeq(Append(e, x), 1, Len(e)) \in Seq(EntryType)
      /\ Len(SubSeq(Append(e, x), 1, Len(e))) = Len(e)
      /\ \A i \in 1..Len(e) : SubSeq(Append(e, x), 1, Len(e))[i] = e[i]
  BY <1>1
<1> QED
  BY <1>2, SeqEqual

\* A death or a sight of the pane decides what is remembered of a conflict.
LEMMA ConflictObserved ==
    ASSUME NEW e \in Seq(EntryType), NEW x \in EntryType, x.kind # "missing",
           NEW logged, logged # None <=> Promise!ConflictAt(x)
    PROVE  ConflictOf(Append(e, x), logged)
<1> DEFINE f == Append(e, x)
           n == Len(e)
<1>1. n \in Nat /\ Len(f) = n + 1 /\ f[n + 1] = x
  BY AppendFacts
<1> HIDE DEF f, n
<1>2. n + 1 \in 1..Len(f) /\ f[n + 1].kind # "missing"
      /\ \A i \in ((n + 1) + 1)..Len(f) : f[i].kind = "missing"
  BY <1>1
<1> QED
  BY <1>1, <1>2 DEF ConflictOf, f

\* A listing without the pane does not.
LEMMA ConflictMissing ==
    ASSUME NEW e \in Seq(EntryType), NEW x \in EntryType, x.kind = "missing",
           NEW logged, ConflictOf(e, logged)
    PROVE  ConflictOf(Append(e, x), logged)
<1> DEFINE f == Append(e, x)
           n == Len(e)
<1>1. n \in Nat /\ Len(f) = n + 1 /\ f[n + 1] = x /\ \A i \in 1..n : f[i] = e[i]
  BY AppendFacts
<1> HIDE DEF f, n
<1>2. CASE (\A i \in 1..n : e[i].kind = "missing") /\ logged = None
  <2>1. \A i \in 1..Len(f) : f[i].kind = "missing"
    BY <1>1, <1>2
  <2> QED
    BY <1>2, <2>1 DEF ConflictOf, f
<1>3. CASE \E o \in 1..n :
              /\ e[o].kind # "missing" /\ \A i \in (o + 1)..n : e[i].kind = "missing"
              /\ logged # None <=> Promise!ConflictAt(e[o])
  <2>1. PICK o \in 1..n :
           /\ e[o].kind # "missing" /\ \A i \in (o + 1)..n : e[i].kind = "missing"
           /\ logged # None <=> Promise!ConflictAt(e[o])
    BY <1>3
  <2>2. o \in 1..Len(f) /\ f[o] = e[o]
    BY <1>1, <2>1
  <2>3. \A i \in (o + 1)..Len(f) : f[i].kind = "missing"
    <3> SUFFICES ASSUME NEW i \in (o + 1)..Len(f) PROVE f[i].kind = "missing"
      OBVIOUS
    <3>1. i = n + 1 \/ (i \in (o + 1)..n /\ i \in 1..n)
      BY <1>1, <2>1
    <3> QED
      BY <1>1, <2>1, <3>1
  <2> QED
    BY <2>1, <2>2, <2>3 DEF ConflictOf, f
<1> QED
  BY <1>2, <1>3 DEF ConflictOf, n

\* Once per conflict: the memory is what SuppressedAt reads out of the log.
LEMMA SuppressedIs ==
    ASSUME NEW e \in Seq(EntryType), NEW x \in EntryType, NEW logged, ConflictOf(e, logged)
    PROVE  Promise!SuppressedAt(Append(e, x), Len(e) + 1) <=>
              /\ Promise!ConflictAt(x)
              /\ \/ Promise!EventAt(Append(e, x), Len(e) + 1) \in {"BecameDead", "Reappeared"}
                 \/ logged = None
<1> DEFINE f == Append(e, x)
           n == Len(e)
           observed == {i \in 1..((n + 1) - 1) : f[i].kind # "missing"}
<1>1. n \in Nat /\ (n + 1) - 1 = n /\ f[n + 1] = x /\ \A i \in 1..n : f[i] = e[i]
  BY AppendFacts
<1>2. Promise!SuppressedAt(f, n + 1) <=>
         /\ Promise!ConflictAt(f[n + 1])
         /\ \/ Promise!EventAt(f, n + 1) \in {"BecameDead", "Reappeared"}
            \/ observed = {}
            \/ ~Promise!ConflictAt(f[Promise!Max(observed)])
  BY DEF Promise!SuppressedAt
<1> HIDE DEF f, n
<1>3. observed = {} \/ ~Promise!ConflictAt(f[Promise!Max(observed)]) <=> logged = None
  <2>1. CASE (\A i \in 1..n : e[i].kind = "missing") /\ logged = None
    <3>1. observed = {}
      BY <1>1, <2>1
    <3> HIDE DEF observed
    <3> QED
      BY <2>1, <3>1
  <2>2. CASE \E o \in 1..n :
                /\ e[o].kind # "missing" /\ \A i \in (o + 1)..n : e[i].kind = "missing"
                /\ logged # None <=> Promise!ConflictAt(e[o])
    <3>1. PICK o \in 1..n :
             /\ e[o].kind # "missing" /\ \A i \in (o + 1)..n : e[i].kind = "missing"
             /\ logged # None <=> Promise!ConflictAt(e[o])
      BY <2>2
    <3>2. o \in observed /\ observed \in SUBSET Nat /\ f[o] = e[o]
      BY <1>1, <3>1
    <3>3. ASSUME NEW y \in observed PROVE y <= o
      <4>1. y \in 1..n /\ e[y].kind # "missing"
        BY <1>1
      <4> QED
        BY <1>1, <3>1, <4>1
    <3> HIDE DEF observed
    <3>4. Promise!Max(observed) = o
      BY <3>2, <3>3, MaxIs
    <3> QED
      BY <3>1, <3>2, <3>4
  <2> QED
    BY <2>1, <2>2 DEF ConflictOf, n
<1> HIDE DEF observed
<1> QED
  BY <1>1, <1>2, <1>3 DEF f, n

\* The tracker's verdict is the change between the last two entries.
LEMMA EventIs ==
    ASSUME NEW e \in Seq(EntryType), NEW x \in EntryType, x.kind # "missing",
           NEW prev \in {"unseen", "alive", "dead"},
           prev = "unseen" <=> e = <<>>,
           prev = "alive" <=> e # <<>> /\ Promise!Alive(e[Len(e)])
    PROVE  Promise!EventAt(Append(e, x), Len(e) + 1) = LifecycleEvent(prev, x.kind)
<1> DEFINE f == Append(e, x)
           n == Len(e)
<1>1. n \in Nat /\ f[n + 1] = x /\ \A i \in 1..n : f[i] = e[i]
  BY AppendFacts
<1>2. x.kind \in {"alive", "dead"} /\ (Promise!Alive(x) <=> x.kind = "alive")
  BY DEF EntryType, AliveEntry, Promise!Alive
<1>3. n = 0 <=> e = <<>>
  BY DEF n
<1> HIDE DEF f
<1>4. CASE n = 0
  <2>1. prev = "unseen" /\ n + 1 = 1
    BY <1>3, <1>4
  <2> QED
    BY <2>1 DEF Promise!EventAt, LifecycleEvent, f
<1>5. CASE n > 0
  <2>1. n \in 1..n /\ (n + 1) - 1 = n /\ n + 1 # 1 /\ e # <<>> /\ prev # "unseen"
    BY <1>1, <1>3, <1>5
  <2>2. f[n] = e[n]
    BY <1>1, <2>1
  <2>3. prev = "alive" <=> Promise!Alive(f[n])
    BY <2>1, <2>2 DEF n
  <2> HIDE DEF n
  <2>4. Promise!EventAt(f, n + 1) =
           IF Promise!Alive(x) /\ ~Promise!Alive(f[n]) THEN "Reappeared"
           ELSE IF x.kind = "dead" /\ Promise!Alive(f[n]) THEN "BecameDead"
           ELSE "Unchanged"
    BY <1>1, <2>1 DEF Promise!EventAt
  <2> QED
    BY <1>2, <2>1, <2>3, <2>4 DEF LifecycleEvent, f, n
<1> QED
  BY <1>1, <1>4, <1>5

-----------------------------------------------------------------------------
(* A poll of a live pane *)

\* What the iteration finds of the lifetime so far, once it has reset it.
Found(p, event, life) ==
    /\ life \in Seq(AliveEntry)
    /\ RingOf(life, AfterReset(tail_history, p, event, <<>>))
    /\ DriftsOf(life, AfterReset(reported_drifts, p, event, {}))
    /\ \/ /\ Len(life) = 0
          /\ AfterReset(idle_transition, p, event, None) = None
          /\ AfterReset(idle_entered_at, p, event, None) = None
          /\ AfterReset(pressure_metric_cache, p, event, EmptyCache) = EmptyCache
          /\ AfterReset(identity_history, p, event, None) = None
       \/ /\ Len(life) > 0
          /\ IdleOf(life, AfterReset(idle_transition, p, event, None),
                          AfterReset(idle_entered_at, p, event, None))
          /\ PressureOf(life, AfterReset(pressure_metric_cache, p, event, EmptyCache))
          /\ IdentityOf(life, AfterReset(identity_history, p, event, None))

\* A lifetime that has not begun leaves nothing behind.
LEMMA NothingYet ==
    ASSUME NEW life \in Seq(AliveEntry), Len(life) = 0
    PROVE  RingOf(life, <<>>) /\ DriftsOf(life, {})
<1>1. RingOf(life, <<>>)
  BY BoundsAssumption DEF RingOf
<1>2. {j \in 2..Len(life) : ~Promise!ObserveOnlyAt(life, j)} = {}
  BY SMT
<1>3. Told(life, Len(life)) = {}
  BY <1>2 DEF Told
<1>4. {d.value : d \in {}} = {}
  OBVIOUS
<1> QED
  BY <1>1, <1>3, <1>4 DEF DriftsOf

\* The resets leave the caches of the present lifetime, and no others.
LEMMA WhatIsFound ==
    ASSUME TypeOK, UnseenHasNoCache, NEW p \in Panes, Explained(p)
    PROVE  Found(p, LifecycleEvent(seen[p], "alive"), Promise!Lifetime(log[p]))
<1> DEFINE e == log[p]
           life == Promise!Lifetime(e)
           event == LifecycleEvent(seen[p], "alive")
<1>1. /\ e \in Seq(EntryType) /\ Len(e) \in Nat
      /\ seen[p] = "unseen" <=> e = <<>>
      /\ seen[p] = "alive" <=> e # <<>> /\ Promise!Alive(e[Len(e)])
  BY DEF Explained
<1>2. PICK s \in 1..(Len(e) + 1) : StartsAt(e, s)
  BY DEF Explained
<1>3. life \in Seq(AliveEntry) /\ Len(life) = Len(e) - s + 1
  BY <1>1, <1>2, LifetimeIs
<1>4. seen[p] \in {"unseen", "alive", "dead"}
  BY DEF TypeOK
<1>5. ASSUME seen[p] = "alive" PROVE Found(p, event, life)
  <2>1. s # Len(e) + 1
    BY <1>1, <1>2, <1>5 DEF StartsAt
  <2>2. Len(life) > 0
    BY <1>1, <1>2, <1>3, <2>1
  <2>3. ~Evicts(event)
    BY <1>5 DEF LifecycleEvent, Evicts
  <2>4. CachesOf(p, life)
    BY <1>5 DEF Explained
  <2> HIDE DEF life, event
  <2> QED
    BY <1>3, <2>2, <2>3, <2>4 DEF Found, AfterReset, CachesOf
<1>6. ASSUME seen[p] # "alive" PROVE Found(p, event, life)
  <2>1. s = Len(e) + 1
    <3>1. CASE e = <<>>
      BY <1>1, <1>2, <3>1
    <3>2. CASE e # <<>>
      BY <1>1, <1>2, <1>6, <3>2 DEF StartsAt
    <3> QED
      BY <3>1, <3>2
  <2>2. Len(life) = 0
    BY <1>1, <1>3, <2>1
  <2>3. \/ Evicts(event)
        \/ /\ tail_history[p] = <<>> /\ reported_drifts[p] = {} /\ idle_transition[p] = None
           /\ idle_entered_at[p] = None /\ pressure_metric_cache[p] = EmptyCache
           /\ identity_history[p] = None
    <3>1. CASE seen[p] = "unseen"
      BY <3>1 DEF UnseenHasNoCache, Explained
    <3>2. CASE seen[p] = "dead"
      BY <3>2 DEF LifecycleEvent, Evicts
    <3> QED
      BY <1>4, <1>6, <3>1, <3>2
  <2> HIDE DEF life, event
  <2> QED
    BY <1>3, <2>2, <2>3, NothingYet DEF Found, AfterReset
<1> QED
  BY <1>5, <1>6

\* What the poll writes of the pane it observes.
LEMMA AliveWrites ==
    ASSUME TypeOK, log \in [Panes -> Seq(EntryType)], NEW p \in Panes, NEW obs \in Observations,
           ObserveAlive(p, obs), LogNext
    PROVE  LET event   == LifecycleEvent(seen[p], "alive")
               history == Push(AfterReset(tail_history, p, event, <<>>),
                               [value |-> obs.tail, at |-> tick])
               last    == AfterReset(idle_transition, p, event, None)
               idle    == IdleState(obs, history)
               entered == EnteredAt(last, idle, AfterReset(idle_entered_at, p, event, None))
               cache   == AfterReset(pressure_metric_cache, p, event, EmptyCache)
               prev    == AfterReset(identity_history, p, event, None)
               drifted == AfterReset(reported_drifts, p, event, {})
               new     == IF prev = None \/ ObserveOnly(obs.provider) THEN {}
                          ELSE Drifts(prev.value, obs) \ {d.value : d \in drifted}
           IN
           /\ tail_history'[p] = history
           /\ idle_transition'[p] = idle
           /\ idle_entered_at'[p] = entered
           /\ pressure_metric_cache'[p] = UpdatedCache(cache, obs)
           /\ identity_history'[p] =
                 [value |-> [provider |-> obs.provider, path |-> obs.path], at |-> tick]
           /\ reported_drifts'[p] = drifted \union {[value |-> k, at |-> tick] : k \in new}
           /\ identity_conflicts_logged'[p] = ConflictLogged(p, event, obs.conflict)
           /\ reports'[p] =
                 [dead |-> FALSE, event |-> event, obs |-> obs, idle |-> idle,
                  suppressed |-> NewConflict(p, event, obs.conflict), entered_at |-> entered,
                  pressure |-> ShownPressure(cache, obs), drifts |-> new,
                  alerted |-> idle # None /\ idle # last /\ ~ObserveOnly(obs.provider)]
           /\ seen'[p] = "alive" /\ pending'[p] = "none"
           /\ log'[p] = Append(log[p], [kind |-> "alive", at |-> tick, obs |-> obs])
<1> DEFINE event   == LifecycleEvent(seen[p], "alive")
           history == Push(AfterReset(tail_history, p, event, <<>>),
                           [value |-> obs.tail, at |-> tick])
           last    == AfterReset(idle_transition, p, event, None)
           idle    == IdleState(obs, history)
           entered == EnteredAt(last, idle, AfterReset(idle_entered_at, p, event, None))
           cache   == AfterReset(pressure_metric_cache, p, event, EmptyCache)
           prev    == AfterReset(identity_history, p, event, None)
           drifted == AfterReset(reported_drifts, p, event, {})
           new     == IF prev = None \/ ObserveOnly(obs.provider) THEN {}
                      ELSE Drifts(prev.value, obs) \ {d.value : d \in drifted}
           report  == [dead |-> FALSE, event |-> event, obs |-> obs, idle |-> idle,
                       suppressed |-> NewConflict(p, event, obs.conflict),
                       entered_at |-> entered, pressure |-> ShownPressure(cache, obs),
                       drifts |-> new,
                       alerted |-> idle # None /\ idle # last /\ ~ObserveOnly(obs.provider)]
<1>1. /\ pending[p] = "alive"
      /\ pending' = [pending EXCEPT ![p] = "none"]
      /\ seen' = [seen EXCEPT ![p] = "alive"]
      /\ tail_history' = [tail_history EXCEPT ![p] = history]
      /\ idle_transition' = [idle_transition EXCEPT ![p] = idle]
      /\ idle_entered_at' = [idle_entered_at EXCEPT ![p] = entered]
      /\ pressure_metric_cache' = [pressure_metric_cache EXCEPT ![p] = UpdatedCache(cache, obs)]
      /\ identity_history' = [identity_history EXCEPT ![p] =
            [value |-> [provider |-> obs.provider, path |-> obs.path], at |-> tick]]
      /\ reported_drifts' = [reported_drifts EXCEPT ![p] =
            drifted \union {[value |-> k, at |-> tick] : k \in new}]
      /\ identity_conflicts_logged' =
            [identity_conflicts_logged EXCEPT ![p] = ConflictLogged(p, event, obs.conflict)]
      /\ reports' = [reports EXCEPT ![p] = report]
  BY Zenon DEF ObserveAlive
<1>2. ~report.dead /\ report.obs = obs
  OBVIOUS
<1> HIDE DEF event, history, last, idle, entered, cache, prev, drifted, new, report
<1>3. /\ tail_history'[p] = history /\ idle_transition'[p] = idle /\ idle_entered_at'[p] = entered
      /\ pressure_metric_cache'[p] = UpdatedCache(cache, obs)
      /\ identity_history'[p] =
            [value |-> [provider |-> obs.provider, path |-> obs.path], at |-> tick]
      /\ reported_drifts'[p] = drifted \union {[value |-> k, at |-> tick] : k \in new}
      /\ identity_conflicts_logged'[p] = ConflictLogged(p, event, obs.conflict)
      /\ reports'[p] = report /\ seen'[p] = "alive" /\ pending'[p] = "none"
  BY <1>1 DEF TypeOK
<1>4. log'[p] = Append(log[p], Entry(p))
  BY <1>1, <1>3 DEF LogNext
<1>5. Entry(p) = [kind |-> "alive", at |-> tick, obs |-> obs]
  BY <1>2, <1>3 DEF Entry
<1> QED
  BY <1>3, <1>4, <1>5, Zenon
     DEF event, history, last, idle, entered, cache, prev, drifted, new, report

\* The poll of a live pane leaves its caches explained by the longer lifetime,
\* and reports of it what PaneReports defines.
LEMMA AliveStep ==
    ASSUME IInv, HistoryInv, NEW p \in Panes, NEW obs \in Observations,
           ObserveAlive(p, obs), LogNext
    PROVE  /\ Explained(p)'
           /\ Promise!ShowsPane(p)
<1> DEFINE e       == log[p]
           x       == [kind |-> "alive", at |-> tick, obs |-> obs]
           f       == Append(e, x)
           life    == Promise!Lifetime(e)
           longer  == Promise!Lifetime(f)
           event   == LifecycleEvent(seen[p], "alive")
           tail    == [value |-> obs.tail, at |-> tick]
           old     == AfterReset(tail_history, p, event, <<>>)
           history == Push(old, tail)
           last    == AfterReset(idle_transition, p, event, None)
           before  == AfterReset(idle_entered_at, p, event, None)
           idle    == IdleState(obs, history)
           entered == EnteredAt(last, idle, before)
           cache   == AfterReset(pressure_metric_cache, p, event, EmptyCache)
           prev    == AfterReset(identity_history, p, event, None)
           drifted == AfterReset(reported_drifts, p, event, {})
           new     == Untold(prev, drifted, obs)
           logged  == AfterReset(identity_conflicts_logged, p, event, None)
<1>1. /\ tail_history'[p] = history
      /\ idle_transition'[p] = idle
      /\ idle_entered_at'[p] = entered
      /\ pressure_metric_cache'[p] = UpdatedCache(cache, obs)
      /\ identity_history'[p] =
            [value |-> [provider |-> obs.provider, path |-> obs.path], at |-> tick]
      /\ reported_drifts'[p] = Remembered(drifted, new)
      /\ identity_conflicts_logged'[p] = ConflictLogged(p, event, obs.conflict)
      /\ reports'[p] =
            [dead |-> FALSE, event |-> event, obs |-> obs, idle |-> idle,
             suppressed |-> NewConflict(p, event, obs.conflict), entered_at |-> entered,
             pressure |-> ShownPressure(cache, obs), drifts |-> new,
             alerted |-> idle # None /\ idle # last /\ ~ObserveOnly(obs.provider)]
      /\ seen'[p] = "alive"
      /\ log'[p] = f
  BY AliveWrites, ZenonT(60) DEF IInv, HistoryInv, Untold, Remembered
<1>2. tick \in 1..MaxTicks /\ tick \in Nat
  BY BoundsAssumption DEF ObserveAlive, IInv, PollProgress, TypeOK
<1>3. x \in AliveEntry /\ x \in EntryType /\ x.obs = obs /\ x.at = tick /\ x.kind = "alive"
  BY <1>2 DEF AliveEntry, EntryType
<1>4. Explained(p) /\ e \in Seq(EntryType) /\ seen[p] \in {"unseen", "alive", "dead"}
  BY DEF HistoryInv, IInv, TypeOK
<1>5. Found(p, event, life)
  BY <1>4, WhatIsFound DEF IInv
<1>6. PICK s \in 1..(Len(e) + 1) : StartsAt(e, s)
  BY <1>4 DEF Explained
<1>7. StartsAt(f, s) /\ Grown(life, x, longer)
  BY <1>3, <1>4, <1>6, AppendAlive
<1>8. /\ old \in Seq(Stamped(Tails)) /\ tail \in Stamped(Tails) /\ tail.value = obs.tail
      /\ Len(old) <= TailCap
  <2>1. old \in Seq(Stamped(Tails)) /\ Len(old) <= TailCap
    BY BoundsAssumption DEF IInv, TypeOK, AfterReset
  <2>2. tail \in Stamped(Tails) /\ tail.value = obs.tail
    BY <1>2, ObservationFields DEF Stamped
  <2> QED
    BY <2>1, <2>2
<1>9. /\ f \in Seq(EntryType) /\ Len(f) = Len(e) + 1 /\ f[Len(f)] = x /\ f # <<>>
      /\ Len(e) \in Nat /\ Promise!Alive(f[Len(f)])
  BY <1>3, <1>4, AppendFacts DEF Promise!Alive
<1>10. event = Promise!EventAt(f, Len(f))
  BY <1>3, <1>4, <1>9, EventIs, Zenon DEF Explained
<1> HIDE DEF e, x, f, life, longer, event, tail, old, history, last, before, idle, entered,
             cache, prev, drifted, new, logged
<1>11. Len(longer) = Len(life) + 1 /\ Len(longer) >= 1 /\ longer \in Seq(AliveEntry)
       /\ longer[Len(longer)] = x
  BY <1>7, GrownLength DEF Grown
\* Cache by cache.
<1>12. RingOf(longer, history)
  <2>1. RingOf(life, old)
    BY <1>5 DEF Found, old
  <2> QED
    BY <1>3, <1>7, <1>8, <2>1, RingStep DEF history
<1>13. history \in Seq(Stamped(Tails))
  BY <1>8, PushType DEF history
<1>14. idle = Promise!IdleAt(longer, Len(longer))
  BY <1>3, <1>11, <1>12, <1>13, StillnessIs DEF idle
<1>15. /\ IdleOf(longer, idle, entered)
       /\ entered = Promise!EnteredAt(longer)
       /\ last = IF Len(longer) = 1 THEN None ELSE Promise!IdleAt(longer, Len(longer) - 1)
  <2>1. \/ Len(life) = 0 /\ last = None /\ before = None
        \/ Len(life) > 0 /\ IdleOf(life, last, before)
    BY <1>5 DEF Found, last, before
  <2> QED
    BY <1>3, <1>7, <1>14, <2>1, IdleStep DEF entered
<1>16. /\ PressureOf(longer, UpdatedCache(cache, obs))
       /\ ShownPressure(cache, obs) = Promise!Pressure(longer)
  <2>1. \/ Len(life) = 0 /\ cache = EmptyCache
        \/ Len(life) > 0 /\ PressureOf(life, cache)
    BY <1>5 DEF Found, cache
  <2> QED
    BY <1>2, <1>3, <1>7, <2>1, PressureStep
<1>17. /\ DriftsOf(longer, Remembered(drifted, new))
       /\ new = Promise!NewDrifts(longer)
  <2>1. \/ Len(life) = 0 /\ prev = None
        \/ Len(life) > 0 /\ IdentityOf(life, prev)
    BY <1>5 DEF Found, prev
  <2>2. DriftsOf(life, drifted)
    BY <1>5 DEF Found, drifted
  <2> QED
    BY <1>3, <1>7, <2>1, <2>2, DriftStep DEF new
<1>18. IdentityOf(longer, [value |-> [provider |-> obs.provider, path |-> obs.path], at |-> tick])
  <2>1. [value |-> [provider |-> obs.provider, path |-> obs.path], at |-> tick]
           \in Stamped(Identity)
    BY <1>2, ObservationFields DEF Stamped, Identity
  <2> QED
    BY <1>3, <1>11, <2>1, AbsenceAssumption DEF IdentityOf
<1>19. CachesOf(p, Promise!Lifetime(log[p]))'
  <2>1. Promise!Lifetime(log'[p]) = longer
    BY <1>1 DEF longer
  <2> QED
    BY <1>1, <1>12, <1>15, <1>16, <1>17, <1>18, <2>1 DEF CachesOf
<1>20. ConflictLogged(p, event, obs.conflict) # None <=> obs.conflict
  <2>1. tick # None
    BY <1>2, AbsenceAssumption
  <2> QED
    BY <2>1 DEF ConflictLogged
<1>21. Promise!ConflictAt(x) <=> obs.conflict
  BY <1>3 DEF Promise!ConflictAt
<1>22. ConflictOf(log[p], identity_conflicts_logged[p])'
  <2>1. ConflictOf(f, ConflictLogged(p, event, obs.conflict))
    BY <1>3, <1>4, <1>20, <1>21, ConflictObserved DEF f
  <2> QED
    BY <1>1, <2>1
<1>23. Explained(p)'
  <2>1. s \in 1..(Len(f) + 1)
    BY <1>9
  <2> QED
    BY <1>1, <1>7, <1>9, <1>19, <1>22, <2>1 DEF Explained
<1>24. NewConflict(p, event, obs.conflict) <=> Promise!SuppressedAt(f, Len(f))
  <2>1. Promise!SuppressedAt(f, Len(f)) <=>
           obs.conflict /\ (event \in {"BecameDead", "Reappeared"}
                            \/ identity_conflicts_logged[p] = None)
    BY <1>3, <1>4, <1>9, <1>10, <1>21, SuppressedIs DEF Explained, e, f
  <2> QED
    BY <2>1 DEF NewConflict, AfterReset, Evicts
<1>25. /\ ObserveOnly(obs.provider) <=> Promise!ObserveOnlyAt(longer, Len(longer))
       /\ longer[Len(longer)].obs = obs
  BY <1>3, <1>11 DEF ObserveOnly, Promise!ObserveOnlyAt
<1>26. idle # None /\ idle # last /\ ~ObserveOnly(obs.provider) <=>
          /\ Promise!IdleAt(longer, Len(longer)) # None
          /\ \/ Len(longer) = 1
             \/ Promise!IdleAt(longer, Len(longer) - 1) # Promise!IdleAt(longer, Len(longer))
          /\ ~Promise!ObserveOnlyAt(longer, Len(longer))
  BY <1>14, <1>15, <1>25
<1>27. Promise!ReportOf(f) =
          [dead |-> FALSE, event |-> Promise!EventAt(f, Len(f)),
           suppressed |-> Promise!SuppressedAt(f, Len(f)),
           obs |-> longer[Len(longer)].obs, idle |-> Promise!IdleAt(longer, Len(longer)),
           entered_at |-> Promise!EnteredAt(longer), pressure |-> Promise!Pressure(longer),
           drifts |-> Promise!NewDrifts(longer),
           alerted |-> /\ Promise!IdleAt(longer, Len(longer)) # None
                       /\ \/ Len(longer) = 1
                          \/ Promise!IdleAt(longer, Len(longer) - 1)
                                # Promise!IdleAt(longer, Len(longer))
                       /\ ~Promise!ObserveOnlyAt(longer, Len(longer))]
  BY <1>9, Zenon DEF Promise!ReportOf, longer
<1>28. reports'[p] = Promise!ReportOf(log'[p])
  <2> DEFINE suppressed == NewConflict(p, event, obs.conflict)
             suppressedAt == Promise!SuppressedAt(f, Len(f))
             alerted == idle # None /\ idle # last /\ ~ObserveOnly(obs.provider)
             alertedAt == /\ Promise!IdleAt(longer, Len(longer)) # None
                          /\ \/ Len(longer) = 1
                             \/ Promise!IdleAt(longer, Len(longer) - 1)
                                   # Promise!IdleAt(longer, Len(longer))
                          /\ ~Promise!ObserveOnlyAt(longer, Len(longer))
  <2>1. suppressed = suppressedAt
    BY <1>24, Zenon DEF NewConflict, Promise!SuppressedAt
  <2>2. alerted = alertedAt
    BY <1>26, Zenon
  <2>3. /\ reports'[p] =
              [dead |-> FALSE, event |-> event, obs |-> obs, idle |-> idle,
               suppressed |-> suppressed, entered_at |-> entered,
               pressure |-> ShownPressure(cache, obs), drifts |-> new, alerted |-> alerted]
        /\ Promise!ReportOf(f) =
              [dead |-> FALSE, event |-> Promise!EventAt(f, Len(f)), suppressed |-> suppressedAt,
               obs |-> longer[Len(longer)].obs, idle |-> Promise!IdleAt(longer, Len(longer)),
               entered_at |-> Promise!EnteredAt(longer), pressure |-> Promise!Pressure(longer),
               drifts |-> Promise!NewDrifts(longer), alerted |-> alertedAt]
    BY <1>1, <1>27
  <2> HIDE DEF suppressed, suppressedAt, alerted, alertedAt
  <2> QED
    BY <1>1, <1>10, <1>14, <1>15, <1>16, <1>17, <1>25, <2>1, <2>2, <2>3
<1>29. Promise!ShowsPane(p)
  <2>1. Len(log'[p]) = Len(log[p]) + 1 /\ log'[p][Len(log'[p])] = x
    BY <1>1, <1>9 DEF e
  <2>2. SubSeq(log'[p], 1, Len(log[p])) = log[p]
    BY <1>1, <1>3, <1>4, AppendPrefix DEF e, f
  <2> QED
    BY <1>3, <1>28, <2>1, <2>2 DEF Promise!ShowsPane
<1> QED
  BY <1>23, <1>29

-----------------------------------------------------------------------------
(* The other steps *)

\* A poll of a dead pane ends its lifetime.
LEMMA DeadStep ==
    ASSUME IInv, HistoryInv, NEW p \in Panes, NEW conflict \in BOOLEAN,
           ObserveDead(p, conflict), LogNext
    PROVE  /\ Explained(p)'
           /\ Promise!ShowsPane(p)
<1> DEFINE e     == log[p]
           x     == [kind |-> "dead", at |-> tick, conflict |-> conflict]
           f     == Append(e, x)
           event == LifecycleEvent(seen[p], "dead")
           fresh == ConflictLogged(p, event, conflict)
<1>1. /\ pending[p] = "dead" /\ pending'[p] = "none" /\ seen'[p] = "dead"
      /\ identity_conflicts_logged'[p] = fresh
      /\ reports'[p] = [dead |-> TRUE, event |-> event,
                        suppressed |-> NewConflict(p, event, conflict)]
  BY DEF ObserveDead, IInv, TypeOK
<1>2. tick \in 1..MaxTicks /\ tick \in Nat /\ tick # None
  BY BoundsAssumption, AbsenceAssumption DEF ObserveDead, IInv, PollProgress, TypeOK
<1>3. fresh # None <=> conflict
  BY <1>2 DEF ConflictLogged
<1>4. log'[p] = f
  <2>1. log'[p] = Append(log[p], Entry(p))
    BY <1>1 DEF LogNext
  <2>2. Entry(p) = [kind |-> "dead", at |-> tick, conflict |-> fresh # None]
    BY <1>1 DEF Entry
  <2>3. (fresh # None) = conflict
    BY <1>3
  <2> QED
    BY <2>1, <2>2, <2>3
<1> HIDE DEF fresh
<1>5. /\ x \in EntryType /\ x.kind = "dead" /\ ~Promise!Alive(x)
      /\ Promise!ConflictAt(x) <=> conflict
  BY <1>2 DEF EntryType, Promise!Alive, Promise!ConflictAt
<1>6. Explained(p) /\ e \in Seq(EntryType) /\ seen[p] \in {"unseen", "alive", "dead"}
  BY DEF HistoryInv, IInv, TypeOK
<1> HIDE DEF x
<1>7. /\ f \in Seq(EntryType) /\ Len(f) = Len(e) + 1 /\ f[Len(f)] = x /\ f # <<>>
      /\ Len(e) \in Nat
  BY <1>5, <1>6, AppendFacts
<1>8. StartsAt(f, Len(e) + 2) /\ Len(e) + 2 \in 1..(Len(f) + 1)
  BY <1>5, <1>6, <1>7, AppendOther
<1>9. ConflictOf(f, fresh)
  BY <1>3, <1>5, <1>6, ConflictObserved
<1>10. Explained(p)'
  BY <1>1, <1>4, <1>5, <1>7, <1>8, <1>9 DEF Explained
<1>11. event = Promise!EventAt(f, Len(f))
  BY <1>5, <1>6, <1>7, EventIs, Zenon DEF Explained
<1>12. NewConflict(p, event, conflict) <=> Promise!SuppressedAt(f, Len(f))
  <2>1. ConflictOf(e, identity_conflicts_logged[p])
    BY <1>6 DEF Explained
  <2> HIDE DEF e, f, event
  <2>2. Promise!SuppressedAt(f, Len(f)) <=>
           conflict /\ (event \in {"BecameDead", "Reappeared"}
                        \/ identity_conflicts_logged[p] = None)
    BY <1>5, <1>6, <1>7, <1>11, <2>1, SuppressedIs DEF f
  <2> QED
    BY <2>2 DEF NewConflict, AfterReset, Evicts
<1>13. reports'[p] = Promise!ReportOf(f)
  <2> DEFINE suppressed == NewConflict(p, event, conflict)
             suppressedAt == Promise!SuppressedAt(f, Len(f))
  <2>1. suppressed = suppressedAt
    BY <1>12, Zenon DEF NewConflict, Promise!SuppressedAt
  <2>2. Promise!ReportOf(f) =
           [dead |-> TRUE, event |-> Promise!EventAt(f, Len(f)), suppressed |-> suppressedAt]
    BY <1>5, <1>7, Zenon DEF Promise!ReportOf
  <2> HIDE DEF suppressedAt
  <2> QED
    BY <1>1, <1>11, <2>1, <2>2
<1>14. SubSeq(f, 1, Len(e)) = e
  BY <1>5, <1>6, AppendPrefix
<1> QED
  BY <1>4, <1>5, <1>7, <1>10, <1>13, <1>14 DEF Promise!ShowsPane

\* What a step must leave alone for a pane to stay as it was explained.
Untouched(q) ==
    /\ log'[q] = log[q] /\ seen'[q] = seen[q] /\ tail_history'[q] = tail_history[q]
    /\ idle_transition'[q] = idle_transition[q] /\ idle_entered_at'[q] = idle_entered_at[q]
    /\ pressure_metric_cache'[q] = pressure_metric_cache[q]
    /\ identity_history'[q] = identity_history[q] /\ reported_drifts'[q] = reported_drifts[q]
    /\ identity_conflicts_logged'[q] = identity_conflicts_logged[q]

LEMMA ExplainedStays ==
    ASSUME NEW q \in Panes, Explained(q), Untouched(q),
           q \in known' /\ pending'[q] = "none" => seen[q] # "unseen"
    PROVE  Explained(q)'
<1>1. seen[q] = "alive" => CachesOf(q, Promise!Lifetime(log[q]))'
  <2> SUFFICES ASSUME seen[q] = "alive" PROVE CachesOf(q, Promise!Lifetime(log[q]))'
    OBVIOUS
  <2>1. CachesOf(q, Promise!Lifetime(log[q]))
    BY DEF Explained
  <2> QED
    BY <2>1 DEF CachesOf, Untouched
<1>2. ConflictOf(log[q], identity_conflicts_logged[q])'
  BY DEF Explained, Untouched
<1> QED
  BY <1>1, <1>2 DEF Explained, Untouched

\* The poll of one pane says nothing of another.
LEMMA OtherPane ==
    ASSUME IInv, HistoryInv, NEW p \in Panes, NEW q \in Panes, q # p,
           \/ \E conflict \in BOOLEAN : ObserveDead(p, conflict)
           \/ \E obs \in Observations : ObserveAlive(p, obs),
           LogNext
    PROVE  /\ Explained(q)'
           /\ Promise!ShowsPane(q)
<1>1. /\ seen'[q] = seen[q] /\ tail_history'[q] = tail_history[q]
      /\ idle_transition'[q] = idle_transition[q] /\ idle_entered_at'[q] = idle_entered_at[q]
      /\ pressure_metric_cache'[q] = pressure_metric_cache[q]
      /\ identity_history'[q] = identity_history[q] /\ reported_drifts'[q] = reported_drifts[q]
      /\ identity_conflicts_logged'[q] = identity_conflicts_logged[q]
      /\ pending'[q] = pending[q] /\ reports'[q] = reports[q] /\ known' = known
  <2>1. CASE \E conflict \in BOOLEAN : ObserveDead(p, conflict)
    BY <2>1 DEF ObserveDead, IInv, TypeOK
  <2>2. CASE \E obs \in Observations : ObserveAlive(p, obs)
    BY <2>2 DEF ObserveAlive, IInv, TypeOK
  <2> QED
    BY <2>1, <2>2
<1>2. log'[q] = log[q]
  BY <1>1 DEF LogNext, Vanished
<1>3. Untouched(q)
  BY <1>1, <1>2 DEF Untouched
<1>4. Explained(q) /\ (q \in known /\ pending[q] = "none" => seen[q] # "unseen")
  BY DEF HistoryInv, Explained
<1>5. Explained(q)'
  BY <1>1, <1>3, <1>4, ExplainedStays
<1> QED
  BY <1>1, <1>2, <1>5 DEF Promise!ShowsPane

\* A listing ends the lifetime of every pane it lacks, and reports nothing yet.
LEMMA ListStep ==
    ASSUME IInv, HistoryInv, NEW listed \in [Panes -> {"none", "alive", "dead"}],
           ListPanes(listed), LogNext, NEW q \in Panes
    PROVE  /\ Explained(q)'
           /\ Promise!ShowsPane(q)
<1>1. /\ pending[q] = "none" /\ pending'[q] = listed[q] /\ reports'[q] = None
      /\ q \in known' <=> listed[q] # "none"
      /\ seen'[q] = IF q \in known /\ listed[q] = "none" THEN Forgotten(seen[q]) ELSE seen[q]
      /\ tick' \in Nat
      /\ UNCHANGED cacheVars
  BY BoundsAssumption DEF ListPanes, Forget, IInv, PollProgress, TypeOK
<1>2. Explained(q) /\ (q \in known /\ pending[q] = "none" => seen[q] # "unseen")
  BY DEF HistoryInv, Explained
<1>3. log'[q] = IF Vanished(q) THEN Append(log[q], [kind |-> "missing", at |-> tick'])
                ELSE log[q]
  BY <1>1 DEF LogNext
<1>4. CASE ~Vanished(q)
  <2>1. log'[q] = log[q] /\ seen'[q] = seen[q]
    BY <1>1, <1>3, <1>4 DEF Vanished
  <2>2. Untouched(q)
    BY <1>1, <2>1 DEF Untouched, cacheVars
  <2>3. Explained(q)'
    BY <1>1, <1>2, <2>2, ExplainedStays
  <2> QED
    BY <1>1, <2>1, <2>3 DEF Promise!ShowsPane
<1>5. CASE Vanished(q)
  <2> DEFINE e == log[q]
             x == [kind |-> "missing", at |-> tick']
             f == Append(e, x)
  <2>1. /\ x \in EntryType /\ x.kind = "missing" /\ ~Promise!Alive(x)
    BY <1>1 DEF EntryType, Promise!Alive
  <2>2. log'[q] = f /\ seen'[q] = "dead" /\ q \notin known'
    <3>1. seen[q] # "unseen"
      BY <1>1, <1>2, <1>5 DEF Vanished
    <3> QED
      BY <1>1, <1>3, <1>5, <3>1 DEF Vanished, Forgotten
  <2>3. e \in Seq(EntryType)
    BY <1>2 DEF Explained
  <2> HIDE DEF x
  <2>4. /\ f \in Seq(EntryType) /\ Len(f) = Len(e) + 1 /\ f[Len(f)] = x /\ f # <<>>
        /\ Len(e) \in Nat
    BY <2>1, <2>3, AppendFacts
  <2>5. StartsAt(f, Len(e) + 2) /\ Len(e) + 2 \in 1..(Len(f) + 1)
    BY <2>1, <2>3, <2>4, AppendOther
  <2>6. ConflictOf(f, identity_conflicts_logged[q])
    BY <1>2, <2>1, <2>3, ConflictMissing DEF Explained
  <2>7. identity_conflicts_logged'[q] = identity_conflicts_logged[q]
    BY <1>1 DEF cacheVars
  <2>8. Explained(q)'
    BY <2>1, <2>2, <2>4, <2>5, <2>6, <2>7 DEF Explained
  <2>9. SubSeq(f, 1, Len(e)) = e
    BY <2>1, <2>3, AppendPrefix
  <2> QED
    BY <1>1, <2>1, <2>2, <2>4, <2>8, <2>9 DEF Promise!ShowsPane
<1> QED
  BY <1>4, <1>5

\* A failed listing and the end of a poll leave every pane and report alone.
LEMMA QuietStep ==
    ASSUME HistoryInv, NEW q \in Panes,
           UNCHANGED <<pending, seen, known, cacheVars, reports>>,
           log' = log \/ LogNext
    PROVE  /\ Explained(q)'
           /\ Promise!ShowsPane(q)
<1>1. log'[q] = log[q]
  BY DEF LogNext, Vanished
<1>2. Untouched(q)
  BY <1>1 DEF Untouched, cacheVars
<1>3. Explained(q) /\ (q \in known /\ pending[q] = "none" => seen[q] # "unseen")
  BY DEF HistoryInv, Explained
<1>4. Explained(q)'
  BY <1>2, <1>3, ExplainedStays
<1> QED
  BY <1>1, <1>4 DEF Promise!ShowsPane

-----------------------------------------------------------------------------
(* The refinement *)

LEMMA HistoryStart == HistoryInit => IInv /\ HistoryInv /\ Promise!Init
<1> SUFFICES ASSUME HistoryInit PROVE IInv /\ HistoryInv /\ Promise!Init
  OBVIOUS
<1>1. IInv
  BY InvInit DEF HistoryInit
<1>2. Promise!Init
  BY DEF HistoryInit, Init, Promise!Init
<1>3. ASSUME NEW p \in Panes PROVE Explained(p)
  <2>1. /\ log[p] = <<>> /\ seen[p] = "unseen" /\ idle_transition[p] = None
        /\ pressure_metric_cache[p] = EmptyCache /\ known = {}
        /\ identity_conflicts_logged[p] = None
    BY DEF HistoryInit, Init
  <2>2. StartsAt(<<>>, 1) /\ <<>> \in Seq(EntryType) /\ 1 \in 1..(Len(<<>>) + 1)
    BY DEF StartsAt
  <2>3. ConflictOf(<<>>, None)
    BY DEF ConflictOf
  <2> QED
    BY <2>1, <2>2, <2>3 DEF Explained
<1>4. log \in [Panes -> Seq(EntryType)]
  BY DEF HistoryInit
<1> QED
  BY <1>1, <1>2, <1>3, <1>4 DEF HistoryInv

LEMMA HistoryStep ==
    ASSUME IInv, HistoryInv, [HistoryNext]_<<vars, log>>
    PROVE  /\ IInv' /\ HistoryInv'
           /\ \A q \in Panes : Promise!ShowsPane(q)
<1>1. [Next]_vars
  BY DEF HistoryNext, Next
<1>2. IInv'
  BY <1>1, InvNext
<1>3. ASSUME NEW q \in Panes PROVE Explained(q)' /\ Promise!ShowsPane(q)
  <2>1. ASSUME NEW error \in Errors, ListFails(error), LogNext
        PROVE  Explained(q)' /\ Promise!ShowsPane(q)
    BY <2>1, QuietStep DEF ListFails
  <2>2. ASSUME NEW listed \in [Panes -> {"none", "alive", "dead"}], ListPanes(listed), LogNext
        PROVE  Explained(q)' /\ Promise!ShowsPane(q)
    BY <2>2, ListStep
  <2>3. ASSUME NEW p \in Panes, NEW conflict \in BOOLEAN, ObserveDead(p, conflict), LogNext
        PROVE  Explained(q)' /\ Promise!ShowsPane(q)
    <3>1. CASE q = p
      BY <2>3, <3>1, DeadStep
    <3>2. CASE q # p
      BY <2>3, <3>2, OtherPane
    <3> QED
      BY <3>1, <3>2
  <2>4. ASSUME NEW p \in Panes, NEW obs \in Observations, ObserveAlive(p, obs), LogNext
        PROVE  Explained(q)' /\ Promise!ShowsPane(q)
    <3>1. CASE q = p
      BY <2>4, <3>1, AliveStep
    <3>2. CASE q # p
      BY <2>4, <3>2, OtherPane
    <3> QED
      BY <3>1, <3>2
  <2>5. ASSUME EndPoll, LogNext PROVE Explained(q)' /\ Promise!ShowsPane(q)
    BY <2>5, QuietStep DEF EndPoll
  <2>6. CASE UNCHANGED <<vars, log>>
    BY <2>6, QuietStep DEF vars, loopVars
  <2> QED
    BY <2>1, <2>2, <2>3, <2>4, <2>5, <2>6 DEF HistoryNext
<1>4. log' \in [Panes -> Seq(EntryType)]
  <2>1. CASE UNCHANGED <<vars, log>>
    BY <2>1 DEF HistoryInv
  <2>2. CASE LogNext
    <3>1. log' = [q \in Panes |-> log'[q]]
      BY <2>2, Zenon DEF LogNext
    <3> QED
      BY <1>3, <3>1 DEF Explained
  <2> QED
    BY <2>1, <2>2 DEF HistoryNext
<1> QED
  BY <1>2, <1>3, <1>4 DEF HistoryInv

\* Every report of the loop is the one PaneReports computes from all that the
\* polls have shown: what the caches carry from poll to poll is enough, for any
\* observations, any number of panes and any capacity of the tail history.
THEOREM ReportsAreImplemented == HistorySpec => ImplementsPaneReports
<1>1. HistoryInit => (IInv /\ HistoryInv) /\ Promise!Init
  BY HistoryStart
<1>2. (IInv /\ HistoryInv) /\ [HistoryNext]_<<vars, log>> => (IInv /\ HistoryInv)'
  BY HistoryStep
<1>3. (IInv /\ HistoryInv) /\ [HistoryNext]_<<vars, log>>
         => [\A p \in Panes : Promise!ShowsPane(p)]_<<log, reports>>
  BY HistoryStep
<1> QED
  BY <1>1, <1>2, <1>3, PTL DEF HistorySpec, ImplementsPaneReports, Promise!Spec
=============================================================================
