---------------------------- MODULE AlertProofs ----------------------------
(***************************************************************************)
(* Proofs about what the operator is told, and how often: PaneAlerts (any  *)
(* panes, any times of the polls) and CostBudget (any panes, prices,       *)
(* budgets and bounds).                                                    *)
(***************************************************************************)
EXTENDS PaneAlerts, CostBudget, WellFoundedInduction, FiniteSetTheorems, TLAPS

(* PaneAlerts *)

\* The limiter remembers a notification of each pane and action that has one,
\* none later than it, and nothing of the future.
LimitsCoverNotifications ==
    \A p \in Panes, a \in Actions :
        /\ last[p][a] # None => last[p][a] <= now
        /\ \A n \in notified[p][a] : last[p][a] # None /\ n.at <= last[p][a]

\* The inductive invariant.
AlertsInv ==
    /\ TypeOK
    /\ LimitsCoverNotifications
    /\ NotificationsKeepTheirDistance

-----------------------------------------------------------------------------
(* Helpers *)

\* What the rules raise of a pane is a set of recommendations, at most one of
\* each action.
LEMMA RaisedType ==
    ASSUME NEW previous, NEW cause \in Causes \union {None}, NEW error \in BOOLEAN
    PROVE  LET advice == EvalAlerts(error) \union EvalIdleTransition(previous, cause)
           IN  /\ advice \in SUBSET Recommendation
               /\ \A r, s \in advice : r.action = s.action => r = s
<1>1. EvalAlerts(error) \in SUBSET {[action |-> "error-detected", severity |-> "Warning"]}
  BY DEF EvalAlerts
<1>2. EvalIdleTransition(previous, cause)
        \in SUBSET {[action |-> "pane-state", severity |-> SeverityFor(cause)]}
  BY DEF EvalIdleTransition
<1>3. EvalIdleTransition(previous, cause) # {}
        => SeverityFor(cause) \in {"Risk", "Warning", "Concern"}
  BY DEF EvalIdleTransition, SeverityFor, Causes
<1> QED
  BY <1>1, <1>2, <1>3 DEF Recommendation, Actions

\* The limiter's entries and the notifications carry times of polls.
LEMMA TimesAreNumbers ==
    ASSUME TypeOK, NEW p \in Panes, NEW a \in Actions
    PROVE  /\ last[p][a] \in Time \union {None}
           /\ notified[p][a] \in SUBSET [at : Time, severity : {"Risk", "Warning"}]
           /\ \A n \in notified[p][a] : n.at \in Nat
           /\ last[p][a] # None => last[p][a] \in Nat
<1>1. /\ last[p] \in [Actions -> Time \union {None}]
      /\ notified[p] \in [Actions -> SUBSET [at : Time, severity : {"Risk", "Warning"}]]
  BY DEF TypeOK
<1>2. /\ last[p][a] \in Time \union {None}
      /\ notified[p][a] \in SUBSET [at : Time, severity : {"Risk", "Warning"}]
  BY <1>1
<1>3. \A n \in notified[p][a] : n.at \in Nat
  BY <1>2, TimeAssumption
<1> QED
  BY <1>2, <1>3, TimeAssumption

-----------------------------------------------------------------------------
(* The invariant *)

\* A stay that a poll finds or begins is one.
LEMMA StayIsTyped ==
    ASSUME TypeOK, NEW q \in Panes, NEW observeOnly \in BOOLEAN,
           NEW cause \in Causes \union {None}, NEW advice
    PROVE  StayAfter(q, observeOnly, cause, advice)
             \in [cause : Causes \union {None}, hidden : BOOLEAN, told : Nat]
<1> DEFINE count == IF \E r \in advice : r.action = "pane-state" THEN 1 ELSE 0
<1>1. count \in Nat
  OBVIOUS
<1>2. stay[q] \in [cause : Causes \union {None}, hidden : BOOLEAN, told : Nat]
  BY DEF TypeOK
<1>3. StayAfter(q, observeOnly, cause, advice) =
          IF cause = None THEN NoStay
          ELSE IF seen[q] = "alive" /\ stay[q].cause = cause
               THEN [stay[q] EXCEPT !.told = @ + count]
          ELSE [cause |-> cause, hidden |-> observeOnly, told |-> count]
  BY DEF StayAfter
<1> HIDE DEF count
<1>4. NoStay \in [cause : Causes \union {None}, hidden : BOOLEAN, told : Nat]
  BY DEF NoStay
<1> QED
  BY <1>1, <1>2, <1>3, <1>4

LEMMA InitInv == Init => AlertsInv
<1> SUFFICES ASSUME Init PROVE AlertsInv
  OBVIOUS
<1>1. TypeOK
  BY TimeAssumption DEF Init, TypeOK, NoStay
<1>2. LimitsCoverNotifications
  BY DEF Init, LimitsCoverNotifications
<1>3. NotificationsKeepTheirDistance
  BY DEF Init, NotificationsKeepTheirDistance
<1> QED
  BY <1>1, <1>2, <1>3 DEF AlertsInv

\* Every urgent recommendation that a poll dispatches.
Effect(advice) == IF Permitted THEN {r \in advice : Urgent(r)} ELSE {}

\* A live pane: the only step that notifies.
LEMMA ObserveAliveInv ==
    ASSUME AlertsInv, NEW q \in Panes, NEW observeOnly \in BOOLEAN, NEW error \in BOOLEAN,
           NEW cause \in Causes \union {None}, ObserveAlive(q, observeOnly, cause, error)
    PROVE  AlertsInv'
<1> USE DEF Remembered
<1> DEFINE event    == LifecycleEvent(seen[q], "alive")
           previous == IF Evicts(event) THEN None ELSE idle_transition[q]
           advice   == IF observeOnly THEN {}
                       ELSE EvalAlerts(error) \union EvalIdleTransition(previous, cause)
           effect   == Effect(advice)
           new(a)   == {s \in Dispatched(last[q], effect) : s.action = a}
           shown(a) == {[at |-> now, severity |-> r.severity] : r \in new(a)}
<1>1. /\ seen' = [seen EXCEPT ![q] = "alive"]
      /\ idle_transition' = [idle_transition EXCEPT ![q] = cause]
      /\ polled' = polled \union {q}
      /\ recs' = [recs EXCEPT ![q] = advice]
      /\ last' = [last EXCEPT ![q] = LimitsAfter(last[q], effect)]
      /\ notified' = [notified EXCEPT ![q] = [a \in Actions |-> notified[q][a] \union shown(a)]]
      /\ stay' = [stay EXCEPT ![q] = StayAfter(q, observeOnly, cause, advice)]
      /\ UNCHANGED <<now, mode_observe_only, allow_auto_notifications>>
  BY DEF ObserveAlive, Effect, Limits
<1>2. /\ TypeOK /\ LimitsCoverNotifications /\ NotificationsKeepTheirDistance
      /\ now \in Time /\ now \in Nat /\ now # None
  BY TimeAssumption DEF AlertsInv, TypeOK
<1>3. /\ advice \in SUBSET Recommendation
      /\ \A r, s \in advice : r.action = s.action => r = s
  BY RaisedType
<1>4. effect \subseteq advice /\ \A r \in effect : r.severity \in {"Risk", "Warning"}
  BY DEF Effect, Urgent
<1> HIDE DEF advice, effect
<1>5. ASSUME NEW a \in Actions, NEW r \in new(a)
      PROVE  /\ r \in effect /\ r.action = a /\ ShouldFire(last[q], r)
             /\ LimitsAfter(last[q], effect)[a] = now
  BY <1>5 DEF Dispatched, LimitsAfter
<1>6. ASSUME NEW a \in Actions
      PROVE  LimitsAfter(last[q], effect)[a] \in {now, last[q][a]}
  BY DEF LimitsAfter
<1>7. TypeOK'
  <2>1. LimitsAfter(last[q], effect) \in [Actions -> Time \union {None}]
    BY <1>2 DEF LimitsAfter, TypeOK
  <2>2. \A a \in Actions :
           notified[q][a] \union shown(a) \in SUBSET [at : Time, severity : {"Risk", "Warning"}]
    BY <1>2, <1>4, <1>5 DEF TypeOK
  <2>3. notified' \in [Panes -> [Actions -> SUBSET [at : Time, severity : {"Risk", "Warning"}]]]
    BY <1>1, <1>2, <2>2 DEF TypeOK
  <2>4. last' \in [Panes -> [Actions -> Time \union {None}]]
    BY <1>1, <1>2, <2>1 DEF TypeOK
  <2>5. recs' \in [Panes -> SUBSET Recommendation]
    BY <1>1, <1>2, <1>3 DEF TypeOK
  <2>6. stay' \in [Panes -> [cause : Causes \union {None}, hidden : BOOLEAN, told : Nat]]
    <3>1. StayAfter(q, observeOnly, cause, advice)
            \in [cause : Causes \union {None}, hidden : BOOLEAN, told : Nat]
      BY <1>2, StayIsTyped
    <3> QED
      BY <1>1, <1>2, <3>1 DEF TypeOK
  <2> QED
    BY <1>1, <1>2, <2>3, <2>4, <2>5, <2>6 DEF TypeOK
<1>8. ASSUME NEW a \in Actions
      PROVE  /\ last'[q][a] = LimitsAfter(last[q], effect)[a]
             /\ notified'[q][a] = notified[q][a] \union shown(a)
  BY <1>1, <1>2 DEF TypeOK
<1>9. DOMAIN last = Panes /\ DOMAIN notified = Panes
  BY <1>2 DEF TypeOK
<1>10. ASSUME NEW p \in Panes, p # q
      PROVE  last'[p] = last[p] /\ notified'[p] = notified[p]
  BY <1>1, <1>9, <1>10
<1>11. LimitsCoverNotifications'
  <2> SUFFICES ASSUME NEW p \in Panes, NEW a \in Actions
               PROVE  /\ last'[p][a] # None => last'[p][a] <= now
                      /\ \A n \in notified'[p][a] : last'[p][a] # None /\ n.at <= last'[p][a]
    BY <1>1 DEF LimitsCoverNotifications
  <2>1. CASE p # q
    BY <1>2, <1>10, <2>1 DEF LimitsCoverNotifications
  <2>2. CASE p = q
    <3>1. last'[q][a] \in {now, last[q][a]}
      BY <1>6, <1>8
    <3>2. last'[q][a] # None => last'[q][a] <= now
      BY <1>2, <3>1 DEF LimitsCoverNotifications
    <3>3. ASSUME NEW n \in notified[q][a]
          PROVE  last'[q][a] # None /\ n.at <= last'[q][a]
      <4>1. last[q][a] # None /\ n.at <= last[q][a] /\ last[q][a] <= now
        BY <1>2 DEF LimitsCoverNotifications
      <4>2. n.at \in Nat /\ last[q][a] \in Nat
        BY <1>2, <4>1, TimesAreNumbers
      <4> QED
        BY <1>2, <3>1, <4>1, <4>2
    <3>4. ASSUME NEW n \in shown(a)
          PROVE  last'[q][a] # None /\ n.at <= last'[q][a]
      BY <1>2, <1>5, <1>8
    <3> QED
      BY <1>8, <2>2, <3>2, <3>3, <3>4
  <2> QED
    BY <2>1, <2>2
<1>12. NotificationsKeepTheirDistance'
  <2> SUFFICES ASSUME NEW p \in Panes, NEW a \in Actions,
                      NEW n \in notified'[p][a], NEW m \in notified'[p][a],
                      n # m, n.at <= m.at
               PROVE  m.at - n.at >= MinGap[m.severity]
    BY DEF NotificationsKeepTheirDistance
  <2>1. CASE p # q
    BY <1>2, <1>10, <2>1 DEF NotificationsKeepTheirDistance
  <2>2. CASE p = q /\ n \in notified[q][a] /\ m \in notified[q][a]
    BY <1>2, <2>2 DEF NotificationsKeepTheirDistance
  <2>3. ASSUME NEW o \in notified[q][a], NEW r \in new(a)
        PROVE  o.at \in Nat /\ now - o.at >= MinGap[r.severity] /\ MinGap[r.severity] > 0
    <3>1. /\ last[q][a] # None /\ o.at <= last[q][a]
          /\ o.at \in Nat /\ last[q][a] \in Nat
      BY <1>2, TimesAreNumbers DEF LimitsCoverNotifications
    <3>2. now - last[q][a] >= MinGap[r.severity]
      BY <1>5, <3>1 DEF ShouldFire
    <3>3. MinGap[r.severity] \in Nat /\ MinGap[r.severity] > 0
      BY <1>4, <1>5 DEF MinGap
    <3> QED
      BY <1>2, <3>1, <3>2, <3>3
  <2>4. CASE p = q /\ n \in notified[q][a] /\ m \in shown(a)
    BY <2>3, <2>4
  <2>5. CASE p = q /\ n \in shown(a) /\ m \in notified[q][a]
    <3>1. PICK r \in new(a) : n = [at |-> now, severity |-> r.severity]
      BY <2>5
    <3>2. m.at \in Nat /\ now - m.at > 0
      <4>1. m.at \in Nat /\ now - m.at >= MinGap[r.severity] /\ MinGap[r.severity] > 0
        BY <2>3, <2>5
      <4>2. MinGap[r.severity] \in Nat
        BY <1>4, <1>5 DEF MinGap
      <4> QED
        BY <1>2, <4>1, <4>2
    <3> QED
      BY <1>2, <3>1, <3>2
  <2>6. CASE p = q /\ n \in shown(a) /\ m \in shown(a)
    <3>1. PICK r \in new(a) : n = [at |-> now, severity |-> r.severity]
      BY <2>6
    <3>2. PICK s \in new(a) : m = [at |-> now, severity |-> s.severity]
      BY <2>6
    <3>3. r = s
      BY <1>3, <1>4, <1>5
    <3> QED
      BY <3>1, <3>2, <3>3
  <2> QED
    BY <1>8, <2>1, <2>2, <2>4, <2>5, <2>6
<1> QED
  BY <1>7, <1>11, <1>12 DEF AlertsInv

\* Steps that leave the limiter and the notifications alone, and the clock or
\* let it advance.
LEMMA QuietInv ==
    ASSUME AlertsInv, TypeOK', UNCHANGED <<last, notified>>, now' >= now
    PROVE  AlertsInv'
<1>1. LimitsCoverNotifications'
  <2> SUFFICES ASSUME NEW p \in Panes, NEW a \in Actions
               PROVE  /\ last[p][a] # None => last[p][a] <= now'
                      /\ \A n \in notified[p][a] : last[p][a] # None /\ n.at <= last[p][a]
    BY DEF LimitsCoverNotifications
  <2>1. /\ last[p][a] # None => last[p][a] <= now
        /\ \A n \in notified[p][a] : last[p][a] # None /\ n.at <= last[p][a]
    BY DEF AlertsInv, LimitsCoverNotifications
  <2>2. now \in Nat /\ now' \in Nat /\ (last[p][a] # None => last[p][a] \in Nat)
    <3>1. TypeOK
      BY DEF AlertsInv
    <3>2. now \in Nat /\ now' \in Nat
      BY <3>1, TimeAssumption DEF TypeOK
    <3> QED
      BY <3>1, <3>2, TimesAreNumbers
  <2> QED
    BY <2>1, <2>2
<1>2. NotificationsKeepTheirDistance'
  BY DEF AlertsInv, NotificationsKeepTheirDistance
<1> QED
  BY <1>1, <1>2 DEF AlertsInv

LEMMA NextInv == AlertsInv /\ [Next]_vars => AlertsInv'
<1> SUFFICES ASSUME AlertsInv, [Next]_vars PROVE AlertsInv'
  OBVIOUS
<1>0. now \in Nat
  BY TimeAssumption DEF AlertsInv, TypeOK
<1>1. ASSUME NEW p \in Panes, NEW observeOnly \in BOOLEAN, NEW error \in BOOLEAN,
             NEW cause \in Causes \union {None}, ObserveAlive(p, observeOnly, cause, error)
      PROVE  AlertsInv'
  BY <1>1, ObserveAliveInv
<1>2. ASSUME NEW p \in Panes, ObserveDead(p)
      PROVE  AlertsInv'
  <2>1. TypeOK'
    BY <1>2 DEF AlertsInv, TypeOK, ObserveDead, NoStay
  <2> QED
    BY <1>0, <1>2, <2>1, QuietInv DEF ObserveDead
<1>3. ASSUME NEW p \in Panes, Vanish(p)
      PROVE  AlertsInv'
  <2>1. TypeOK'
    BY <1>3 DEF AlertsInv, TypeOK, Vanish, Forgotten, NoStay
  <2> QED
    BY <1>0, <1>3, <2>1, QuietInv DEF Vanish
<1>4. ASSUME NEW t \in Time, NextPoll(t)
      PROVE  AlertsInv'
  <2>1. TypeOK'
    BY <1>4 DEF AlertsInv, TypeOK, NextPoll
  <2> QED
    BY <1>0, <1>4, <2>1, QuietInv, TimeAssumption DEF NextPoll
<1>5. CASE Configure
  <2>1. TypeOK'
    BY <1>5 DEF AlertsInv, TypeOK, Configure
  <2> QED
    BY <1>0, <1>5, <2>1, QuietInv DEF Configure
<1>6. CASE UNCHANGED vars
  <2>1. TypeOK'
    BY <1>6 DEF AlertsInv, TypeOK, vars
  <2> QED
    BY <1>0, <1>6, <2>1, QuietInv DEF vars
<1> QED
  BY <1>1, <1>2, <1>3, <1>4, <1>5, <1>6 DEF Next

-----------------------------------------------------------------------------
(* What a poll raises, and what of it is notified *)

\* Every entry of the limiter was set by a notification: without it, a limit
\* could hold back what nobody was told of.
LimitsAreNotifications ==
    \A p \in Panes, a \in Actions :
        last[p][a] # None => \E n \in notified[p][a] : n.at = last[p][a]

\* A poll that reaches a live pane.
LEMMA LimitsAfterAlive ==
    ASSUME AlertsInv, LimitsAreNotifications,
           NEW q \in Panes, NEW observeOnly \in BOOLEAN, NEW error \in BOOLEAN,
           NEW cause \in Causes \union {None}, ObserveAlive(q, observeOnly, cause, error)
    PROVE  /\ LimitsAreNotifications'
           /\ \A r \in recs'[q] : (Urgent(r) /\ Permitted) =>
                  \E n \in notified'[q][r.action] : now - n.at < MinGap[r.severity]
<1> DEFINE event    == LifecycleEvent(seen[q], "alive")
           previous == IF Evicts(event) THEN None ELSE idle_transition[q]
           advice   == IF observeOnly THEN {}
                       ELSE EvalAlerts(error) \union EvalIdleTransition(previous, cause)
           effect   == Effect(advice)
           new(a)   == {s \in Dispatched(last[q], effect) : s.action = a}
           shown(a) == {[at |-> now, severity |-> r.severity] : r \in new(a)}
<1>1. /\ recs' = [recs EXCEPT ![q] = advice]
      /\ last' = [last EXCEPT ![q] = LimitsAfter(last[q], effect)]
      /\ notified' = [notified EXCEPT ![q] = [a \in Actions |-> notified[q][a] \union shown(a)]]
  BY DEF ObserveAlive, Effect, Limits
<1>2. TypeOK /\ now \in Nat /\ now # None
  BY TimeAssumption DEF AlertsInv, TypeOK
<1>3. advice \in SUBSET Recommendation
  BY RaisedType
<1>4. \A r \in advice : (Urgent(r) /\ Permitted) => r \in effect
  BY DEF Effect
<1> HIDE DEF advice, effect
<1>5. /\ \A p \in Panes : p # q => last'[p] = last[p] /\ notified'[p] = notified[p]
      /\ recs'[q] = advice
      /\ \A a \in Actions : /\ last'[q][a] = LimitsAfter(last[q], effect)[a]
                            /\ notified'[q][a] = notified[q][a] \union shown(a)
  BY <1>1, <1>2 DEF TypeOK
<1>6. ASSUME NEW a \in Actions, NEW r \in effect, r.action = a, ShouldFire(last[q], r)
      PROVE  \E n \in notified'[q][a] : n.at = now
  <2>1. [at |-> now, severity |-> r.severity] \in shown(a)
    BY <1>6 DEF Dispatched
  <2> HIDE DEF shown
  <2>2. [at |-> now, severity |-> r.severity] \in notified'[q][a]
    BY <1>5, <2>1
  <2>3. [at |-> now, severity |-> r.severity].at = now
    OBVIOUS
  <2> QED
    BY <2>2, <2>3
<1>7. LimitsAreNotifications'
  <2> SUFFICES ASSUME NEW p \in Panes, NEW a \in Actions, last'[p][a] # None
               PROVE  \E n \in notified'[p][a] : n.at = last'[p][a]
    BY DEF LimitsAreNotifications
  <2>1. CASE p # q
    BY <1>5, <2>1 DEF LimitsAreNotifications
  <2>2. CASE p = q /\ \E r \in effect : r.action = a /\ ShouldFire(last[q], r)
    <3>1. last'[q][a] = now
      BY <1>5, <2>2 DEF LimitsAfter
    <3> QED
      BY <1>6, <2>2, <3>1
  <2>3. CASE p = q /\ ~\E r \in effect : r.action = a /\ ShouldFire(last[q], r)
    <3>1. last'[q][a] = last[q][a]
      BY <1>5, <2>3 DEF LimitsAfter
    <3> QED
      BY <1>5, <2>3, <3>1 DEF LimitsAreNotifications
  <2> QED
    BY <2>1, <2>2, <2>3
<1>8. ASSUME NEW r \in recs'[q], Urgent(r), Permitted
      PROVE  \E n \in notified'[q][r.action] : now - n.at < MinGap[r.severity]
  <2>1. r \in effect /\ r.action \in Actions /\ MinGap[r.severity] \in Nat \ {0}
    BY <1>3, <1>4, <1>5, <1>8 DEF Recommendation, MinGap
  <2>2. CASE ShouldFire(last[q], r)
    <3>1. PICK n \in notified'[q][r.action] : n.at = now
      BY <1>6, <2>1, <2>2
    <3>2. now - n.at = 0
      BY <1>2, <3>1
    <3> QED
      BY <2>1, <3>1, <3>2
  <2>3. CASE ~ShouldFire(last[q], r)
    <3>1. last[q][r.action] # None /\ ~(now - last[q][r.action] >= MinGap[r.severity])
      BY <2>3 DEF ShouldFire
    <3>2. PICK n \in notified[q][r.action] : n.at = last[q][r.action]
      BY <2>1, <3>1 DEF LimitsAreNotifications
    <3>3. n \in notified'[q][r.action]
      BY <1>5, <2>1, <3>2
    <3>4. n.at \in Nat
      BY <1>2, <2>1, <3>2, TimesAreNumbers
    <3>5. now - n.at < MinGap[r.severity]
      BY <1>2, <2>1, <3>1, <3>2, <3>4
    <3> QED
      BY <3>3, <3>5
  <2> QED
    BY <2>2, <2>3
<1> QED
  BY <1>7, <1>8

\* A pane that a step reaches was alive, dead or not listed.
LEMMA ReachedBy ==
    ASSUME TypeOK, [Next]_vars, NEW q \in Panes, q \notin polled, q \in polled'
    PROVE  \/ \E observeOnly, error \in BOOLEAN, cause \in Causes \union {None} :
                  ObserveAlive(q, observeOnly, cause, error)
           \/ recs'[q] = {}
<1>1. ASSUME NEW p \in Panes, NEW observeOnly \in BOOLEAN, NEW error \in BOOLEAN,
             NEW cause \in Causes \union {None}, ObserveAlive(p, observeOnly, cause, error)
      PROVE  p = q
  BY <1>1 DEF ObserveAlive
<1>2. ASSUME NEW p \in Panes, ObserveDead(p) \/ Vanish(p)
      PROVE  recs'[q] = {}
  BY <1>2 DEF ObserveDead, Vanish, TypeOK
<1>3. ~(\E t \in Time : NextPoll(t)) /\ ~Configure /\ ~UNCHANGED vars
  BY DEF NextPoll, Configure, vars
<1> QED
  BY <1>1, <1>2, <1>3 DEF Next

LEMMA LimitsAreNotificationsStep ==
    ASSUME AlertsInv, LimitsAreNotifications, [Next]_vars
    PROVE  LimitsAreNotifications'
<1>1. ASSUME NEW p \in Panes, NEW observeOnly \in BOOLEAN, NEW error \in BOOLEAN,
             NEW cause \in Causes \union {None}, ObserveAlive(p, observeOnly, cause, error)
      PROVE  LimitsAreNotifications'
  BY <1>1, LimitsAfterAlive
<1>2. CASE \/ \E p \in Panes : ObserveDead(p) \/ Vanish(p)
           \/ \E t \in Time : NextPoll(t)
           \/ Configure \/ UNCHANGED vars
  <2>1. UNCHANGED <<last, notified>>
    BY <1>2 DEF ObserveDead, Vanish, NextPoll, Configure, vars
  <2> QED
    BY <2>1 DEF LimitsAreNotifications
<1> QED
  BY <1>1, <1>2 DEF Next

-----------------------------------------------------------------------------
(* Stays in one idle cause *)

\* While a pane is alive the cause the next poll compares with is the one of its
\* stay; a pane that is not has no stay, and one never seen nothing to compare
\* with. A pane that died may keep a cause: the next lifetime drops it.
StaysAreFollowed ==
    \A p \in Panes :
        /\ seen[p] = "alive" => idle_transition[p] = stay[p].cause
        /\ seen[p] # "alive" => stay[p] = NoStay
        /\ seen[p] = "unseen" => idle_transition[p] = None

StaysInv == StaysAreFollowed /\ StaysAreRaisedOnce

\* A poll of a live pane raises the stay exactly when it begins it and evaluates
\* the rules.
LEMMA StayAfterAlive ==
    ASSUME TypeOK, StaysInv, NEW q \in Panes,
           NEW observeOnly \in BOOLEAN, NEW error \in BOOLEAN,
           NEW cause \in Causes \union {None}, ObserveAlive(q, observeOnly, cause, error)
    PROVE  StaysInv'
<1> DEFINE event    == LifecycleEvent(seen[q], "alive")
           previous == IF Evicts(event) THEN None ELSE idle_transition[q]
           advice   == IF observeOnly THEN {}
                       ELSE EvalAlerts(error) \union EvalIdleTransition(previous, cause)
           goesOn   == seen[q] = "alive" /\ stay[q].cause = cause
           raises   == \E r \in advice : r.action = "pane-state"
           count    == IF raises THEN 1 ELSE 0
<1>1. /\ seen' = [seen EXCEPT ![q] = "alive"]
      /\ idle_transition' = [idle_transition EXCEPT ![q] = cause]
      /\ stay' = [stay EXCEPT ![q] = StayAfter(q, observeOnly, cause, advice)]
  BY DEF ObserveAlive, Remembered
<1>2. /\ seen'[q] = "alive" /\ idle_transition'[q] = cause
      /\ stay'[q] = StayAfter(q, observeOnly, cause, advice)
      /\ \A p \in Panes \ {q} : /\ seen'[p] = seen[p] /\ stay'[p] = stay[p]
                                /\ idle_transition'[p] = idle_transition[p]
  BY <1>1 DEF TypeOK
<1>3. /\ stay[q] \in [cause : Causes \union {None}, hidden : BOOLEAN, told : Nat]
      /\ seen[q] \in {"unseen", "alive", "dead"}
  BY DEF TypeOK
<1>4. previous = IF seen[q] = "alive" THEN stay[q].cause ELSE None
  BY <1>3 DEF StaysInv, StaysAreFollowed, LifecycleEvent, Evicts
<1> HIDE DEF previous
<1>5. raises <=> (~observeOnly /\ cause # None /\ cause # previous)
  <2>1. \A r \in EvalAlerts(error) : r.action # "pane-state"
    BY DEF EvalAlerts
  <2>2. EvalIdleTransition(previous, cause)
          = IF cause = None \/ cause = previous THEN {}
            ELSE {[action |-> "pane-state", severity |-> SeverityFor(cause)]}
    BY DEF EvalIdleTransition
  <2>3. [action |-> "pane-state", severity |-> SeverityFor(cause)].action = "pane-state"
    OBVIOUS
  <2> QED
    BY <2>1, <2>2, <2>3
<1>6. StayAfter(q, observeOnly, cause, advice) =
          IF cause = None THEN NoStay
          ELSE IF goesOn THEN [stay[q] EXCEPT !.told = @ + count]
          ELSE [cause |-> cause, hidden |-> observeOnly, told |-> count]
  BY DEF StayAfter
<1> HIDE DEF advice, raises
<1>7. stay[q].told = IF stay[q].cause = None \/ stay[q].hidden THEN 0 ELSE 1
  BY DEF StaysInv, StaysAreRaisedOnce
<1>8. /\ stay'[q].cause = cause
      /\ stay'[q].told = IF stay'[q].cause = None \/ stay'[q].hidden THEN 0 ELSE 1
  <2>1. CASE cause = None
    BY <1>2, <1>6, <2>1 DEF NoStay
  <2>2. CASE cause # None /\ goesOn
    <3>1. count = 0
      BY <1>4, <1>5, <2>2
    <3>2. stay'[q] = [stay[q] EXCEPT !.told = @ + 0]
      BY <1>2, <1>6, <2>2, <3>1
    <3>3. /\ stay'[q].cause = stay[q].cause /\ stay'[q].hidden = stay[q].hidden
          /\ stay'[q].told = stay[q].told
      BY <1>3, <3>2
    <3> QED
      BY <1>7, <2>2, <3>3
  <2>3. CASE cause # None /\ ~goesOn
    <3>1. cause # previous
      BY <1>4, <2>3
    <3>2. stay'[q] = [cause |-> cause, hidden |-> observeOnly, told |-> count]
      BY <1>2, <1>6, <2>3
    <3> QED
      BY <1>5, <2>3, <3>1, <3>2
  <2> QED
    BY <2>1, <2>2, <2>3
<1>9. StaysAreFollowed'
  BY <1>2, <1>8 DEF StaysInv, StaysAreFollowed, NoStay
<1>10. StaysAreRaisedOnce'
  BY <1>2, <1>8 DEF StaysInv, StaysAreRaisedOnce
<1> QED
  BY <1>9, <1>10 DEF StaysInv

LEMMA StaysInvStep ==
    ASSUME TypeOK, StaysInv, [Next]_vars
    PROVE  StaysInv'
<1>1. ASSUME NEW p \in Panes, NEW observeOnly \in BOOLEAN, NEW error \in BOOLEAN,
             NEW cause \in Causes \union {None}, ObserveAlive(p, observeOnly, cause, error)
      PROVE  StaysInv'
  BY <1>1, StayAfterAlive
<1>2. ASSUME NEW q \in Panes, ObserveDead(q)
      PROVE  StaysInv'
  <2>1. /\ \A p \in Panes \ {q} : /\ seen'[p] = seen[p] /\ stay'[p] = stay[p]
                                 /\ idle_transition'[p] = idle_transition[p]
        /\ seen'[q] = "dead" /\ stay'[q] = NoStay
    BY <1>2 DEF ObserveDead, TypeOK
  <2>2. NoStay.cause = None /\ NoStay.told = 0
    BY DEF NoStay
  <2>3. StaysAreFollowed'
    BY <2>1 DEF StaysInv, StaysAreFollowed, NoStay
  <2>4. StaysAreRaisedOnce'
    BY <2>1, <2>2 DEF StaysInv, StaysAreRaisedOnce
  <2> QED
    BY <2>3, <2>4 DEF StaysInv
<1>3. ASSUME NEW q \in Panes, Vanish(q)
      PROVE  StaysInv'
  <2>1. /\ \A p \in Panes \ {q} : /\ seen'[p] = seen[p] /\ stay'[p] = stay[p]
        /\ seen'[q] = Forgotten(seen[q]) /\ stay'[q] = NoStay
        /\ idle_transition' = idle_transition
    BY <1>3 DEF Vanish, TypeOK
  <2>2. seen'[q] # "alive" /\ (seen'[q] = "unseen" => seen[q] = "unseen")
    BY <2>1 DEF Forgotten
  <2>3. NoStay.cause = None /\ NoStay.told = 0
    BY DEF NoStay
  <2>4. StaysAreFollowed'
    BY <2>1, <2>2 DEF StaysInv, StaysAreFollowed, NoStay
  <2>5. StaysAreRaisedOnce'
    BY <2>1, <2>3 DEF StaysInv, StaysAreRaisedOnce
  <2> QED
    BY <2>4, <2>5 DEF StaysInv
<1>4. CASE (\E t \in Time : NextPoll(t)) \/ Configure \/ UNCHANGED vars
  <2>1. UNCHANGED <<seen, idle_transition, stay>>
    BY <1>4 DEF NextPoll, Configure, vars
  <2> QED
    BY <2>1 DEF StaysInv, StaysAreFollowed, StaysAreRaisedOnce
<1> QED
  BY <1>1, <1>2, <1>3, <1>4 DEF Next

-----------------------------------------------------------------------------
(* Theorems *)

\* The inductive invariant holds in every reachable state.
THEOREM AlertsInvariance == Spec => []AlertsInv
<1> QED
  BY InitInv, NextInv, PTL DEF Spec

\* However a pane flaps between states, errors and lifetimes, whatever the
\* settings and whenever the polls take place, two notifications of one action
\* on one pane keep the distance of the later one's severity.
THEOREM DistanceKept == Spec => []NotificationsKeepTheirDistance
<1>1. AlertsInv => NotificationsKeepTheirDistance
  BY DEF AlertsInv
<1> QED
  BY <1>1, AlertsInvariance, PTL

\* What a permitted poll raises as urgent is notified, or was notified within
\* its gap: the limiter only ever delays a repetition (UrgentIsNeverStarved).
THEOREM NothingIsStarved == Spec => UrgentIsNeverStarved
<1> DEFINE Served(p) == \A r \in recs'[p] :
               (p \notin polled /\ p \in polled' /\ Urgent(r) /\ Permitted) =>
                   \E n \in notified'[p][r.action] : now - n.at < MinGap[r.severity]
<1>1. Init => LimitsAreNotifications
  BY DEF Init, LimitsAreNotifications
<1>2. AlertsInv /\ LimitsAreNotifications /\ [Next]_vars => LimitsAreNotifications'
  BY LimitsAreNotificationsStep
<1>3. AlertsInv /\ LimitsAreNotifications /\ [Next]_vars => \A p \in Panes : Served(p)
  <2> SUFFICES ASSUME AlertsInv, LimitsAreNotifications, [Next]_vars, NEW p \in Panes,
                      p \notin polled, p \in polled'
               PROVE  Served(p)
    OBVIOUS
  <2>1. TypeOK
    BY DEF AlertsInv
  <2>2. CASE recs'[p] = {}
    BY <2>2
  <2>3. ASSUME NEW observeOnly \in BOOLEAN, NEW error \in BOOLEAN,
               NEW cause \in Causes \union {None}, ObserveAlive(p, observeOnly, cause, error)
        PROVE  Served(p)
    BY <2>3, LimitsAfterAlive
  <2> QED
    BY <2>1, <2>2, <2>3, ReachedBy
<1> QED
  BY <1>1, <1>2, <1>3, AlertsInvariance, PTL DEF Spec, UrgentIsNeverStarved

\* However many polls it lasts, and whatever fails, dies, is re-used or is
\* configured meanwhile, a stay in one idle cause has been raised exactly once,
\* and never when the poll that entered it only observed (StaysAreRaisedOnce).
THEOREM StayIsRaisedOnce == Spec => []StaysAreRaisedOnce
<1>1. Init => StaysInv
  BY DEF Init, StaysInv, StaysAreFollowed, StaysAreRaisedOnce, NoStay
<1>2. AlertsInv /\ StaysInv /\ [Next]_vars => StaysInv'
  BY StaysInvStep DEF AlertsInv
<1>3. StaysInv => StaysAreRaisedOnce
  BY DEF StaysInv
<1> QED
  BY <1>1, <1>2, <1>3, AlertsInvariance, PTL DEF Spec

-----------------------------------------------------------------------------
(* CostBudget *)

\* Only what was claimed in this poll is in memory, and it was not told before.
RaisedIsNew ==
    /\ \A c \in raised : c \in claims /\ (c \in Claims => told[c] = 0)
    /\ step = "observe" => raised = {}

\* Whatever was told has its claim on the disk.
ToldIsClaimed == \A c \in Claims : told[c] > 0 => c \in claims

AlertInv ==
    /\ told \in [Claims -> Nat]
    /\ step \in {"observe", "report"}
    /\ RaisedIsNew
    /\ ToldIsClaimed
    /\ EachAlertOnce

-----------------------------------------------------------------------------

LEMMA AlertInvInit == LedgerInit => AlertInv
  BY DEF LedgerInit, AlertInv, RaisedIsNew, ToldIsClaimed, EachAlertOnce

\* What a poll claims is new, so it was not told.
LEMMA ObserveIsNew ==
    ASSUME AlertInv, NEW new, claims' = claims \union new, new \cap claims = {},
           raised' = new \/ raised' = {}, raised' # {} => step' = "report",
           step' \in {"observe", "report"}, UNCHANGED told
    PROVE  AlertInv'
<1>. USE DEF AlertInv
<1>1. ToldIsClaimed'
  BY DEF ToldIsClaimed
<1>2. \A c \in new : c \in Claims => told[c] = 0
  BY DEF ToldIsClaimed
<1>3. RaisedIsNew'
  BY <1>2 DEF RaisedIsNew
<1>. QED BY <1>1, <1>3 DEF EachAlertOnce

LEMMA AlertInvStep == AlertInv /\ [LedgerNext]_ledgerVars => AlertInv'
<1>. SUFFICES ASSUME AlertInv, [LedgerNext]_ledgerVars PROVE AlertInv'
  OBVIOUS
<1>. USE DEF AlertInv
<1>1. ASSUME NEW p \in CostPanes, Work(p) PROVE AlertInv'
  BY <1>1 DEF Work, RaisedIsNew, ToldIsClaimed, EachAlertOnce
<1>2. ASSUME NEW p \in CostPanes, NEW r \in Rates, NewSession(p, r) \/ SwitchModel(p, r)
      PROVE  AlertInv'
  BY <1>2 DEF NewSession, SwitchModel, RaisedIsNew, ToldIsClaimed, EachAlertOnce
<1>3. ASSUME NEW p \in CostPanes, NEW recorded \in BOOLEAN, NEW failed \in BOOLEAN,
             NEW done \in {{}, {8000}}, Observe(p, recorded, failed, done)
      PROVE  AlertInv'
  <2>. DEFINE ledger == IF recorded THEN [rows EXCEPT ![p] = RecordObservation(@, Reading(p))]
                                    ELSE rows
              new == {c \in Due(TotalSpent(ledger)) \ claims : ~failed \/ c[1] \in done}
  <2>1. /\ claims' = claims \union new
        /\ step' = IF failed THEN "observe" ELSE "report"
        /\ raised' = IF failed THEN {} ELSE new
        /\ UNCHANGED told
    BY <1>3 DEF Observe
  <2>2. new \cap claims = {}
    OBVIOUS
  <2>. HIDE DEF new
  <2>. QED BY <2>1, <2>2, ObserveIsNew
<1>4. CASE Report
  <2>1. /\ step = "report" /\ step' = "observe" /\ raised' = {} /\ claims' = claims
        /\ told' = [c \in Claims |-> IF c \in raised THEN told[c] + 1 ELSE told[c]]
    BY <1>4 DEF Report
  <2>2. told' \in [Claims -> Nat]
    BY <2>1
  <2>3. \A c \in Claims : told'[c] = IF c \in raised THEN 1 ELSE told[c]
    BY <2>1 DEF RaisedIsNew
  <2>4. ToldIsClaimed' /\ EachAlertOnce'
    BY <2>1, <2>3 DEF RaisedIsNew, ToldIsClaimed, EachAlertOnce
  <2>5. RaisedIsNew'
    BY <2>1 DEF RaisedIsNew
  <2>. QED BY <2>1, <2>2, <2>4, <2>5
<1>5. ASSUME NEW swept \in BOOLEAN, Restart(swept) PROVE AlertInv'
  BY <1>5 DEF Restart, ClaimsAfterRestart, RaisedIsNew, ToldIsClaimed, EachAlertOnce
<1>6. CASE NextDay
  BY <1>6 DEF NextDay, RaisedIsNew, ToldIsClaimed, EachAlertOnce
<1>7. CASE UNCHANGED ledgerVars
  BY <1>7 DEF ledgerVars, RaisedIsNew, ToldIsClaimed, EachAlertOnce
<1>. QED BY <1>1, <1>2, <1>3, <1>4, <1>5, <1>6, <1>7 DEF LedgerNext

-----------------------------------------------------------------------------

\* An alert of one budget is reported at most once, over restarts, failing
\* statements and pruned rows (EachAlertOnce; claim_budget_alerts).
THEOREM ToldAtMostOnce == LedgerSpec => []EachAlertOnce
<1>1. AlertInv => EachAlertOnce
  BY DEF AlertInv
<1>. QED BY <1>1, AlertInvInit, AlertInvStep, PTL DEF LedgerSpec

-----------------------------------------------------------------------------
(* Induction and recursion on numbers *)

LEMMA LeastNatural ==
    ASSUME NEW T \in SUBSET Nat, T # {}
    PROVE  \E n \in T : \A m \in T : n <= m
<1> DEFINE less == {ss \in Nat \X Nat : ss[1] < ss[2]}
<1>1. IsWellFoundedOn(less, Nat)
  BY NatLessThanWellFounded, Zenon DEF OpToRel
<1>2. \A n, m \in Nat : m < n => <<m, n>> \in less
  OBVIOUS
<1> HIDE DEF less
<1>3. PICK n \in T : \A m \in T : <<m, n>> \notin less
  BY <1>1, WFMin
<1>4. \A m \in T : ~(m < n)
  BY <1>2, <1>3
<1> QED
  BY <1>4

\* A set of numbers that has 0, and with every number the next, has them all.
LEMMA UpTo ==
    ASSUME NEW n \in Nat, NEW S, 0 \in S, \A i \in 1..n : i - 1 \in S => i \in S
    PROVE  \A i \in 0..n : i \in S
<1> DEFINE T == {i \in 0..n : i \notin S}
<1>1. SUFFICES ASSUME T # {} PROVE FALSE
  OBVIOUS
<1>2. T \in SUBSET Nat
  OBVIOUS
<1>3. PICK i \in T : \A m \in T : i <= m
  <2> HIDE DEF T
  <2> QED
    BY <1>1, <1>2, LeastNatural
<1>4. i \in 1..n /\ i - 1 \in 0..n
  BY <1>3
<1>5. i - 1 \in S
  BY <1>3, <1>4
<1> QED
  BY <1>3, <1>4, <1>5

\* g has the value first, and a rule takes each value to the next.
Follows(g, n, first, rule) ==
    g[0] = first /\ \A i \in 1..n : g[i] = rule[<<i, g[i - 1]>>]

LEMMA RecursionExists ==
    ASSUME NEW V, NEW first \in V, NEW n \in Nat, NEW rule \in [(1..n) \X V -> V]
    PROVE  \E g \in [0..n -> V] : Follows(g, n, first, rule)
<1> DEFINE S == {m \in 0..n : \E g \in [0..m -> V] : Follows(g, m, first, rule)}
<1>1. 0 \in S
  <2>1. [i \in 0..0 |-> first] \in [0..0 -> V] /\ Follows([i \in 0..0 |-> first], 0, first, rule)
    BY DEF Follows
  <2> QED
    BY <2>1
<1>2. ASSUME NEW m \in 1..n, m - 1 \in S PROVE m \in S
  <2>1. PICK g \in [0..(m - 1) -> V] : Follows(g, m - 1, first, rule)
    BY <1>2
  <2> DEFINE h == [i \in 0..m |-> IF i = m THEN rule[<<m, g[m - 1]>>] ELSE g[i]]
  <2>2. g[m - 1] \in V
    BY <2>1
  <2>3. rule[<<m, g[m - 1]>>] \in V
    BY <2>2
  <2>4. h \in [0..m -> V]
    BY <2>1, <2>3
  <2>5. h[0] = first
    BY <2>1 DEF Follows
  <2>6. ASSUME NEW i \in 1..m PROVE h[i] = rule[<<i, h[i - 1]>>]
    <3>1. i - 1 \in 0..(m - 1) /\ h[i - 1] = g[i - 1]
      OBVIOUS
    <3>2. CASE i = m
      <4>1. m \in 0..m /\ h[m] = rule[<<m, g[m - 1]>>]
        OBVIOUS
      <4> HIDE DEF h
      <4> QED
        BY <3>1, <3>2, <4>1
    <3>3. CASE i # m
      <4>1. i \in 1..(m - 1) /\ h[i] = g[i]
        BY <3>3
      <4> QED
        BY <2>1, <3>1, <4>1 DEF Follows
    <3> QED
      BY <3>2, <3>3
  <2>7. Follows(h, m, first, rule)
    BY <2>5, <2>6 DEF Follows
  <2> HIDE DEF h
  <2> QED
    BY <2>4, <2>7
<1> HIDE DEF S
<1>3. n \in S
  BY <1>1, <1>2, UpTo
<1> QED
  BY <1>3 DEF S

-----------------------------------------------------------------------------
(* Sums of the deltas of a pane *)

\* The sum of the first i deltas, for each i up to n.
Sums(g, rs, n) == g[0] = 0 /\ \A i \in 1..n : g[i] = g[i - 1] + rs[i].delta

LEMMA RowFields ==
    ASSUME NEW rs \in Seq(Row), NEW i \in 1..Len(rs)
    PROVE  /\ rs[i] \in Row /\ rs[i].day \in Nat /\ rs[i].delta \in Nat /\ rs[i].cum \in Nat
<1>1. rs[i] \in Row
  OBVIOUS
<1> QED
  BY <1>1, CostAssumption, SMTT(30) DEF Row

LEMMA SumsExist ==
    ASSUME NEW rs \in Seq(Row)
    PROVE  \E g \in [0..Len(rs) -> Nat] : Sums(g, rs, Len(rs))
<1> DEFINE n == Len(rs)
           rule == [x \in (1..n) \X Nat |-> x[2] + rs[x[1]].delta]
<1>1. n \in Nat
  OBVIOUS
<1>2. rule \in [(1..n) \X Nat -> Nat]
  BY RowFields
<1>3. \A i \in 1..n, v \in Nat : rule[<<i, v>>] = v + rs[i].delta
  OBVIOUS
<1> HIDE DEF rule, n
<1>4. PICK g \in [0..n -> Nat] : Follows(g, n, 0, rule)
  BY <1>1, <1>2, RecursionExists
<1>5. \A i \in 1..n : g[i] = g[i - 1] + rs[i].delta
  <2> SUFFICES ASSUME NEW i \in 1..n PROVE g[i] = g[i - 1] + rs[i].delta
    OBVIOUS
  <2>1. g[i - 1] \in Nat
    BY <1>1, <1>4
  <2> QED
    BY <1>3, <1>4, <2>1 DEF Follows
<1>6. Sums(g, rs, n)
  BY <1>4, <1>5 DEF Sums, Follows
<1> QED
  BY <1>6 DEF n

\* The deltas determine the sums.
LEMMA SumsAreUnique ==
    ASSUME NEW n \in Nat, NEW rs, NEW qs, \A i \in 1..n : rs[i].delta = qs[i].delta,
           NEW g, NEW h, Sums(g, rs, n), Sums(h, qs, n)
    PROVE  \A i \in 0..n : g[i] = h[i]
<1> DEFINE S == {i \in 0..n : g[i] = h[i]}
<1>1. 0 \in S
  BY DEF Sums
<1>2. ASSUME NEW i \in 1..n, i - 1 \in S PROVE i \in S
  BY <1>2 DEF Sums
<1> HIDE DEF S
<1>3. \A i \in 0..n : i \in S
  BY <1>1, <1>2, UpTo
<1> QED
  BY <1>3 DEF S

\* Counted is the last of them.
LEMMA CountedIs ==
    ASSUME NEW rs \in Seq(Row), NEW h, Sums(h, rs, Len(rs))
    PROVE  Counted(rs) = h[Len(rs)]
<1> DEFINE n == Len(rs)
           Body(g) == [i \in 0..n |-> IF i = 0 THEN 0 ELSE g[i - 1] + rs[i].delta]
           sum == CHOOSE g : g = Body(g)
<1>1. Counted(rs) = sum[n]
  BY DEF Counted
<1>2. n \in Nat
  OBVIOUS
<1>3. PICK g \in [0..n -> Nat] : Sums(g, rs, n)
  BY SumsExist
<1>4. g = Body(g)
  BY <1>3 DEF Sums
<1>5. sum = Body(sum)
  BY <1>4
<1> HIDE DEF sum
<1>6. Sums(sum, rs, n)
  <2>1. \A i \in 0..n : sum[i] = IF i = 0 THEN 0 ELSE sum[i - 1] + rs[i].delta
    BY <1>5
  <2> QED
    BY <1>2, <2>1 DEF Sums
<1>7. sum[n] = h[n]
  BY <1>2, <1>6, SumsAreUnique
<1> QED
  BY <1>1, <1>7

\* No row counts for nothing.
LEMMA CountedEmpty == Counted(<<>>) = 0
<1> DEFINE g == [i \in 0..0 |-> 0]
<1>1. <<>> \in Seq(Row) /\ Len(<<>>) = 0
  OBVIOUS
<1>2. Sums(g, <<>>, 0)
  BY DEF Sums
<1> QED
  BY <1>1, <1>2, CountedIs

LEMMA AppendRow ==
    ASSUME NEW rs \in Seq(Row), NEW r \in Row
    PROVE  /\ Append(rs, r) \in Seq(Row) /\ Len(rs) \in Nat
           /\ Len(Append(rs, r)) = Len(rs) + 1 /\ Append(rs, r)[Len(rs) + 1] = r
           /\ \A i \in 1..Len(rs) : Append(rs, r)[i] = rs[i]
           /\ Append(rs, r) # <<>>
OBVIOUS

\* One more row counts for its delta.
LEMMA CountedAppend ==
    ASSUME NEW rs \in Seq(Row), NEW r \in Row
    PROVE  /\ Counted(rs) \in Nat
           /\ Counted(Append(rs, r)) = Counted(rs) + r.delta
<1> DEFINE n == Len(rs)
           qs == Append(rs, r)
<1>1. n \in Nat /\ qs \in Seq(Row) /\ Len(qs) = n + 1 /\ qs[n + 1] = r
      /\ \A i \in 1..n : qs[i] = rs[i]
  BY AppendRow
<1>2. PICK g \in [0..n -> Nat] : Sums(g, rs, n)
  BY SumsExist
<1>3. PICK h \in [0..Len(qs) -> Nat] : Sums(h, qs, Len(qs))
  BY <1>1, SumsExist
<1>4. Counted(rs) = g[n] /\ Counted(qs) = h[n + 1]
  BY <1>1, <1>2, <1>3, CountedIs
<1> HIDE DEF n, qs
<1>5. Sums(h, rs, n)
  <2>1. \A i \in 1..n : h[i] = h[i - 1] + rs[i].delta
    <3> SUFFICES ASSUME NEW i \in 1..n PROVE h[i] = h[i - 1] + rs[i].delta
      OBVIOUS
    <3>1. i \in 1..Len(qs) /\ qs[i] = rs[i]
      BY <1>1
    <3> QED
      BY <1>3, <3>1 DEF Sums
  <2> QED
    BY <1>3, <2>1 DEF Sums
<1>6. h[n] = g[n]
  BY <1>1, <1>2, <1>5, SumsAreUnique, SMTT(30)
<1>7. h[n + 1] = h[n] + r.delta
  <2>1. n + 1 \in 1..Len(qs) /\ (n + 1) - 1 = n
    BY <1>1
  <2> QED
    BY <1>1, <1>3, <2>1 DEF Sums
<1>8. g[n] \in Nat
  BY <1>1, <1>2
<1> QED
  BY <1>4, <1>6, <1>7, <1>8 DEF qs

-----------------------------------------------------------------------------
(* Pruning *)

Ascending(rs) == \A i \in 1..Len(rs) : i > 1 => rs[i - 1].day <= rs[i].day

\* Whether row i of rs is in the retention window.
Retained(rs, i) == rs[i].day + RetentionDays > day

\* What the first rows leave, for each i up to n.
Keeps(g, rs, n) ==
    /\ g[0] = <<>>
    /\ \A i \in 1..n : g[i] = IF Retained(rs, i) THEN Append(g[i - 1], rs[i]) ELSE g[i - 1]

LEMMA KeepsExist ==
    ASSUME NEW rs \in Seq(Row)
    PROVE  \E g \in [0..Len(rs) -> Seq(Row)] : Keeps(g, rs, Len(rs))
<1> DEFINE n == Len(rs)
           rule == [x \in (1..n) \X Seq(Row) |->
                      IF Retained(rs, x[1]) THEN Append(x[2], rs[x[1]]) ELSE x[2]]
<1>1. n \in Nat /\ <<>> \in Seq(Row)
  OBVIOUS
<1>2. rule \in [(1..n) \X Seq(Row) -> Seq(Row)]
  <2> SUFFICES ASSUME NEW x \in (1..n) \X Seq(Row)
               PROVE  (IF Retained(rs, x[1]) THEN Append(x[2], rs[x[1]]) ELSE x[2]) \in Seq(Row)
    OBVIOUS
  <2>1. rs[x[1]] \in Row /\ x[2] \in Seq(Row)
    BY RowFields
  <2> QED
    BY <2>1
<1>3. \A i \in 1..n, v \in Seq(Row) :
         rule[<<i, v>>] = IF Retained(rs, i) THEN Append(v, rs[i]) ELSE v
  OBVIOUS
<1> HIDE DEF rule, n
<1>4. PICK g \in [0..n -> Seq(Row)] : Follows(g, n, <<>>, rule)
  BY <1>1, <1>2, RecursionExists
<1>5. \A i \in 1..n : g[i] = IF Retained(rs, i) THEN Append(g[i - 1], rs[i]) ELSE g[i - 1]
  <2> SUFFICES ASSUME NEW i \in 1..n
               PROVE  g[i] = IF Retained(rs, i) THEN Append(g[i - 1], rs[i]) ELSE g[i - 1]
    OBVIOUS
  <2>1. g[i - 1] \in Seq(Row)
    BY <1>1, <1>4
  <2> QED
    BY <1>3, <1>4, <2>1 DEF Follows
<1>6. Keeps(g, rs, n)
  BY <1>4, <1>5 DEF Keeps, Follows
<1> QED
  BY <1>6 DEF n

LEMMA PrunedIs ==
    ASSUME NEW rs \in Seq(Row)
    PROVE  \E g \in [0..Len(rs) -> Seq(Row)] : Keeps(g, rs, Len(rs)) /\ Pruned(rs) = g[Len(rs)]
<1> DEFINE n == Len(rs)
           Body(g) == [i \in 0..n |-> IF i = 0 THEN <<>>
                                      ELSE IF rs[i].day + RetentionDays > day
                                           THEN Append(g[i - 1], rs[i])
                                      ELSE g[i - 1]]
           kept == CHOOSE g : g = Body(g)
<1>1. Pruned(rs) = kept[n]
  BY DEF Pruned
<1>2. n \in Nat
  OBVIOUS
<1>3. PICK g \in [0..n -> Seq(Row)] : Keeps(g, rs, n)
  BY KeepsExist
<1>4. g = Body(g)
  <2>1. \A i \in 0..n : g[i] = IF i = 0 THEN <<>>
                               ELSE IF rs[i].day + RetentionDays > day THEN Append(g[i - 1], rs[i])
                               ELSE g[i - 1]
    <3> SUFFICES ASSUME NEW i \in 0..n
                 PROVE  g[i] = IF i = 0 THEN <<>>
                               ELSE IF rs[i].day + RetentionDays > day THEN Append(g[i - 1], rs[i])
                               ELSE g[i - 1]
      OBVIOUS
    <3>1. i = 0 \/ i \in 1..n
      BY <1>2
    <3> QED
      BY <1>3, <3>1 DEF Keeps, Retained
  <2>2. g = [i \in 0..n |-> g[i]]
    BY <1>3
  <2> QED
    BY <2>1, <2>2
<1>5. kept = Body(kept)
  BY <1>4
<1> HIDE DEF kept
<1>6. Keeps(kept, rs, n)
  <2>1. \A i \in 0..n : kept[i] = IF i = 0 THEN <<>>
                                  ELSE IF rs[i].day + RetentionDays > day
                                       THEN Append(kept[i - 1], rs[i])
                                  ELSE kept[i - 1]
    BY <1>5
  <2>2. kept[0] = <<>>
    BY <1>2, <2>1
  <2>3. ASSUME NEW i \in 1..n
        PROVE  kept[i] = IF Retained(rs, i) THEN Append(kept[i - 1], rs[i]) ELSE kept[i - 1]
    <3>1. i \in 0..n /\ i # 0
      BY <1>2
    <3> QED
      BY <2>1, <3>1 DEF Retained
  <2> QED
    BY <2>2, <2>3 DEF Keeps
<1>7. kept \in [0..n -> Seq(Row)]
  <2> DEFINE S == {i \in 0..n : kept[i] \in Seq(Row)}
  <2>1. 0 \in S
    <3>1. kept[0] = <<>>
      BY <1>6 DEF Keeps
    <3>2. kept[0] \in Seq(Row) /\ 0 \in 0..n
      BY <1>2, <3>1
    <3> QED
      BY <3>2
  <2>2. ASSUME NEW i \in 1..n, i - 1 \in S PROVE i \in S
    <3>1. rs[i] \in Row /\ kept[i - 1] \in Seq(Row)
      BY <2>2, RowFields
    <3>2. kept[i] = IF Retained(rs, i) THEN Append(kept[i - 1], rs[i]) ELSE kept[i - 1]
      BY <1>6 DEF Keeps
    <3>3. kept[i] \in Seq(Row)
      BY <3>1, <3>2
    <3> QED
      BY <1>2, <3>3
  <2> HIDE DEF S
  <2>3. \A i \in 0..n : i \in S
    BY <1>2, <2>1, <2>2, UpTo
  <2>4. \A i \in 0..n : kept[i] \in Seq(Row)
    BY <2>3 DEF S
  <2>5. kept = [i \in 0..n |-> kept[i]]
    BY <1>5
  <2> QED
    BY <2>4, <2>5
<1> QED
  BY <1>1, <1>6, <1>7

\* Pruning leaves rows of the pane in their order, counts for no more than
\* before, and leaves the latest row if it leaves any.
LEMMA PrunedFacts ==
    ASSUME NEW rs \in Seq(Row), Ascending(rs), day \in Nat
    PROVE  /\ Pruned(rs) \in Seq(Row) /\ Ascending(Pruned(rs))
           /\ Counted(Pruned(rs)) <= Counted(rs)
           /\ Pruned(rs) # <<>> =>
                 rs # <<>> /\ Pruned(rs)[Len(Pruned(rs))] = rs[Len(rs)]
<1> DEFINE n == Len(rs)
<1>1. n \in Nat
  OBVIOUS
<1>2. PICK g \in [0..n -> Seq(Row)] : Keeps(g, rs, n) /\ Pruned(rs) = g[n]
  BY PrunedIs
<1>3. PICK h \in [0..n -> Nat] : Sums(h, rs, n)
  BY SumsExist
<1>4. Counted(rs) = h[n]
  BY <1>3, CountedIs
<1> DEFINE Good(i) == /\ Ascending(g[i]) /\ Counted(g[i]) <= h[i]
                      /\ g[i] # <<>> => /\ i > 0 /\ Retained(rs, i)
                                        /\ g[i][Len(g[i])] = rs[i]
           S == {i \in 0..n : Good(i)}
<1>5. 0 \in S
  <2>1. g[0] = <<>> /\ h[0] = 0
    BY <1>2, <1>3 DEF Keeps, Sums
  <2>2. Ascending(<<>>)
    BY DEF Ascending
  <2> QED
    BY <1>1, <2>1, <2>2, CountedEmpty
<1>6. ASSUME NEW i \in 1..n, i - 1 \in S PROVE i \in S
  <2>1. Good(i - 1) /\ i - 1 \in 0..n /\ i \in 0..n
    BY <1>1, <1>6
  <2>2. /\ g[i] = IF Retained(rs, i) THEN Append(g[i - 1], rs[i]) ELSE g[i - 1]
        /\ h[i] = h[i - 1] + rs[i].delta
        /\ g[i - 1] \in Seq(Row) /\ h[i - 1] \in Nat
        /\ rs[i] \in Row /\ rs[i].day \in Nat /\ rs[i].delta \in Nat
    BY <1>2, <1>3, <2>1, RowFields DEF Keeps, Sums
  <2> DEFINE k == Len(g[i - 1])
  <2>3. ASSUME g[i - 1] # <<>>
        PROVE  /\ g[i - 1][k] = rs[i - 1] /\ Retained(rs, i - 1)
               /\ rs[i - 1].day <= rs[i].day /\ rs[i - 1].day \in Nat
    <3>1. i - 1 > 0 /\ Retained(rs, i - 1) /\ g[i - 1][Len(g[i - 1])] = rs[i - 1]
      BY <2>1, <2>3
    <3>2. i - 1 \in 1..n /\ i > 1
      BY <1>1, <3>1
    <3>3. rs[i - 1].day \in Nat
      BY <3>2, RowFields
    <3> QED
      BY <3>1, <3>2, <3>3 DEF Ascending
  <2>4. CASE Retained(rs, i)
    <3>1. /\ g[i] = Append(g[i - 1], rs[i]) /\ Len(g[i]) = k + 1 /\ k \in Nat
          /\ g[i][k + 1] = rs[i] /\ \A j \in 1..k : g[i][j] = g[i - 1][j]
          /\ g[i] # <<>>
      BY <2>2, <2>4, AppendRow, SMTT(30)
    <3>2. Counted(g[i]) = Counted(g[i - 1]) + rs[i].delta /\ Counted(g[i - 1]) \in Nat
      BY <2>2, <3>1, CountedAppend
    <3>3. Counted(g[i - 1]) <= h[i - 1]
      BY <2>1
    <3>4. Counted(g[i]) <= h[i]
      BY ONLY <2>2, <3>2, <3>3
    <3>5. Ascending(g[i])
      <4> SUFFICES ASSUME NEW j \in 1..Len(g[i]), j > 1
                   PROVE  g[i][j - 1].day <= g[i][j].day
        BY DEF Ascending
      <4>1. CASE j = k + 1
        <5>1. g[i - 1] # <<>> /\ k \in 1..k /\ j - 1 = k
          BY <2>2, <3>1, <4>1
        <5>2. g[i][j - 1] = rs[i - 1]
          BY <2>3, <3>1, <5>1
        <5> QED
          BY <2>3, <3>1, <4>1, <5>1, <5>2
      <4>2. CASE j # k + 1
        <5>1. j \in 1..k /\ j - 1 \in 1..k
          BY <3>1, <4>2
        <5>2. Ascending(g[i - 1])
          BY <2>1
        <5>3. g[i - 1][j - 1].day <= g[i - 1][j].day
          BY <5>1, <5>2 DEF Ascending
        <5> QED
          BY <3>1, <5>1, <5>3
      <4> QED
        BY <4>1, <4>2
    <3>6. i > 0 /\ g[i][Len(g[i])] = rs[i]
      BY <3>1
    <3> QED
      BY <2>1, <2>4, <3>4, <3>5, <3>6
  <2>5. CASE ~Retained(rs, i)
    <3>1. g[i - 1] = <<>>
      <4> SUFFICES ASSUME g[i - 1] # <<>> PROVE FALSE
        OBVIOUS
      <4>1. /\ rs[i - 1].day + RetentionDays > day /\ rs[i - 1].day <= rs[i].day
            /\ rs[i - 1].day \in Nat
        BY <2>3 DEF Retained
      <4>2. ~(rs[i].day + RetentionDays > day) /\ RetentionDays \in Nat
        BY <2>5, CostAssumption DEF Retained
      <4> DEFINE a == rs[i - 1].day
                 b == rs[i].day
      <4>3. /\ a \in Nat /\ b \in Nat /\ day \in Nat /\ RetentionDays \in Nat
            /\ a <= b /\ a + RetentionDays > day /\ ~(b + RetentionDays > day)
        BY <2>2, <4>1, <4>2
      <4> HIDE DEF a, b
      <4> QED
        BY ONLY <4>3
    <3>2. g[i] = <<>> /\ Ascending(<<>>) /\ Counted(<<>>) <= h[i]
      BY <2>2, <2>5, <3>1, CountedEmpty DEF Ascending
    <3> QED
      BY <2>1, <3>2
  <2> QED
    BY <2>4, <2>5
<1> HIDE DEF S, Good
<1>7. \A i \in 0..n : i \in S
  BY <1>1, <1>5, <1>6, UpTo
<1>8. Good(n)
  BY <1>1, <1>7 DEF S
<1>9. /\ Ascending(g[n]) /\ Counted(g[n]) <= h[n] /\ g[n] \in Seq(Row)
      /\ g[n] # <<>> => n > 0 /\ g[n][Len(g[n])] = rs[n]
  BY <1>1, <1>8 DEF Good
<1> QED
  BY <1>2, <1>4, <1>9

-----------------------------------------------------------------------------
(* The sum over the panes *)

Least(s) == CHOOSE p \in s : TRUE

\* The sum over every subset of the panes, one pane taken out after the other.
PaneSums(g, rss) ==
    \A s \in SUBSET CostPanes :
        g[s] = IF s = {} THEN 0 ELSE Counted(rss[Least(s)]) + g[s \ {Least(s)}]

LEMMA TakenOut ==
    ASSUME NEW s \in SUBSET CostPanes, s # {}
    PROVE  /\ Least(s) \in CostPanes /\ s \ {Least(s)} \in SUBSET CostPanes
           /\ Cardinality(s) \in Nat /\ Cardinality(s) >= 1
           /\ Cardinality(s \ {Least(s)}) = Cardinality(s) - 1
<1>1. IsFiniteSet(s)
  BY CostAssumption, FS_Subset
<1>2. Least(s) \in s
  BY DEF Least
<1>3. Cardinality(s) \in Nat /\ Cardinality(s \ {Least(s)}) = Cardinality(s) - 1
  BY <1>1, <1>2, FS_RemoveElement, FS_CardinalityType
<1>4. Cardinality(s) # 0
  BY <1>1, FS_EmptySet
<1> QED
  BY <1>2, <1>3, <1>4

LEMMA PaneSumsExist ==
    ASSUME NEW rss, \A p \in CostPanes : Counted(rss[p]) \in Nat
    PROVE  \E g \in [SUBSET CostPanes -> Nat] : PaneSums(g, rss)
<1> DEFINE n == Cardinality(CostPanes)
           Good(g, m) == \A s \in SUBSET CostPanes : Cardinality(s) <= m =>
               g[s] = IF s = {} THEN 0 ELSE Counted(rss[Least(s)]) + g[s \ {Least(s)}]
           S == {m \in 0..n : \E g \in [SUBSET CostPanes -> Nat] : Good(g, m)}
<1>1. n \in Nat /\ \A s \in SUBSET CostPanes : Cardinality(s) \in 0..n
  BY CostAssumption, FS_Subset, FS_CardinalityType
<1>2. 0 \in S
  <2> DEFINE g == [s \in SUBSET CostPanes |-> 0]
  <2>1. Good(g, 0)
    BY TakenOut
  <2>2. g \in [SUBSET CostPanes -> Nat]
    OBVIOUS
  <2> HIDE DEF g, Good
  <2> QED
    BY <1>1, <2>1, <2>2
<1>3. ASSUME NEW m \in 1..n, m - 1 \in S PROVE m \in S
  <2>1. PICK g \in [SUBSET CostPanes -> Nat] : Good(g, m - 1)
    BY <1>3
  <2> DEFINE h == [s \in SUBSET CostPanes |->
                     IF s = {} THEN 0 ELSE Counted(rss[Least(s)]) + g[s \ {Least(s)}]]
  <2>2. h \in [SUBSET CostPanes -> Nat]
    <3> SUFFICES ASSUME NEW s \in SUBSET CostPanes, s # {}
                 PROVE  Counted(rss[Least(s)]) + g[s \ {Least(s)}] \in Nat
      OBVIOUS
    <3>1. Counted(rss[Least(s)]) \in Nat /\ g[s \ {Least(s)}] \in Nat
      BY <2>1, TakenOut
    <3> QED
      BY <3>1
  <2>3. \A s \in SUBSET CostPanes : Cardinality(s) <= m - 1 => h[s] = g[s]
    BY <2>1
  <2>4. Good(h, m)
    <3> SUFFICES ASSUME NEW s \in SUBSET CostPanes, Cardinality(s) <= m, s # {}
                 PROVE  h[s] = Counted(rss[Least(s)]) + h[s \ {Least(s)}]
      OBVIOUS
    <3>1. s \ {Least(s)} \in SUBSET CostPanes /\ Cardinality(s \ {Least(s)}) <= m - 1
      BY TakenOut
    <3>2. h[s \ {Least(s)}] = g[s \ {Least(s)}]
      BY <2>3, <3>1
    <3> QED
      BY <3>2
  <2>5. m \in 0..n
    BY <1>1
  <2> HIDE DEF h, Good
  <2> QED
    BY <2>2, <2>4, <2>5
<1> HIDE DEF S
<1>4. n \in S
  <2>1. \A i \in 0..n : i \in S
    BY <1>1, <1>2, <1>3, UpTo
  <2> QED
    BY <1>1, <2>1
<1>5. PICK g \in [SUBSET CostPanes -> Nat] : Good(g, n)
  BY <1>4 DEF S
<1>6. PaneSums(g, rss)
  <2> SUFFICES ASSUME NEW s \in SUBSET CostPanes
               PROVE  g[s] = IF s = {} THEN 0 ELSE Counted(rss[Least(s)]) + g[s \ {Least(s)}]
    BY DEF PaneSums
  <2>1. Cardinality(s) <= n
    BY <1>1
  <2> QED
    BY <1>5, <2>1
<1> QED
  BY <1>6

\* The total of all panes is the sum over all of them.
LEMMA TotalIsNat ==
    ASSUME NEW rss, \A p \in CostPanes : Counted(rss[p]) \in Nat
    PROVE  TotalSpent(rss) \in Nat
<1> DEFINE Body(g) == [s \in SUBSET CostPanes |->
                         IF s = {} THEN 0 ELSE Counted(rss[Least(s)]) + g[s \ {Least(s)}]]
           iter == CHOOSE g : g = Body(g)
<1>1. TotalSpent(rss) = iter[CostPanes]
  BY Zenon DEF TotalSpent, MapThenSumSet, MapThenFoldSet, Least
<1>2. PICK g \in [SUBSET CostPanes -> Nat] : PaneSums(g, rss)
  BY PaneSumsExist
<1>3. g = Body(g)
  BY <1>2 DEF PaneSums
<1>4. iter = Body(iter)
  BY <1>3
<1> HIDE DEF iter
<1> DEFINE n == Cardinality(CostPanes)
           S == {m \in 0..n : \A s \in SUBSET CostPanes : Cardinality(s) <= m => iter[s] \in Nat}
<1>5. n \in Nat /\ \A s \in SUBSET CostPanes : Cardinality(s) \in 0..n
  BY CostAssumption, FS_Subset, FS_CardinalityType
<1>6. \A s \in SUBSET CostPanes :
         iter[s] = IF s = {} THEN 0 ELSE Counted(rss[Least(s)]) + iter[s \ {Least(s)}]
  BY <1>4
<1> HIDE DEF n
<1>7. ASSUME NEW m \in 0..n, NEW s \in SUBSET CostPanes, Cardinality(s) <= m, s # {},
             iter[s \ {Least(s)}] \in Nat
      PROVE  iter[s] \in Nat
  <2>1. Counted(rss[Least(s)]) \in Nat
    BY <1>7, TakenOut
  <2>2. iter[s] = Counted(rss[Least(s)]) + iter[s \ {Least(s)}]
    BY <1>6, <1>7
  <2> QED
    BY <1>7, <2>1, <2>2
<1>8. iter[{}] \in Nat
  BY <1>6
<1>9. 0 \in S
  <2>1. ASSUME NEW s \in SUBSET CostPanes, Cardinality(s) <= 0 PROVE iter[s] \in Nat
    <3>1. s = {}
      <4>1. s # {} => Cardinality(s) \in Nat /\ Cardinality(s) >= 1
        BY TakenOut
      <4> QED
        BY <2>1, <4>1
    <3> QED
      BY <1>8, <3>1
  <2> QED
    BY <1>5, <2>1
<1>10. ASSUME NEW m \in 1..n, m - 1 \in S PROVE m \in S
  <2>1. ASSUME NEW s \in SUBSET CostPanes, Cardinality(s) <= m PROVE iter[s] \in Nat
    <3>1. CASE s = {}
      BY <1>8, <3>1
    <3>2. CASE s # {}
      <4>1. s \ {Least(s)} \in SUBSET CostPanes /\ Cardinality(s \ {Least(s)}) <= m - 1
        BY <2>1, <3>2, TakenOut
      <4>2. iter[s \ {Least(s)}] \in Nat
        BY <1>10, <4>1
      <4> QED
        BY <1>5, <1>7, <2>1, <3>2, <4>2
    <3> QED
      BY <3>1, <3>2
  <2> QED
    BY <1>5, <2>1
<1>11. n \in S
  <2> HIDE DEF S
  <2>1. \A i \in 0..n : i \in S
    BY <1>5, <1>9, <1>10, UpTo
  <2> QED
    BY <1>5, <2>1
<1>12. CostPanes \in SUBSET CostPanes /\ Cardinality(CostPanes) <= n
  BY <1>5
<1>13. iter[CostPanes] \in Nat
  BY <1>11, <1>12
<1> QED
  BY <1>1, <1>13

-----------------------------------------------------------------------------
(* The ledger *)

\* The latest row is not of the future.
UpToToday(rs) == rs # <<>> => rs[Len(rs)].day <= day

\* The rows of a pane are in the order of their days.
RowsAscend == \A p \in CostPanes : Ascending(rows[p]) /\ UpToToday(rows[p])

Dearest(d) == d \in Rates /\ \A r \in Rates : d >= r

\* What the ledger may hold of a pane whose sessions kept their model, price d
\* being the dearest: the finished sessions, and of the running one what its
\* latest row shows. A row of a finished session counts nothing of the next.
WithinWork(p, d) ==
    LET past == (worked[p] - tokens[p]) * d IN
    \/ Counted(rows[p]) <= past
    \/ /\ rows[p] # <<>> /\ Previous(rows[p]) <= Reading(p)
       /\ Counted(rows[p]) <= past + Previous(rows[p])

\* The inductive invariant.
LedgerInv ==
    /\ LedgerTypeOK
    /\ RowsAscend
    /\ \A p \in CostPanes : tokens[p] <= worked[p]
    /\ \A p \in CostPanes, d \in Rates : switches[p] = 0 /\ Dearest(d) => WithinWork(p, d)
    /\ ReachedThresholdsAreClaimed

LEMMA CountedIsNat ==
    ASSUME NEW rs \in Seq(Row)
    PROVE  Counted(rs) \in Nat
<1>1. PICK g \in [0..Len(rs) -> Nat] : Sums(g, rs, Len(rs))
  BY SumsExist
<1>2. Counted(rs) = g[Len(rs)] /\ Len(rs) \in 0..Len(rs)
  BY <1>1, CountedIs
<1> QED
  BY <1>1, <1>2

\* The numbers of a pane.
LEMMA PaneNumbers ==
    ASSUME LedgerTypeOK, NEW p \in CostPanes
    PROVE  /\ tokens[p] \in Nat /\ worked[p] \in Nat /\ rate[p] \in Nat /\ rate[p] \in Rates
           /\ rows[p] \in Seq(Row) /\ Counted(rows[p]) \in Nat /\ Previous(rows[p]) \in Nat
           /\ Reading(p) \in Nat /\ Reading(p) = tokens[p] * rate[p]
           /\ day \in Nat
<1>1. /\ tokens[p] \in Nat /\ worked[p] \in Nat /\ rate[p] \in Nat /\ rate[p] \in Rates
      /\ rows[p] \in Seq(Row) /\ day \in Nat
  <2>1. MaxWork \in Nat /\ MaxDay \in Nat /\ Rates \subseteq Nat
    BY CostAssumption
  <2>2. tokens[p] \in 0..MaxWork /\ worked[p] \in 0..MaxWork /\ day \in 0..MaxDay
    BY DEF LedgerTypeOK
  <2>3. rate[p] \in Rates /\ rows[p] \in Seq(Row)
    BY DEF LedgerTypeOK
  <2>4. tokens[p] \in Nat /\ worked[p] \in Nat /\ day \in Nat
    BY <2>1, <2>2
  <2>5. rate[p] \in Nat
    BY <2>1, <2>3
  <2> QED
    BY <2>3, <2>4, <2>5
<1>2. Counted(rows[p]) \in Nat
  BY <1>1, CountedIsNat
<1>3. Previous(rows[p]) \in Nat
  <2>1. rows[p] # <<>> => Len(rows[p]) \in 1..Len(rows[p])
    BY <1>1
  <2> QED
    BY <1>1, <2>1, RowFields DEF Previous
<1>4. tokens[p] * rate[p] \in Nat
  BY ONLY <1>1
<1> QED
  BY <1>1, <1>2, <1>3, <1>4 DEF Reading

\* A price below the dearest: the running session fits into its work.
LEMMA SessionFits ==
    ASSUME NEW w \in Nat, NEW t \in Nat, t <= w, NEW r \in Nat, NEW d \in Nat, r <= d
    PROVE  /\ (w - t) * d \in Nat /\ t * r \in Nat /\ w * d \in Nat
           /\ (w - t) * d + t * r <= w * d
           /\ (w + 1 - (t + 1)) * d = (w - t) * d
           /\ t * r <= (t + 1) * r
           /\ (w - 0) * d = w * d
<1>1. PICK u \in Nat : w = t + u
  <2>1. w - t \in Nat /\ w = t + (w - t)
    OBVIOUS
  <2> QED
    BY <2>1
<1>2. PICK e \in Nat : d = r + e
  <2>1. d - r \in Nat /\ d = r + (d - r)
    OBVIOUS
  <2> QED
    BY <2>1
<1>3. w - t = u /\ w * d = t * d + u * d /\ t * d = t * r + t * e
  BY <1>1, <1>2
<1>4. t * r \in Nat /\ t * e \in Nat /\ u * d \in Nat /\ t * d \in Nat /\ w * d \in Nat
  BY ONLY <1>1, <1>2, t \in Nat, r \in Nat, d \in Nat, w \in Nat
<1>5. (t + 1) * r = t * r + r
  OBVIOUS
<1> QED
  BY <1>1, <1>3, <1>4, <1>5

\* A recorded reading: what is counted stays within the work.
LEMMA RecordStep ==
    ASSUME LedgerTypeOK, RowsAscend, NEW p \in CostPanes, tokens[p] <= worked[p]
    PROVE  LET rs == RecordObservation(rows[p], Reading(p)) IN
           /\ rs \in Seq(Row) /\ Ascending(rs) /\ UpToToday(rs)
           /\ \A d \in Rates : Dearest(d) /\ WithinWork(p, d) =>
                 LET past == (worked[p] - tokens[p]) * d IN
                 \/ Counted(rs) <= past
                 \/ /\ rs # <<>> /\ Previous(rs) <= Reading(p)
                    /\ Counted(rs) <= past + Previous(rs)
<1> DEFINE old == rows[p]
           cum == Reading(p)
           delta == Delta(old, cum)
           row == [day |-> day, delta |-> delta, cum |-> cum]
           rs == RecordObservation(old, cum)
           n == Len(old)
<1>1. /\ old \in Seq(Row) /\ Counted(old) \in Nat /\ Previous(old) \in Nat /\ cum \in Nat
      /\ day \in 0..MaxDay /\ day \in Nat /\ n \in Nat
  BY PaneNumbers DEF LedgerTypeOK
<1>2. delta \in Nat /\ delta <= cum /\ (cum >= Previous(old) => delta = cum - Previous(old))
  BY <1>1 DEF Delta
<1>3. Ascending(old) /\ UpToToday(old)
  BY DEF RowsAscend
<1>4. CASE delta <= MinDelta
  <2>1. rs = old
    BY <1>4 DEF RecordObservation
  <2> QED
    BY <1>1, <1>3, <2>1 DEF WithinWork
<1>5. CASE ~(delta <= MinDelta)
  <2>1. row \in Row /\ row.delta = delta /\ row.cum = cum /\ row.day = day
    BY <1>1, <1>2, <1>5, CostAssumption DEF Row
  <2>2. rs = Append(old, row)
    BY <1>5 DEF RecordObservation
  <2> HIDE DEF row, old, cum, delta
  <2>3. /\ rs \in Seq(Row) /\ Len(rs) = n + 1 /\ rs[n + 1] = row /\ rs # <<>>
        /\ \A i \in 1..n : rs[i] = old[i]
    BY <1>1, <2>1, <2>2, AppendRow
  <2>4. Counted(rs) = Counted(old) + delta /\ Previous(rs) = cum
    BY <1>1, <2>1, <2>2, <2>3, CountedAppend DEF Previous
  <2> HIDE DEF rs, n
  <2>5. UpToToday(rs)
    BY <1>1, <2>1, <2>3 DEF UpToToday
  <2>6. Ascending(rs)
    <3> SUFFICES ASSUME NEW i \in 1..Len(rs), i > 1 PROVE rs[i - 1].day <= rs[i].day
      BY DEF Ascending
    <3>1. CASE i = n + 1
      <4>1. i - 1 = n /\ n \in 1..n /\ old # <<>>
        BY <1>1, <3>1 DEF n
      <4>2. old[n].day <= day
        BY <1>3, <4>1 DEF UpToToday, n
      <4> QED
        BY <2>1, <2>3, <3>1, <4>1, <4>2
    <3>2. CASE i # n + 1
      <4>1. i \in 1..n /\ i - 1 \in 1..n
        BY <1>1, <2>3, <3>2
      <4> QED
        BY <1>3, <2>3, <4>1 DEF Ascending, n
    <3> QED
      BY <3>1, <3>2
  <2>7. ASSUME NEW d \in Rates, Dearest(d), WithinWork(p, d)
        PROVE  Counted(rs) <= (worked[p] - tokens[p]) * d + Previous(rs)
    <3> DEFINE past == (worked[p] - tokens[p]) * d
    <3>1. past \in Nat
      BY PaneNumbers, SessionFits, CostAssumption, <2>7 DEF Dearest
    <3>2. \/ Counted(old) <= past
          \/ Previous(old) <= cum /\ Counted(old) <= past + Previous(old)
      BY <2>7 DEF WithinWork, old, cum
    <3> HIDE DEF past
    <3>3. Counted(rs) <= past + Previous(rs)
      BY <1>1, <1>2, <2>4, <3>1, <3>2
    <3> QED
      BY <3>3 DEF past
  <2> QED
    BY <1>1, <2>3, <2>4, <2>5, <2>6, <2>7 DEF rs, old, cum
<1> QED
  BY <1>4, <1>5

LEMMA LedgerTotals == LedgerTotal = TotalSpent(rows) /\ LedgerTotal' = TotalSpent(rows')
<1>1. LedgerTotal = TotalSpent(rows)
  BY Zenon DEF LedgerTotal, TotalSpent, MapThenSumSet, MapThenFoldSet
<1>2. LedgerTotal' = TotalSpent(rows')
  BY Zenon DEF LedgerTotal, TotalSpent, MapThenSumSet, MapThenFoldSet
<1> QED
  BY <1>1, <1>2

\* What leaves the rows, the claims and the budget alone leaves no threshold behind.
LEMMA StillClaimed ==
    ASSUME ReachedThresholdsAreClaimed, rows' = rows, claims' = claims, budget' = budget,
           step' = "report" => step = "report"
    PROVE  ReachedThresholdsAreClaimed'
<1>1. LedgerTotal' = LedgerTotal
  BY LedgerTotals
<1>2. BudgetCents' = BudgetCents
  BY DEF BudgetCents
<1> QED
  BY <1>1, <1>2 DEF ReachedThresholdsAreClaimed

LEMMA LedgerInvInit == LedgerInit => LedgerInv
<1> SUFFICES ASSUME LedgerInit PROVE LedgerInv
  OBVIOUS
<1>1. LedgerTypeOK
  BY CostAssumption DEF LedgerInit, LedgerTypeOK
<1>2. \A p \in CostPanes : rows[p] = <<>> /\ tokens[p] = 0 /\ worked[p] = 0
  BY DEF LedgerInit
<1>3. RowsAscend
  BY <1>2 DEF RowsAscend, Ascending, UpToToday
<1>4. ASSUME NEW p \in CostPanes, NEW d \in Rates PROVE WithinWork(p, d)
  <2>1. (worked[p] - tokens[p]) * d = 0
    BY <1>2, CostAssumption
  <2> QED
    BY <1>2, <2>1, CountedEmpty DEF WithinWork
<1>5. ReachedThresholdsAreClaimed
  BY DEF LedgerInit, ReachedThresholdsAreClaimed
<1> QED
  BY <1>1, <1>2, <1>3, <1>4, <1>5 DEF LedgerInv

LEMMA WorkStep ==
    ASSUME LedgerInv, NEW q \in CostPanes, Work(q)
    PROVE  LedgerInv'
<1> USE DEF LedgerInv
<1>1. MaxWork \in Nat
  BY CostAssumption
<1>2. LedgerTypeOK'
  BY <1>1 DEF Work, LedgerTypeOK
<1>3. RowsAscend'
  BY DEF Work, RowsAscend, Ascending, UpToToday
<1>4. ASSUME NEW p \in CostPanes
      PROVE  /\ tokens'[p] <= worked'[p] /\ rate'[p] = rate[p] /\ rows'[p] = rows[p]
             /\ \/ tokens'[p] = tokens[p] /\ worked'[p] = worked[p]
                \/ tokens'[p] = tokens[p] + 1 /\ worked'[p] = worked[p] + 1
  BY PaneNumbers DEF Work, LedgerTypeOK
<1>5. ASSUME NEW p \in CostPanes, NEW d \in Rates, switches'[p] = 0, Dearest(d)
      PROVE  WithinWork(p, d)'
  <2>1. WithinWork(p, d)
    BY <1>5 DEF Work
  <2>2. /\ tokens[p] \in Nat /\ worked[p] \in Nat /\ tokens[p] <= worked[p]
        /\ rate[p] \in Nat /\ d \in Nat /\ rate[p] <= d /\ Previous(rows[p]) \in Nat
    BY <1>5, PaneNumbers, CostAssumption DEF Dearest
  <2>3. (worked'[p] - tokens'[p]) * d = (worked[p] - tokens[p]) * d
    <3>1. worked'[p] - tokens'[p] = worked[p] - tokens[p]
      BY <1>4, <2>2
    <3> QED
      BY <3>1
  <2>4. Reading(p) <= Reading(p)'
    <3>1. tokens[p] * rate[p] <= (tokens[p] + 1) * rate[p] /\ tokens[p] * rate[p] \in Nat
      BY <2>2, SessionFits
    <3> QED
      BY <1>4, <3>1 DEF Reading
  <2>5. Reading(p) \in Nat /\ Reading(p)' \in Nat
    <3>1. tokens'[p] \in Nat
      BY <1>4, <2>2
    <3> QED
      BY <1>4, <2>2, <3>1 DEF Reading
  <2> QED
    BY <1>4, <2>1, <2>2, <2>3, <2>4, <2>5 DEF WithinWork
<1>6. ReachedThresholdsAreClaimed'
  BY StillClaimed DEF Work
<1> QED
  BY <1>2, <1>3, <1>4, <1>5, <1>6

\* What the pane has shown becomes past work when its session ends.
LEMMA NewSessionStep ==
    ASSUME LedgerInv, NEW q \in CostPanes, NEW r \in Rates, NewSession(q, r)
    PROVE  LedgerInv'
<1> USE DEF LedgerInv
<1>1. MaxWork \in Nat
  BY CostAssumption
<1>2. LedgerTypeOK'
  BY <1>1 DEF NewSession, LedgerTypeOK
<1>3. RowsAscend'
  BY DEF NewSession, RowsAscend, Ascending, UpToToday
<1>4. ASSUME NEW p \in CostPanes
      PROVE  /\ tokens'[p] <= worked'[p] /\ worked'[p] = worked[p] /\ rows'[p] = rows[p]
             /\ \/ tokens'[p] = tokens[p] /\ rate'[p] = rate[p]
                \/ tokens'[p] = 0
  BY PaneNumbers DEF NewSession, LedgerTypeOK
<1>5. ASSUME NEW p \in CostPanes, NEW d \in Rates, switches'[p] = 0, Dearest(d)
      PROVE  WithinWork(p, d)'
  <2>1. WithinWork(p, d)
    BY <1>5 DEF NewSession
  <2>2. /\ tokens[p] \in Nat /\ worked[p] \in Nat /\ tokens[p] <= worked[p]
        /\ rate[p] \in Nat /\ d \in Nat /\ rate[p] <= d
        /\ Previous(rows[p]) \in Nat /\ Counted(rows[p]) \in Nat
        /\ Reading(p) = tokens[p] * rate[p]
    BY <1>5, PaneNumbers, CostAssumption DEF Dearest
  <2>3. CASE tokens'[p] = tokens[p] /\ rate'[p] = rate[p]
    BY <1>4, <2>1, <2>3 DEF WithinWork, Reading
  <2>4. CASE tokens'[p] = 0
    <3>1. /\ (worked[p] - tokens[p]) * d \in Nat /\ tokens[p] * rate[p] \in Nat
          /\ worked[p] * d \in Nat
          /\ (worked[p] - tokens[p]) * d + tokens[p] * rate[p] <= worked[p] * d
          /\ (worked[p] - 0) * d = worked[p] * d
      BY <2>2, SessionFits
    <3> DEFINE past == (worked[p] - tokens[p]) * d
               shown == tokens[p] * rate[p]
               whole == worked[p] * d
    <3>2. /\ \/ Counted(rows[p]) <= past
             \/ Previous(rows[p]) <= shown /\ Counted(rows[p]) <= past + Previous(rows[p])
          /\ past \in Nat /\ shown \in Nat /\ whole \in Nat /\ past + shown <= whole
      BY <2>1, <2>2, <3>1 DEF WithinWork
    <3> HIDE DEF past, shown, whole
    <3>3. Counted(rows[p]) <= whole
      BY <2>2, <3>2
    <3>4. (worked'[p] - tokens'[p]) * d = whole
      BY <1>4, <2>4, <3>1 DEF whole
    <3> QED
      BY <1>4, <3>3, <3>4 DEF WithinWork
  <2> QED
    BY <1>4, <2>3, <2>4
<1>6. ReachedThresholdsAreClaimed'
  BY StillClaimed DEF NewSession
<1> QED
  BY <1>2, <1>3, <1>4, <1>5, <1>6

\* A session that changes its model is promised nothing.
LEMMA SwitchModelStep ==
    ASSUME LedgerInv, NEW q \in CostPanes, NEW r \in Rates, SwitchModel(q, r)
    PROVE  LedgerInv'
<1> USE DEF LedgerInv
<1>1. MaxSwitches \in Nat
  BY CostAssumption
<1>2. LedgerTypeOK'
  BY <1>1 DEF SwitchModel, LedgerTypeOK
<1>3. RowsAscend'
  BY DEF SwitchModel, RowsAscend, Ascending, UpToToday
<1>4. \A p \in CostPanes : tokens'[p] <= worked'[p]
  BY DEF SwitchModel
<1>5. ASSUME NEW p \in CostPanes, NEW d \in Rates, switches'[p] = 0, Dearest(d)
      PROVE  WithinWork(p, d)'
  <2>1. p # q
    BY <1>1, <1>5 DEF SwitchModel, LedgerTypeOK
  <2>2. rate'[p] = rate[p] /\ switches'[p] = switches[p] /\ tokens' = tokens
        /\ worked' = worked /\ rows' = rows
    BY <2>1 DEF SwitchModel, LedgerTypeOK
  <2>3. WithinWork(p, d)
    BY <1>5, <2>2
  <2> QED
    BY <2>2, <2>3 DEF WithinWork, Reading
<1>6. ReachedThresholdsAreClaimed'
  BY StillClaimed DEF SwitchModel
<1> QED
  BY <1>2, <1>3, <1>4, <1>5, <1>6

LEMMA DueAreClaims ==
    ASSUME budget \in Budgets, NEW n
    PROVE  Due(n) \subseteq Claims
<1>1. BudgetCents \in Cents
  BY DEF BudgetCents, Cents
<1> QED
  BY <1>1 DEF Due, Claims

LEMMA ObserveStep ==
    ASSUME LedgerInv, NEW q \in CostPanes, NEW recorded \in BOOLEAN, NEW failed \in BOOLEAN,
           NEW done \in {{}, {8000}}, Observe(q, recorded, failed, done)
    PROVE  LedgerInv'
<1> USE DEF LedgerInv
<1> DEFINE rs == RecordObservation(rows[q], Reading(q))
           ledger == IF recorded THEN [rows EXCEPT ![q] = rs] ELSE rows
           due == Due(TotalSpent(ledger))
           new == {c \in due \ claims : ~failed \/ c[1] \in done}
<1>1. /\ rows' = ledger /\ claims' = claims \union new
      /\ step' = (IF failed THEN "observe" ELSE "report")
      /\ raised' = (IF failed THEN {} ELSE new)
      /\ UNCHANGED <<tokens, rate, worked, switches, budget, told, day>>
  BY DEF Observe
<1>2. /\ rs \in Seq(Row) /\ Ascending(rs) /\ UpToToday(rs)
      /\ \A d \in Rates : Dearest(d) /\ WithinWork(q, d) =>
            LET past == (worked[q] - tokens[q]) * d IN
            \/ Counted(rs) <= past
            \/ /\ rs # <<>> /\ Previous(rs) <= Reading(q)
               /\ Counted(rs) <= past + Previous(rs)
  BY RecordStep
<1>3. due \subseteq Claims
  BY DueAreClaims DEF LedgerTypeOK
<1> HIDE DEF rs, due
<1>4. rows \in [CostPanes -> Seq(Row)]
  BY DEF LedgerTypeOK
<1>5. \A p \in CostPanes : rows'[p] = rows[p] \/ (p = q /\ rows'[p] = rs)
  BY <1>1, <1>4
<1>6. LedgerTypeOK'
  <2>1. rows' \in [CostPanes -> Seq(Row)]
    BY <1>1, <1>2, <1>4
  <2>2. claims' \subseteq Claims /\ raised' \subseteq claims'
    BY <1>1, <1>3 DEF LedgerTypeOK
  <2>3. step' \in {"observe", "report"}
    BY <1>1
  <2> QED
    BY <1>1, <2>1, <2>2, <2>3 DEF LedgerTypeOK
<1>7. RowsAscend'
  <2> SUFFICES ASSUME NEW p \in CostPanes PROVE Ascending(rows'[p]) /\ UpToToday(rows[p])'
    BY DEF RowsAscend, Ascending
  <2>1. Ascending(rows[p]) /\ UpToToday(rows[p])
    BY DEF RowsAscend
  <2> QED
    BY <1>1, <1>2, <1>5, <2>1 DEF UpToToday
<1>8. ASSUME NEW p \in CostPanes, NEW d \in Rates, switches'[p] = 0, Dearest(d)
      PROVE  WithinWork(p, d)'
  <2>1. WithinWork(p, d)
    BY <1>1, <1>8
  <2>2. Reading(p)' = Reading(p)
    BY <1>1 DEF Reading
  <2>3. CASE rows'[p] = rows[p]
    BY <1>1, <2>1, <2>2, <2>3 DEF WithinWork
  <2>4. CASE p = q /\ rows'[p] = rs
    BY <1>1, <1>2, <1>8, <2>1, <2>2, <2>4 DEF WithinWork
  <2> QED
    BY <1>5, <2>3, <2>4
<1>9. ReachedThresholdsAreClaimed'
  <2> SUFFICES ASSUME step' = "report", budget' > 0, NEW t \in Thresholds,
                      LedgerTotal' * 10000 >= budget' * t
               PROVE  <<t, BudgetCents'>> \in claims'
    BY DEF ReachedThresholdsAreClaimed
  <2>1. ~failed /\ new = due \ claims
    BY <1>1
  <2>2. LedgerTotal' = TotalSpent(ledger)
    BY <1>1, LedgerTotals
  <2>3. TotalSpent(ledger) \in Nat
    <3>1. rows' \in [CostPanes -> Seq(Row)]
      BY <1>6 DEF LedgerTypeOK
    <3>2. \A p \in CostPanes : Counted(rows'[p]) \in Nat
      BY <3>1, CountedIsNat
    <3>3. TotalSpent(rows') \in Nat
      BY <3>2, TotalIsNat
    <3> QED
      BY <1>1, <3>3
  <2> HIDE DEF ledger
  <2>4. budget \in Nat /\ MinDelta \in Nat /\ t \in Nat
    BY CostAssumption DEF LedgerTypeOK, Thresholds
  <2>5. budget > 0 /\ (TotalSpent(ledger) + MinDelta) * 10000 >= budget * t
    <3> DEFINE n == TotalSpent(ledger)
               m == budget * t
    <3>1. n * 10000 >= m /\ n \in Nat /\ m \in Nat /\ MinDelta \in Nat /\ budget > 0
      BY <1>1, <2>2, <2>3, <2>4
    <3> HIDE DEF n, m
    <3>2. (n + MinDelta) * 10000 >= m
      BY <3>1
    <3> QED
      BY <3>1, <3>2 DEF n, m
  <2>6. <<t, BudgetCents>> \in due
    BY <2>5 DEF due, Due
  <2>7. BudgetCents' = BudgetCents
    BY <1>1 DEF BudgetCents
  <2> QED
    BY <1>1, <2>1, <2>6, <2>7
<1>10. \A p \in CostPanes : tokens'[p] <= worked'[p]
  BY <1>1
<1> QED
  BY <1>6, <1>7, <1>8, <1>9, <1>10

LEMMA ReportStep ==
    ASSUME LedgerInv, Report
    PROVE  LedgerInv'
<1> USE DEF LedgerInv
<1>1. LedgerTypeOK'
  BY DEF Report, LedgerTypeOK
<1>2. RowsAscend'
  BY DEF Report, RowsAscend, Ascending, UpToToday
<1>3. \A p \in CostPanes : tokens'[p] <= worked'[p]
  BY DEF Report
<1>4. \A p \in CostPanes, d \in Rates : switches'[p] = 0 /\ Dearest(d) => WithinWork(p, d)'
  BY DEF Report, WithinWork, Reading
<1>5. ReachedThresholdsAreClaimed'
  BY DEF Report, ReachedThresholdsAreClaimed
<1> QED
  BY <1>1, <1>2, <1>3, <1>4, <1>5

\* Pruning takes away what was counted, and never the latest row alone.
LEMMA RestartStep ==
    ASSUME LedgerInv, NEW swept \in BOOLEAN, Restart(swept)
    PROVE  LedgerInv'
<1> USE DEF LedgerInv
<1>1. /\ rows' = (IF swept THEN [p \in CostPanes |-> Pruned(rows[p])] ELSE rows)
      /\ claims' = claims /\ budget' \in Budgets /\ step' = "observe" /\ raised' = {}
      /\ UNCHANGED <<tokens, rate, worked, switches, told, day>>
  BY DEF Restart, ClaimsAfterRestart
<1>2. ASSUME NEW p \in CostPanes
      PROVE  /\ rows[p] \in Seq(Row) /\ Pruned(rows[p]) \in Seq(Row)
             /\ Ascending(Pruned(rows[p])) /\ UpToToday(Pruned(rows[p]))
             /\ Counted(Pruned(rows[p])) <= Counted(rows[p])
             /\ Pruned(rows[p]) # <<>> =>
                   rows[p] # <<>> /\ Previous(Pruned(rows[p])) = Previous(rows[p])
  <2>1. Ascending(rows[p]) /\ UpToToday(rows[p])
    BY DEF RowsAscend
  <2>2. rows[p] \in Seq(Row) /\ day \in Nat
    BY PaneNumbers
  <2>3. /\ Pruned(rows[p]) \in Seq(Row) /\ Ascending(Pruned(rows[p]))
        /\ Counted(Pruned(rows[p])) <= Counted(rows[p])
        /\ Pruned(rows[p]) # <<>> =>
              rows[p] # <<>> /\ Pruned(rows[p])[Len(Pruned(rows[p]))] = rows[p][Len(rows[p])]
    BY <2>1, <2>2, PrunedFacts
  <2> QED
    BY <2>1, <2>2, <2>3 DEF UpToToday, Previous
<1>3. rows \in [CostPanes -> Seq(Row)]
  BY DEF LedgerTypeOK
<1>4. \A p \in CostPanes : rows'[p] = rows[p] \/ rows'[p] = Pruned(rows[p])
  BY <1>1
<1>5. LedgerTypeOK'
  <2>1. rows' \in [CostPanes -> Seq(Row)]
    BY <1>1, <1>2, <1>3
  <2> QED
    BY <1>1, <2>1 DEF LedgerTypeOK
<1>6. RowsAscend'
  <2> SUFFICES ASSUME NEW p \in CostPanes PROVE Ascending(rows'[p]) /\ UpToToday(rows[p])'
    BY DEF RowsAscend, Ascending
  <2>1. Ascending(rows[p]) /\ UpToToday(rows[p])
    BY DEF RowsAscend
  <2> QED
    BY <1>1, <1>2, <1>4, <2>1 DEF UpToToday
<1>7. ASSUME NEW p \in CostPanes, NEW d \in Rates, switches'[p] = 0, Dearest(d)
      PROVE  WithinWork(p, d)'
  <2>1. WithinWork(p, d) /\ Reading(p)' = Reading(p)
    BY <1>1, <1>7 DEF Reading
  <2>2. CASE rows'[p] = rows[p]
    BY <1>1, <2>1, <2>2 DEF WithinWork
  <2>3. CASE rows'[p] = Pruned(rows[p])
    <3> DEFINE past == (worked[p] - tokens[p]) * d
               left == Pruned(rows[p])
    <3>1. past \in Nat
      BY PaneNumbers, SessionFits, CostAssumption, <1>7 DEF Dearest
    <3>2. /\ Counted(left) <= Counted(rows[p]) /\ Counted(left) \in Nat
          /\ Counted(rows[p]) \in Nat
          /\ left # <<>> => Previous(left) = Previous(rows[p])
      BY <1>2, CountedIsNat
    <3>3. left = <<>> => Counted(left) <= past
      BY <3>1, CountedEmpty
    <3>4. /\ \/ Counted(rows[p]) <= past
             \/ Previous(rows[p]) <= Reading(p) /\ Counted(rows[p]) <= past + Previous(rows[p])
          /\ Previous(rows[p]) \in Nat
      BY <2>1, PaneNumbers DEF WithinWork
    <3> HIDE DEF past, left
    <3>5. \/ Counted(left) <= past
          \/ /\ left # <<>> /\ Previous(left) <= Reading(p)
             /\ Counted(left) <= past + Previous(left)
      BY <3>1, <3>2, <3>3, <3>4
    <3> QED
      BY <1>1, <2>1, <2>3, <3>5 DEF WithinWork, past, left
  <2> QED
    BY <1>4, <2>2, <2>3
<1>8. ReachedThresholdsAreClaimed'
  BY <1>1 DEF ReachedThresholdsAreClaimed
<1>9. \A p \in CostPanes : tokens'[p] <= worked'[p]
  BY <1>1
<1> QED
  BY <1>5, <1>6, <1>7, <1>8, <1>9

LEMMA NextDayStep ==
    ASSUME LedgerInv, NextDay
    PROVE  LedgerInv'
<1> USE DEF LedgerInv
<1>1. LedgerTypeOK'
  <2>1. day' \in 0..MaxDay
    BY CostAssumption DEF NextDay, LedgerTypeOK
  <2> QED
    BY <2>1 DEF NextDay, LedgerTypeOK
<1>2. RowsAscend'
  <2> SUFFICES ASSUME NEW p \in CostPanes PROVE Ascending(rows'[p]) /\ UpToToday(rows[p])'
    BY DEF RowsAscend, Ascending
  <2>1. /\ Ascending(rows[p]) /\ UpToToday(rows[p])
        /\ rows' = rows /\ day' = day + 1 /\ day \in Nat /\ rows[p] \in Seq(Row)
    BY PaneNumbers DEF RowsAscend, NextDay
  <2>2. rows[p] # <<>> => rows[p][Len(rows[p])].day \in Nat
    <3>1. rows[p] # <<>> => Len(rows[p]) \in 1..Len(rows[p])
      BY <2>1
    <3> QED
      BY <2>1, <3>1, RowFields
  <2> QED
    BY <2>1, <2>2 DEF UpToToday
<1>3. \A p \in CostPanes : tokens'[p] <= worked'[p]
  BY DEF NextDay
<1>4. \A p \in CostPanes, d \in Rates : switches'[p] = 0 /\ Dearest(d) => WithinWork(p, d)'
  BY DEF NextDay, WithinWork, Reading
<1>5. ReachedThresholdsAreClaimed'
  BY StillClaimed DEF NextDay
<1> QED
  BY <1>1, <1>2, <1>3, <1>4, <1>5

LEMMA LedgerInvStutter ==
    ASSUME LedgerInv, UNCHANGED ledgerVars
    PROVE  LedgerInv'
<1> USE DEF LedgerInv
<1>1. LedgerTypeOK'
  BY DEF ledgerVars, LedgerTypeOK
<1>2. RowsAscend'
  BY DEF ledgerVars, RowsAscend, Ascending, UpToToday
<1>3. \A p \in CostPanes : tokens'[p] <= worked'[p]
  BY DEF ledgerVars
<1>4. \A p \in CostPanes, d \in Rates : switches'[p] = 0 /\ Dearest(d) => WithinWork(p, d)'
  BY DEF ledgerVars, WithinWork, Reading
<1>5. ReachedThresholdsAreClaimed'
  BY StillClaimed DEF ledgerVars
<1> QED
  BY <1>1, <1>2, <1>3, <1>4, <1>5

LEMMA LedgerInvStep == LedgerInv /\ [LedgerNext]_ledgerVars => LedgerInv'
<1> SUFFICES ASSUME LedgerInv, [LedgerNext]_ledgerVars PROVE LedgerInv'
  OBVIOUS
<1>1. CASE \E p \in CostPanes : Work(p)
  BY <1>1, WorkStep
<1>2. CASE \E p \in CostPanes, r \in Rates : NewSession(p, r) \/ SwitchModel(p, r)
  BY <1>2, NewSessionStep, SwitchModelStep
<1>3. CASE \E p \in CostPanes, recorded, failed \in BOOLEAN, done \in {{}, {8000}} :
             Observe(p, recorded, failed, done)
  BY <1>3, ObserveStep
<1>4. CASE Report
  BY <1>4, ReportStep
<1>5. CASE \E swept \in BOOLEAN : Restart(swept)
  BY <1>5, RestartStep
<1>6. CASE NextDay
  BY <1>6, NextDayStep
<1>7. CASE UNCHANGED ledgerVars
  BY <1>7, LedgerInvStutter
<1> QED
  BY <1>1, <1>2, <1>3, <1>4, <1>5, <1>6, <1>7 DEF LedgerNext

LEMMA LedgerInvariant == LedgerSpec => []LedgerInv
  BY LedgerInvInit, LedgerInvStep, PTL DEF LedgerSpec

LEMMA WithinWorkBounds ==
    ASSUME LedgerInv, NEW p \in CostPanes, switches[p] = 0
    PROVE  ~Overcounted(p)
<1> USE DEF LedgerInv
<1>1. PICK d \in Rates : Dearest(d)
  BY CostAssumption DEF Dearest
<1>2. /\ tokens[p] \in Nat /\ worked[p] \in Nat /\ tokens[p] <= worked[p]
      /\ rate[p] \in Nat /\ d \in Nat /\ rate[p] <= d
      /\ Previous(rows[p]) \in Nat /\ Counted(rows[p]) \in Nat
      /\ Reading(p) = tokens[p] * rate[p]
  BY <1>1, PaneNumbers, CostAssumption DEF Dearest
<1>3. /\ (worked[p] - tokens[p]) * d \in Nat /\ tokens[p] * rate[p] \in Nat
      /\ worked[p] * d \in Nat
      /\ (worked[p] - tokens[p]) * d + tokens[p] * rate[p] <= worked[p] * d
  BY <1>2, SessionFits
<1> DEFINE past == (worked[p] - tokens[p]) * d
           shown == tokens[p] * rate[p]
           whole == worked[p] * d
<1>4. /\ \/ Counted(rows[p]) <= past
         \/ Previous(rows[p]) <= shown /\ Counted(rows[p]) <= past + Previous(rows[p])
      /\ past \in Nat /\ shown \in Nat /\ whole \in Nat /\ past + shown <= whole
  BY <1>1, <1>2, <1>3 DEF WithinWork
<1> HIDE DEF past, shown, whole
<1>5. Counted(rows[p]) <= whole
  BY <1>2, <1>4
<1>6. ~(Counted(rows[p]) > whole)
  BY <1>2, <1>4, <1>5
<1> QED
  BY <1>6 DEF Overcounted, whole

\* The ledger, its claims and what is worked keep their types in every run of the
\* program, through failed writes and restarts (record_observation_via).
THEOREM LedgerTypes == LedgerSpec => []LedgerTypeOK
<1>1. LedgerInv => LedgerTypeOK
  BY DEF LedgerInv
<1> QED
  BY <1>1, LedgerInvariant, PTL

\* However often sessions end, writes fail and old rows are pruned, a pane whose
\* sessions kept their model is never counted for more than its tokens cost at
\* the dearest price (record_observation_via, sweep).
THEOREM LedgerIsWithinWork == LedgerSpec => []SteadyLedgerNeverOvercounts
<1>1. LedgerInv => SteadyLedgerNeverOvercounts
  BY WithinWorkBounds DEF SteadyLedgerNeverOvercounts
<1> QED
  BY <1>1, LedgerInvariant, PTL

\* Alerts that were claimed without an error leave no threshold unclaimed that
\* the sum of all panes has reached (claim_budget_alerts).
THEOREM ThresholdsAreClaimed == LedgerSpec => []ReachedThresholdsAreClaimed
<1>1. LedgerInv => ReachedThresholdsAreClaimed
  BY DEF LedgerInv
<1> QED
  BY <1>1, LedgerInvariant, PTL
=============================================================================
