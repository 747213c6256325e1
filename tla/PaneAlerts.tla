----------------------------- MODULE PaneAlerts -----------------------------
(***************************************************************************)
(* From a pane's signals to a desktop notification: the rules that raise a *)
(* recommendation (policy/rules/idle.rs once, on entering an idle cause;   *)
(* policy/rules/alerts.rs in every poll that shows an error), the Notify   *)
(* effect of the engine, the permission of app/effects.rs and the rate     *)
(* limiter (notify/rate_limit.rs).                                         *)
(*                                                                         *)
(* The signals of a pane are unconstrained, and so is the time between two *)
(* polls.                                                                  *)
(***************************************************************************)
EXTENDS Naturals, PaneLifecycle

CONSTANTS
    Panes,
    Time,       \* bound: the seconds at which a poll may take place
    None

ASSUME TimeAssumption == Time \subseteq Nat /\ 0 \in Time /\ None \notin Time

Causes  == {"PermissionWait", "InputWait", "LimitHit", "WorkComplete", "Stale"}
Actions == {"pane-state", "error-detected"}

\* idle.rs, severity_for.
SeverityFor(cause) ==
    CASE cause \in {"PermissionWait", "InputWait"} -> "Warning"
      [] cause = "LimitHit"                        -> "Risk"
      [] cause \in {"WorkComplete", "Stale"}       -> "Concern"

\* The least time between two notifications, by the severity of the later one.
MinGap == [Risk |-> 5, Warning |-> 30, Concern |-> 60]

Recommendation == [action : Actions, severity : {"Risk", "Warning", "Concern"}]

Urgent(rec) == rec.severity \in {"Risk", "Warning"}

VARIABLES
    now,
    mode_observe_only, allow_auto_notifications,    \* [actions] of the configuration
    polled,         \* panes the poll of this second has reached
    seen,           \* PaneLifecycle.seen
    idle_transition,
    last,           \* RateLimiter.last per pane and action
    recs,           \* PaneReport.recommendations, each also an alert in the audit log
    notified,       \* history: the notifications shown, per pane and action
    stay            \* history: the pane's unbroken stay in a cause, whether the poll
                    \* that entered it only observed it, and how often it was raised

vars == <<now, mode_observe_only, allow_auto_notifications, polled, seen, idle_transition,
          last, recs, notified, stay>>

NoStay == [cause |-> None, hidden |-> FALSE, told |-> 0]

TypeOK ==
    /\ now \in Time /\ polled \subseteq Panes
    /\ mode_observe_only \in BOOLEAN /\ allow_auto_notifications \in BOOLEAN
    /\ seen \in [Panes -> {"unseen", "alive", "dead"}]
    /\ idle_transition \in [Panes -> Causes \union {None}]
    /\ last \in [Panes -> [Actions -> Time \union {None}]]
    /\ recs \in [Panes -> SUBSET Recommendation]
    /\ notified \in [Panes -> [Actions -> SUBSET [at : Time, severity : {"Risk", "Warning"}]]]
    /\ stay \in [Panes -> [cause : Causes \union {None}, hidden : BOOLEAN, told : Nat]]

-----------------------------------------------------------------------------
(* Helpers *)

Permitted == ~mode_observe_only /\ allow_auto_notifications

\* eval_idle_transition: only a cause that was not the last one is raised.
EvalIdleTransition(previous, cause) ==
    IF cause = None \/ cause = previous THEN {}
    ELSE {[action |-> "pane-state", severity |-> SeverityFor(cause)]}

\* Fault: a cause is remembered by the polls that evaluate the rules.
RememberedWhenEvaluated(observeOnly, previous, cause) == IF observeOnly THEN previous ELSE cause

\* The cause the next poll compares with: every poll of a live pane leaves its
\* own, the poll of a provider that is only observed too.
Remembered(observeOnly, previous, cause) == cause

\* eval_alerts: its other alerts are never urgent.
EvalAlerts(error) == IF error THEN {[action |-> "error-detected", severity |-> "Warning"]} ELSE {}

\* RateLimiter::should_fire.
ShouldFire(limits, rec) ==
    limits[rec.action] = None \/ now - limits[rec.action] >= MinGap[rec.severity]

\* Fault: a suppressed attempt starts the gap over.
LimitsAfterEveryAttempt(limits, new) ==
    [a \in Actions |-> IF \E r \in new : r.action = a THEN now ELSE limits[a]]

\* A notification that fires starts a gap; a suppressed one does not.
LimitsAfter(limits, new) ==
    [a \in Actions |->
        IF \E r \in new : r.action = a /\ ShouldFire(limits, r) THEN now ELSE limits[a]]

\* Fault: a respawn clears the limits with the pane's caches.
LimitsClearedOnRespawn(p, event) ==
    IF Evicts(event) THEN [a \in Actions |-> None] ELSE last[p]

\* The limits that hold for a pane id: they are not part of its lifetime.
Limits(p, event) == last[p]

\* The stay a poll of a live pane finds or begins: one that began in an earlier
\* poll goes on while the pane was alive in the same cause ever since.
StayAfter(p, observeOnly, cause, raised) ==
    LET count == IF \E r \in raised : r.action = "pane-state" THEN 1 ELSE 0
    IN  IF cause = None THEN NoStay
        ELSE IF seen[p] = "alive" /\ stay[p].cause = cause
             THEN [stay[p] EXCEPT !.told = @ + count]
        ELSE [cause |-> cause, hidden |-> observeOnly, told |-> count]

\* dispatch_notify: every urgent recommendation that the limiter lets pass.
Dispatched(limits, new) == {r \in new : ShouldFire(limits, r)}

-----------------------------------------------------------------------------
(* Actions *)

Init ==
    /\ now = 0 /\ polled = {}
    /\ mode_observe_only \in BOOLEAN /\ allow_auto_notifications \in BOOLEAN
    /\ seen = [p \in Panes |-> "unseen"]
    /\ idle_transition = [p \in Panes |-> None]
    /\ last = [p \in Panes |-> [a \in Actions |-> None]]
    /\ recs = [p \in Panes |-> {}]
    /\ notified = [p \in Panes |-> [a \in Actions |-> {}]]
    /\ stay = [p \in Panes |-> NoStay]

\* A live pane. A provider that is only observed gets no recommendation, but
\* its idle cause is remembered.
ObserveAlive(p, observeOnly, cause, error) ==
    LET event    == LifecycleEvent(seen[p], "alive")
        previous == IF Evicts(event) THEN None ELSE idle_transition[p]
        raised   == IF observeOnly THEN {}
                    ELSE EvalAlerts(error) \union EvalIdleTransition(previous, cause)
        effect   == IF Permitted THEN {r \in raised : Urgent(r)} ELSE {}
        limits   == Limits(p, event)
    IN
    /\ p \notin polled
    /\ polled' = polled \union {p}
    /\ seen' = [seen EXCEPT ![p] = "alive"]
    /\ idle_transition' = [idle_transition EXCEPT ![p] = Remembered(observeOnly, previous, cause)]
    /\ recs' = [recs EXCEPT ![p] = raised]
    /\ last' = [last EXCEPT ![p] = LimitsAfter(limits, effect)]
    /\ notified' = [notified EXCEPT ![p] = [a \in Actions |-> @[a] \union
           {[at |-> now, severity |-> r.severity] :
               r \in {s \in Dispatched(limits, effect) : s.action = a}}]]
    /\ stay' = [stay EXCEPT ![p] = StayAfter(p, observeOnly, cause, raised)]
    /\ UNCHANGED <<now, mode_observe_only, allow_auto_notifications>>

\* A dead pane: its death drops the idle cause; nothing is raised.
ObserveDead(p) ==
    LET event == LifecycleEvent(seen[p], "dead") IN
    /\ p \notin polled
    /\ polled' = polled \union {p}
    /\ seen' = [seen EXCEPT ![p] = "dead"]
    /\ idle_transition' = [idle_transition EXCEPT ![p] = IF Evicts(event) THEN None ELSE @]
    /\ recs' = [recs EXCEPT ![p] = {}]
    /\ stay' = [stay EXCEPT ![p] = NoStay]
    /\ UNCHANGED <<now, mode_observe_only, allow_auto_notifications, last, notified>>

\* The pane is not in the listing.
Vanish(p) ==
    /\ p \notin polled
    /\ polled' = polled \union {p}
    /\ seen' = [seen EXCEPT ![p] = Forgotten(@)]
    /\ recs' = [recs EXCEPT ![p] = {}]
    /\ stay' = [stay EXCEPT ![p] = NoStay]
    /\ UNCHANGED <<now, mode_observe_only, allow_auto_notifications, idle_transition, last,
                   notified>>

\* The next poll. A pane it does not reach was missed by a failed poll.
NextPoll(t) ==
    /\ t > now /\ now' = t /\ polled' = {}
    /\ UNCHANGED <<mode_observe_only, allow_auto_notifications, seen, idle_transition, last,
                   recs, notified, stay>>

\* The settings overlay, between two polls.
Configure ==
    /\ polled = {}
    /\ mode_observe_only' \in BOOLEAN /\ allow_auto_notifications' \in BOOLEAN
    /\ UNCHANGED <<now, polled, seen, idle_transition, last, recs, notified,
                   stay>>

Next ==
    \/ \E p \in Panes, observeOnly, error \in BOOLEAN, cause \in Causes \union {None} :
           ObserveAlive(p, observeOnly, cause, error)
    \/ \E p \in Panes : ObserveDead(p) \/ Vanish(p)
    \/ \E t \in Time : NextPoll(t)
    \/ Configure

Spec == Init /\ [][Next]_vars

-----------------------------------------------------------------------------
(* Properties *)

\* However a pane flaps between states, errors and lifetimes, two notifications
\* of one action on one pane keep the distance that the severity of the later
\* one asks for (RateLimiter).
NotificationsKeepTheirDistance ==
    \A p \in Panes, a \in Actions : \A n, m \in notified[p][a] :
        (n # m /\ n.at <= m.at) => m.at - n.at >= MinGap[m.severity]

\* What a permitted poll raises as urgent is notified, or was notified within
\* the gap of its severity: the limiter delays a repetition, it never starves
\* one (should_fire, dispatch_notify).
UrgentIsNeverStarved ==
    [][\A p \in Panes : \A r \in recs'[p] :
        (p \notin polled /\ p \in polled' /\ Urgent(r) /\ Permitted) =>
            \E n \in notified'[p][r.action] : now - n.at < MinGap[r.severity]]_vars

\* However many polls it lasts, and whatever fails, flips or is configured
\* meanwhile, an unbroken stay of a pane in one idle cause is raised exactly
\* once, and not at all when the poll that entered it only observed the pane:
\* no edge is repeated, and none is hidden by a failed poll, a death or a
\* re-used id (eval_idle_transition, EventLoop's idle_transition).
StaysAreRaisedOnce ==
    \A p \in Panes :
        stay[p].told = IF stay[p].cause = None \/ stay[p].hidden THEN 0 ELSE 1

\* Entering a wait for approval is notified when notifications are permitted
\* (rate_limit.rs, "so the operator never misses an approval wait").
ApprovalWaitIsNotified ==
    [][\A p \in Panes :
        (/\ Permitted /\ recs'[p] # recs[p]
         /\ idle_transition[p] # "PermissionWait" /\ idle_transition'[p] = "PermissionWait"
         /\ \E r \in recs'[p] : r.action = "pane-state")
            => \E n \in notified'[p]["pane-state"] : n.at = now]_vars
=============================================================================
