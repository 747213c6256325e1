--------------------------- MODULE AnomalyReplay ---------------------------
(***************************************************************************)
(* The rolling window the anomaly detectors read (AnomalyHistory), its     *)
(* per-tick persistence and its replay after a restart (event_loop.rs,     *)
(* store/anomaly_history.rs, store/anomaly_sink.rs).                       *)
(*                                                                         *)
(* The window is a group of deques, newest first, filled at two moments of *)
(* a tick. Those filled before the rules run (time, identity, error, cost, *)
(* tokens, memory) are "pre"; cache_drift_fires and cross_pane_edit_paths, *)
(* filled after, are "post". A sample is represented by the second it was  *)
(* observed in, so that an old value in a new place is visible.            *)
(***************************************************************************)
EXTENDS Naturals, Sequences, FiniteSets, PaneLifecycle

CONSTANTS
    Panes,
    Window,     \* [anomaly] window_polls; the nominal poll interval is one second
    Time        \* bound: the seconds of the clock at which something may happen

ASSUME BoundsAssumption ==
    /\ Window \in Nat \ {0}
    /\ Time \subseteq Nat \ {0} /\ IsFiniteSet(Time) /\ Time # {}

VARIABLES
    now,        \* wall clock, seconds
    started,    \* when this session opened the anomaly sink
    polled,     \* panes the poll of this second has reached
    seen,       \* PaneLifecycle.seen
    replayed,   \* Context.anomaly_history_replayed
    pre, post,  \* the two groups of deques per pane
    table,      \* anomaly_history_snapshots: per pane, a row per second
    respawn,    \* history: the pane's last Reappeared event in this session
    own,        \* history: how many entries of post are samples of this session
    found       \* history: seconds with a concurrent-edit finding on the pane

vars == <<now, started, polled, seen, replayed, pre, post, table, respawn, own, found>>

\* "tick" is the timestamp deque's entry, "obs" when the values were observed.
PreSample  == [tick : Time, obs : Time]
PostSample == [obs : Time, edited : BOOLEAN]
Row        == [obs : Time, edited : BOOLEAN]
NoRespawn  == [at |-> 0, hydrated |-> FALSE]

TypeOK ==
    /\ now \in Time /\ started \in Time /\ started <= now
    /\ polled \subseteq Panes /\ replayed \subseteq Panes
    /\ seen \in [Panes -> {"unseen", "alive", "dead"}]
    /\ \A p \in Panes :
        /\ pre[p] \in Seq(PreSample) /\ Len(pre[p]) <= Window
        /\ post[p] \in Seq(PostSample) /\ Len(post[p]) <= Window
        /\ DOMAIN table[p] \subseteq Time
        /\ \A t \in DOMAIN table[p] : table[p][t] \in Row
    /\ respawn \in [Panes -> [at : Time \union {0}, hydrated : BOOLEAN]]
    /\ own \in [Panes -> 0..Window]
    /\ found \in [Panes -> SUBSET Time]

-----------------------------------------------------------------------------
(* Helpers *)

Upto(seq, n) == SubSeq(seq, 1, IF Len(seq) < n THEN Len(seq) ELSE n)

\* Fault: a push forgets to trim.
PushFrontUntrimmed(deque, entry) == <<entry>> \o deque

\* push_front, then AnomalyHistory::trim.
PushFront(deque, entry) == Upto(<<entry>> \o deque, Window)

Earliest(S) == CHOOSE t \in S : \A u \in S : t <= u

\* The elements of S, greatest first.
Descending(S) ==
    [i \in 1..Cardinality(S) |-> CHOOSE t \in S : Cardinality({u \in S : u >= t}) = i]

\* Fault: the oldest rows are read first.
RowsOldestFirst(p) ==
    LET n == Cardinality(DOMAIN table[p]) IN
    Upto([i \in 1..n |-> Descending(DOMAIN table[p])[n + 1 - i]], Window)

\* fetch_recent_history_snapshots: the seconds of the newest rows, newest first.
RowsNewestFirst(p) == Upto(Descending(DOMAIN table[p]), Window)

\* Fault: however old the newest row is, the rows are replayed.
AlwaysFresh(p) == DOMAIN table[p] # {}

\* The staleness gate looks at the newest row only.
Fresh(p) == \E t \in DOMAIN table[p] : now - t <= 2 * Window

\* Fault: a pane that comes back is hydrated again.
HydratesOnRespawn(p, event) == (p \notin replayed \/ Evicts(event)) /\ Fresh(p)

\* Rows are replayed at the first live observation of a pane in a session.
Hydrates(p, event) == p \notin replayed /\ Fresh(p)

\* Fault: replay fills only the deques that the rules do not.
HydratePostOnly(p, deque) == deque

\* Replay pushes the rows oldest first onto the front of the deque, whatever
\* the deque already holds, and trims it.
HydratePre(p, deque) ==
    LET ticks  == RowsNewestFirst(p)
        stored == [i \in DOMAIN ticks |-> [tick |-> ticks[i], obs |-> table[p][ticks[i]].obs]]
    IN  Upto(stored \o deque, Window)

HydratePost(p, deque) ==
    LET ticks  == RowsNewestFirst(p)
        stored == [i \in DOMAIN ticks |-> [obs |-> ticks[i], edited |-> table[p][ticks[i]].edited]]
    IN  Upto(stored \o deque, Window)

\* capture_tick: the fronts of the deques, as the row of this second.
CaptureTick(pres, posts) == [obs |-> pres[1].obs, edited |-> posts[1].edited]

-----------------------------------------------------------------------------
(* Actions *)

Init ==
    /\ now = Earliest(Time) /\ started = now
    /\ polled = {} /\ replayed = {}
    /\ seen = [p \in Panes |-> "unseen"]
    /\ pre = [p \in Panes |-> <<>>] /\ post = [p \in Panes |-> <<>>]
    /\ table = [p \in Panes |-> <<>>]
    /\ respawn = [p \in Panes |-> NoRespawn]
    /\ own = [p \in Panes |-> 0]
    /\ found = [p \in Panes |-> {}]

\* A live pane: reset on a new lifetime, push the pre-rule samples, hydrate
\* once, push the post-rule samples, persist the fronts (a failed transaction
\* is only logged).
ObserveAlive(p, saved) ==
    LET event == LifecycleEvent(seen[p], "alive")
        pre1  == PushFront(IF Evicts(event) THEN <<>> ELSE pre[p], [tick |-> now, obs |-> now])
        post1 == IF Evicts(event) THEN <<>> ELSE post[p]
        pre2  == IF Hydrates(p, event) THEN HydratePre(p, pre1) ELSE pre1
        post2 == IF Hydrates(p, event) THEN HydratePost(p, post1) ELSE post1
        post3 == PushFront(post2, [obs |-> now, edited |-> FALSE])
        row   == CaptureTick(pre2, post3)
    IN
    /\ p \notin polled
    /\ polled' = polled \union {p}
    /\ seen' = [seen EXCEPT ![p] = "alive"]
    /\ pre' = [pre EXCEPT ![p] = pre2]
    /\ post' = [post EXCEPT ![p] = post3]
    /\ replayed' = replayed \union {p}
    /\ table' = IF saved
                THEN [table EXCEPT ![p] = [t \in DOMAIN table[p] \union {now} |->
                                             IF t = now THEN row ELSE table[p][t]]]
                ELSE table
    /\ respawn' = [respawn EXCEPT ![p] =
         IF event = "Reappeared" THEN [at |-> now, hydrated |-> p \in replayed] ELSE @]
    /\ own' = [own EXCEPT ![p] = IF Evicts(event) THEN 1 ELSE IF @ < Window THEN @ + 1 ELSE @]
    /\ UNCHANGED <<now, started, found>>

\* A dead pane: its death drops the window; nothing is sampled.
ObserveDead(p) ==
    LET event == LifecycleEvent(seen[p], "dead") IN
    /\ p \notin polled
    /\ polled' = polled \union {p}
    /\ seen' = [seen EXCEPT ![p] = "dead"]
    /\ pre' = [pre EXCEPT ![p] = IF Evicts(event) THEN <<>> ELSE @]
    /\ post' = [post EXCEPT ![p] = IF Evicts(event) THEN <<>> ELSE @]
    /\ own' = [own EXCEPT ![p] = IF Evicts(event) THEN 0 ELSE @]
    /\ UNCHANGED <<now, started, replayed, table, respawn, found>>

\* The listing no longer has the pane: it is forgotten, its window stays.
Vanish(p) ==
    /\ p \notin polled /\ seen[p] = "alive"
    /\ polled' = polled \union {p}
    /\ seen' = [seen EXCEPT ![p] = Forgotten(@)]
    /\ UNCHANGED <<now, started, replayed, pre, post, table, respawn, own, found>>

\* Fault: the paths go to the other end of the deque.
FoldFindingAtBack(p) ==
    /\ p \in polled /\ seen[p] = "alive" /\ now \notin found[p]
    /\ post' = [post EXCEPT ![p][Len(post[p])].edited = TRUE]
    /\ found' = [found EXCEPT ![p] = @ \union {now}]
    /\ UNCHANGED <<now, started, polled, seen, replayed, pre, table, respawn, own>>

\* fold_finding_paths_into_history: after the pane loop, the paths of a
\* concurrent-edit finding are appended to the front entry.
FoldFinding(p) ==
    /\ p \in polled /\ seen[p] = "alive" /\ now \notin found[p]
    /\ post' = [post EXCEPT ![p][1].edited = TRUE]
    /\ found' = [found EXCEPT ![p] = @ \union {now}]
    /\ UNCHANGED <<now, started, polled, seen, replayed, pre, table, respawn, own>>

\* Time passes. A poll may reach no pane at all (the source failed), and after
\* a Restart this is also the time the program was stopped.
ClockAdvances ==
    /\ \E t \in Time : t > now
    /\ now' = Earliest({t \in Time : t > now}) /\ polled' = {}
    /\ UNCHANGED <<started, seen, replayed, pre, post, table, respawn, own, found>>

\* The program stops at any point and starts again: only the table survives,
\* and opening the sink purges old rows unless the purge fails.
Restart(purged) ==
    /\ started' = now /\ started # now
    /\ polled' = {} /\ replayed' = {}
    /\ seen' = [p \in Panes |-> "unseen"]
    /\ pre' = [p \in Panes |-> <<>>] /\ post' = [p \in Panes |-> <<>>]
    /\ table' = IF purged
                THEN [p \in Panes |-> [t \in {u \in DOMAIN table[p] : now - u <= 4 * Window}
                                         |-> table[p][t]]]
                ELSE table
    /\ respawn' = [p \in Panes |-> NoRespawn]
    /\ own' = [p \in Panes |-> 0]
    /\ UNCHANGED <<now, found>>

Next ==
    \/ \E p \in Panes, saved \in BOOLEAN : ObserveAlive(p, saved)
    \/ \E p \in Panes : ObserveDead(p) \/ Vanish(p) \/ FoldFinding(p)
    \/ ClockAdvances
    \/ \E purged \in BOOLEAN : Restart(purged)

Spec == Init /\ [][Next]_vars

-----------------------------------------------------------------------------
(* Properties *)

\* The pre-rule and the post-rule deques always have the same length, whether
\* filled live or by replay, so that position i speaks of the same tick in each
\* (push_snapshot_into_history_at, "keeps all deque lengths equal across live
\* and replayed paths"; error_hint_kinds, session-only, is not persisted).
WindowsAligned == \A p \in Panes : Len(pre[p]) = Len(post[p])

\* Live or replayed, the post-rule deques are newest first. (A restart within
\* one second may replay the row of the very second that is observed again.)
PostNewestFirst ==
    \A p \in Panes : \A i, j \in DOMAIN post[p] : i < j => post[p][i].obs >= post[p][j].obs

\* The newest sample of an earlier session sits next to the oldest of this one
\* only if the program was away from the pane for at most two windows
\* (lazy hydration and its staleness gate).
NoReplayAcrossALongGap ==
    \A p \in Panes :
        own[p] \in 1..(Len(post[p]) - 1)
            => post[p][own[p]].obs - post[p][own[p] + 1].obs <= 2 * Window

\* Once a pane has been hydrated, its respawn starts a window of its own.
RespawnStaysFresh ==
    \A p \in Panes : respawn[p].hydrated =>
        /\ \A i \in DOMAIN pre[p] : pre[p][i].obs >= respawn[p].at
        /\ \A i \in DOMAIN post[p] : post[p][i].obs >= respawn[p].at

\* A concurrent edit found in a tick of this session marks the entry of that
\* tick, and the mark moves with the entry until it is trimmed or reset
\* (fold_finding_paths_into_history).
FindingsStayVisible ==
    \A p \in Panes : \A i \in DOMAIN post[p] :
        (post[p][i].obs \in found[p] /\ post[p][i].obs > started) => post[p][i].edited
=============================================================================
