----------------------------- MODULE PaneReports -----------------------------
(***************************************************************************)
(* What the observe loop promises, with no caches: the report of a pane is *)
(* a function of everything the polls have shown of that pane. ObserveLoop *)
(* computes the same reports from a handful of per-pane maps.              *)
(***************************************************************************)
EXTENDS Naturals, Sequences, FiniteSetsExt

CONSTANTS Panes, Observations, Providers, Claude, Unknown, Antigravity, Paths,
          Stale, None, TailCap, DriftFindings

VARIABLES
    log,     \* per pane: what each poll that knows the pane has shown of it
    shown    \* per pane: the report of the latest poll, or None

\* Entries are "missing" (not listed), "dead" with a conflict flag, or "alive".
Alive(entry) == entry.kind = "alive"

\* The present lifetime: the longest suffix of entries that are all alive.
Lifetime(entries) ==
    LET n == Len(entries)
        start == Min({i \in 1..(n + 1) : \A j \in i..n : Alive(entries[j])})
    IN  SubSeq(entries, start, n)

\* Stillness needs a full window of equal tails inside the lifetime.
IdleAt(life, i) ==
    LET window == (i - TailCap + 1)..i
    IN  IF life[i].obs.marker # None THEN life[i].obs.marker
        ELSE IF i >= TailCap /\ \A j, k \in window : life[j].obs.tail = life[k].obs.tail
             THEN Stale ELSE None

\* The poll at which the current idle cause began, without interruption.
EnteredAt(life) ==
    LET n == Len(life)
        begun == Min({i \in 1..n : \A j \in i..n : IdleAt(life, j) = IdleAt(life, n)})
    IN  IF IdleAt(life, n) = None THEN None ELSE life[begun].at

\* The latest pressure since the pane last showed another provider.
Pressure(life) ==
    LET n == Len(life)
        read == {i \in 1..n : /\ life[i].obs.pressure # None
                              /\ \A j \in i..n : life[j].obs.provider = Claude}
    IN  IF life[n].obs.provider = Claude /\ read # {} THEN life[Max(read)].obs.pressure
        ELSE life[n].obs.pressure

ObserveOnlyAt(life, i) == life[i].obs.provider = Antigravity

\* The identity changes between polls i-1 and i of a lifetime.
DriftsAt(life, i) ==
    LET a == life[i - 1].obs
        b == life[i].obs
    IN  (IF DriftFindings /\ a.provider # b.provider /\ a.provider # Unknown
         THEN {[kind |-> "provider", from |-> a.provider, to |-> b.provider]} ELSE {})
        \union
        (IF DriftFindings /\ a.path # b.path
         THEN {[kind |-> "worktree", from |-> a.path, to |-> b.path]} ELSE {})

\* A change is reported when it first happens in a lifetime, and never for an
\* observe-only provider.
NewDrifts(life) ==
    LET n == Len(life)
        told == UNION {DriftsAt(life, i) : i \in {j \in 2..(n - 1) : ~ObserveOnlyAt(life, j)}}
    IN  IF n < 2 \/ ObserveOnlyAt(life, n) THEN {} ELSE DriftsAt(life, n) \ told

EventAt(entries, i) ==
    IF i = 1 THEN "Appeared"
    ELSE IF Alive(entries[i]) /\ ~Alive(entries[i - 1]) THEN "Reappeared"
    ELSE IF entries[i].kind = "dead" /\ Alive(entries[i - 1]) THEN "BecameDead"
    ELSE "Unchanged"

ConflictAt(entry) ==
    CASE entry.kind = "alive" -> entry.obs.conflict
      [] entry.kind = "dead" -> entry.conflict
      [] OTHER -> FALSE

\* A conflict is audited when it starts: the last observation showed none, or a
\* death or a reappearance has interrupted it.
SuppressedAt(entries, n) ==
    LET observed == {i \in 1..(n - 1) : entries[i].kind # "missing"}
    IN  /\ ConflictAt(entries[n])
        /\ \/ EventAt(entries, n) \in {"BecameDead", "Reappeared"}
           \/ observed = {}
           \/ ~ConflictAt(entries[Max(observed)])

ReportOf(entries) ==
    LET n    == Len(entries)
        life == Lifetime(entries)
        m    == Len(life)
    IN
    IF Alive(entries[n])
    THEN [dead |-> FALSE, event |-> EventAt(entries, n), suppressed |-> SuppressedAt(entries, n),
          obs |-> life[m].obs, idle |-> IdleAt(life, m), entered_at |-> EnteredAt(life),
          pressure |-> Pressure(life), drifts |-> NewDrifts(life),
          alerted |-> /\ IdleAt(life, m) # None
                      /\ m = 1 \/ IdleAt(life, m - 1) # IdleAt(life, m)
                      /\ ~ObserveOnlyAt(life, m)]
    ELSE [dead |-> TRUE, event |-> EventAt(entries, n), suppressed |-> SuppressedAt(entries, n)]

Init ==
    /\ log = [p \in Panes |-> <<>>]
    /\ shown = [p \in Panes |-> None]

\* A poll shows something of a pane, or says nothing new of it.
ShowsPane(p) ==
    \/ log'[p] = log[p] /\ shown'[p] \in {shown[p], None}
    \/ /\ Len(log'[p]) = Len(log[p]) + 1
       /\ SubSeq(log'[p], 1, Len(log[p])) = log[p]
       /\ shown'[p] = IF log'[p][Len(log'[p])].kind = "missing" THEN None
                      ELSE ReportOf(log'[p])

Spec == Init /\ [][\A p \in Panes : ShowsPane(p)]_<<log, shown>>
=============================================================================
