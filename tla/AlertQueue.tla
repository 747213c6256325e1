----------------------------- MODULE AlertQueue -----------------------------
(***************************************************************************)
(* The alert queue of the dashboard (ui/alerts.rs): which rows the notices *)
(* and recommendations at hand make, how related ones are folded into one  *)
(* FLOW row, and the order of the rows.                                    *)
(*                                                                         *)
(* A row is the set of the alerts it stands for, and that set is its key:  *)
(* one alert makes a row of its own, the members of a flow share a row.    *)
(* Rows that would show the same key twice count as one.                   *)
(***************************************************************************)
EXTENDS Naturals, FiniteSets

Severities == 0..4      \* Safe, Good, Concern, Warning, Risk
Kinds      == {"SystemNotice", "Recommendation", "CrossPane", "Checkpoint"}
Categories == {"none", "context", "cache", "cache_anomaly", "snapshot"}

\* id is the place of the alert's key among all keys.
AlertType == [id : Nat, pane : STRING, kind : Kinds, severity : Severities,
              category : Categories]

-----------------------------------------------------------------------------
(* Rows *)

Recovery(items, pane) == {a \in items : a.pane = pane /\ a.category # "none"}

\* At least two context-recovery categories are present on the pane.
Related(items, pane) ==
    \E a, b \in Recovery(items, pane) : a.category # b.category

FlowsOf(items) ==
    {Recovery(items, pane) : pane \in {p \in {a.pane : a \in items} : Related(items, p)}}

\* The rows over the alerts listed, those whose key is in gone being hidden. A
\* hidden flow still consumes its members.
Rows(listed, gone) ==
    LET items == {a \in listed : {a} \notin gone}
        flows == FlowsOf(items)
    IN  (flows \ gone) \union {{a} : a \in items \ UNION flows}

\* alert_fingerprints: the rows when nothing is hidden.
Fingerprints(listed) == Rows(listed, {})

-----------------------------------------------------------------------------
(* Order *)

IsFlow(row) == \E a, b \in row : a # b

Highest(numbers) == CHOOSE n \in numbers : \A m \in numbers : m <= n

\* Fault: a flow is as severe as its mildest member.
SeverityOfMildest(row) == CHOOSE n \in {a.severity : a \in row} : \A a \in row : n <= a.severity

SeverityOf(row) == Highest({a.severity : a \in row})

KindPriority(kind) ==
    CASE kind = "SystemNotice"   -> 0
      [] kind = "Recommendation" -> 1
      [] kind = "CrossPane"      -> 2
      [] kind = "Checkpoint"     -> 3

PriorityOf(row) == Highest({KindPriority(a.kind) : a \in row})

\* A flow is new with its key or with any member's.
IsNew(row, fresh) == \E key \in fresh : key = row \/ (key \subseteq row /\ ~IsFlow(key))

\* The time a row carries, as an age: an item has the age of its key, a flow the
\* least age of its members' own keys. A key without a time counts as oldest.
AgeOf(row, age, oldest) ==
    LET ages == {age[{a}] : a \in {b \in row : {b} \in DOMAIN age}}
    IN  IF ages = {} THEN oldest ELSE CHOOSE n \in ages : \A m \in ages : n <= m

KeyBefore(row, other) ==
    IF IsFlow(row) # IsFlow(other) THEN IsFlow(row)
    ELSE \E a \in row : \A b \in other : a.id < b.id

\* sort_entries: severity, newness, time, kind, key.
Before(row, other, fresh, age, oldest) ==
    LET s == SeverityOf(row)  t == SeverityOf(other)
        n == IsNew(row, fresh)  o == IsNew(other, fresh)
        x == AgeOf(row, age, oldest)  y == AgeOf(other, age, oldest)
        p == PriorityOf(row)  q == PriorityOf(other)
    IN  \/ s > t
        \/ s = t /\ n /\ ~o
        \/ s = t /\ n = o /\ x < y
        \/ s = t /\ n = o /\ x = y /\ p > q
        \/ s = t /\ n = o /\ x = y /\ p = q /\ KeyBefore(row, other)

\* The place of a row among the rows, from 1.
Place(row, rows, fresh, age, oldest) ==
    1 + Cardinality({other \in rows : Before(other, row, fresh, age, oldest)})

\* Notices are cleared, not hidden in bulk.
IsActionable(row) == IsFlow(row) \/ \A a \in row : a.kind # "SystemNotice"
=============================================================================
