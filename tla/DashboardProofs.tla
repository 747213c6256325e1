-------------------------- MODULE DashboardProofs --------------------------
(***************************************************************************)
(* Proofs about the dashboard: AlertBoard (types, and that hides never     *)
(* regroup the rows, for any alerts, any delay and any number of panes)    *)
(* and DashboardInput (types, one modal at most, the reports of the        *)
(* selected target and the place where the picker is, for any windows      *)
(* of any sessions).                                                       *)
(***************************************************************************)
EXTENDS AlertBoard, DashboardInput, FiniteSetTheorems, WellFoundedInduction, TLAPS

(* AlertBoard *)

Alerts == Notices \union UNION Listings

\* The refresh keeps its keys at the rows of what is listed, and deadlines only
\* for those keys: what makes HidesNeverRegroup inductive.
BoardInv ==
    /\ TypeOK
    /\ previous = Fingerprints(Listed(reported, notices))
    /\ DOMAIN hidden \subseteq previous

-----------------------------------------------------------------------------
(* The rows *)

\* A flow has members of two categories, so it is no single alert.
LEMMA NoFlowIsAnItem ==
    ASSUME NEW items, NEW flow \in FlowsOf(items), NEW a
    PROVE  flow # {a}
<1>1. PICK pane : Related(items, pane) /\ flow = Recovery(items, pane)
  BY DEF FlowsOf
<1>2. PICK x, y \in Recovery(items, pane) : x.category # y.category
  BY <1>1 DEF Related
<1>. QED BY <1>1, <1>2

\* Every row stands for some of the alerts listed.
LEMMA RowsAreListed ==
    ASSUME NEW listed, NEW gone
    PROVE  Rows(listed, gone) \subseteq SUBSET listed
BY DEF Rows, FlowsOf, Recovery

\* Hiding rows that are there takes away these rows and no other.
LEMMA HideOnlyItself ==
    ASSUME NEW listed, NEW gone, gone \subseteq Fingerprints(listed)
    PROVE  Rows(listed, gone) = Fingerprints(listed) \ gone
<1> DEFINE items == {a \in listed : {a} \notin gone}
           flows == FlowsOf(listed)
<1>1. Fingerprints(listed) = flows \union {{a} : a \in listed \ UNION flows}
  <2>1. {a \in listed : {a} \notin {}} = listed
    OBVIOUS
  <2>. QED BY <2>1 DEF Fingerprints, Rows
<1>2. \A a \in listed \ items : a \notin UNION flows
  <2> SUFFICES ASSUME NEW a \in listed \ items PROVE a \notin UNION flows
    OBVIOUS
  <2>1. {a} \in Fingerprints(listed)
    OBVIOUS
  <2>2. {a} \notin flows
    BY NoFlowIsAnItem
  <2>3. PICK b \in listed \ UNION flows : {a} = {b}
    BY <2>1, <2>2, <1>1
  <2>. QED BY <2>3
<1>3. ASSUME NEW pane, Related(listed, pane), pane \in {a.pane : a \in listed}
      PROVE  Recovery(items, pane) = Recovery(listed, pane)
  <2>1. Recovery(listed, pane) \in flows
    BY <1>3 DEF FlowsOf
  <2>2. Recovery(listed, pane) \subseteq UNION flows
    BY <2>1
  <2>3. \A a \in Recovery(listed, pane) : a \in items
    BY <2>2, <1>2 DEF Recovery
  <2>. QED BY <2>3 DEF Recovery
<1>4. FlowsOf(items) = flows
  <2>1. ASSUME NEW flow \in flows PROVE flow \in FlowsOf(items)
    <3>1. PICK pane \in {a.pane : a \in listed} :
                Related(listed, pane) /\ flow = Recovery(listed, pane)
      BY DEF FlowsOf
    <3>2. Recovery(items, pane) = Recovery(listed, pane)
      BY <3>1, <1>3
    <3>3. Related(items, pane)
      BY <3>1, <3>2 DEF Related
    <3>4. pane \in {a.pane : a \in items}
      BY <3>3 DEF Related, Recovery
    <3>. QED BY <3>1, <3>2, <3>3, <3>4 DEF FlowsOf
  <2>2. ASSUME NEW flow \in FlowsOf(items) PROVE flow \in flows
    <3>1. PICK pane \in {a.pane : a \in items} :
                Related(items, pane) /\ flow = Recovery(items, pane)
      BY DEF FlowsOf
    <3>2. Recovery(items, pane) \subseteq Recovery(listed, pane)
      BY DEF Recovery
    <3>3. Related(listed, pane) /\ pane \in {a.pane : a \in listed}
      BY <3>1, <3>2 DEF Related
    <3>4. Recovery(items, pane) = Recovery(listed, pane)
      BY <3>3, <1>3
    <3>. QED BY <3>1, <3>3, <3>4 DEF FlowsOf
  <2>. QED BY <2>1, <2>2
<1>5. Rows(listed, gone) = (flows \ gone) \union {{a} : a \in items \ UNION flows}
  BY <1>4 DEF Rows
<1>6. {{a} : a \in items \ UNION flows} = {{a} : a \in listed \ UNION flows} \ gone
  OBVIOUS
<1>. QED BY <1>1, <1>5, <1>6

\* What can be listed is finite, and so are its rows.
LEMMA CountedRows ==
    ASSUME NEW listed \in SUBSET Alerts, NEW gone
    PROVE  Cardinality(Rows(listed, gone)) \in Nat
<1>1. IsFiniteSet(listed)
  BY AlertsAssumption, FS_Subset DEF Alerts
<1>2. IsFiniteSet(SUBSET listed)
  BY <1>1, FS_SUBSET
<1>3. IsFiniteSet(Rows(listed, gone))
  BY <1>2, RowsAreListed, FS_Subset
<1>. QED BY <1>3, FS_CardinalityType

\* The selection follows the rows.
LEMMA SyncedType ==
    ASSUME NEW place \in Nat, NEW listed \in SUBSET Alerts, NEW gone
    PROVE  Synced(place, Rows(listed, gone)) \in Nat
BY CountedRows DEF Synced

\* A row is not empty, and its severity is that of its most severe alert.
LEMMA SeverityIsWorst ==
    ASSUME NEW listed \in SUBSET Alerts, NEW gone, NEW row \in Rows(listed, gone)
    PROVE  /\ SeverityOf(row) \in Severities
           /\ \E a \in row : a.severity = SeverityOf(row)
           /\ \A a \in row : a.severity <= SeverityOf(row)
<1> DEFINE numbers == {a.severity : a \in row}
<1>1. row # {}
  BY DEF Rows, FlowsOf, Related
<1>2. \A a \in row : a.severity \in Severities
  BY RowsAreListed, AlertsAssumption DEF Alerts, AlertType
<1>3. numbers # {} /\ numbers \subseteq 0..4
  BY <1>1, <1>2 DEF Severities
<1> HIDE DEF numbers
<1>4. \E n \in numbers : \A m \in numbers : m <= n
  <2>1. CASE 4 \in numbers
    BY <2>1, <1>3
  <2>2. CASE 4 \notin numbers /\ 3 \in numbers
    BY <2>2, <1>3
  <2>3. CASE 4 \notin numbers /\ 3 \notin numbers /\ 2 \in numbers
    BY <2>3, <1>3
  <2>4. CASE 4 \notin numbers /\ 3 \notin numbers /\ 2 \notin numbers /\ 1 \in numbers
    BY <2>4, <1>3
  <2>5. CASE \A n \in 1..4 : n \notin numbers
    <3>1. \A n \in numbers : n = 0
      BY <2>5, <1>3
    <3>2. PICK n \in numbers : n = 0
      BY <3>1, <1>3
    <3>. QED BY <3>1, <3>2
  <2>. QED BY <2>1, <2>2, <2>3, <2>4, <2>5
<1>5. /\ Highest(numbers) \in numbers
      /\ \A m \in numbers : m <= Highest(numbers)
  BY <1>4 DEF Highest
<1>6. SeverityOf(row) = Highest(numbers)
  BY DEF SeverityOf, numbers
<1>. QED BY <1>2, <1>5, <1>6 DEF numbers

\* A more severe row comes before a milder one, whatever else orders them.
LEMMA WorseComesFirst ==
    ASSUME NEW listed \in SUBSET Alerts, NEW gone, NEW row \in Rows(listed, gone),
           NEW other \in Rows(listed, gone), NEW new, NEW old, NEW oldest,
           SeverityOf(row) < SeverityOf(other)
    PROVE  ~(Place(row, Rows(listed, gone), new, old, oldest)
               < Place(other, Rows(listed, gone), new, old, oldest))
<1> DEFINE rows == Rows(listed, gone)
           Over(r) == {x \in rows : Before(x, r, new, old, oldest)}
<1>1. IsFiniteSet(rows)
  <2>1. IsFiniteSet(listed)
    BY AlertsAssumption, FS_Subset DEF Alerts
  <2>2. IsFiniteSet(SUBSET listed)
    BY <2>1, FS_SUBSET
  <2>. QED BY <2>2, RowsAreListed, FS_Subset
<1>2. \A x \in rows : SeverityOf(x) \in Nat
  BY SeverityIsWorst DEF Severities
<1>3. ASSUME NEW x \in Over(other) PROVE x \in Over(row)
  <2>1. SeverityOf(x) >= SeverityOf(other)
    BY <1>2, <1>3 DEF Before
  <2>2. SeverityOf(x) > SeverityOf(row)
    BY <1>2, <2>1
  <2>. QED BY <2>2 DEF Before
<1> HIDE DEF rows, Over
<1>4. IsFiniteSet(Over(row)) /\ Over(other) \subseteq Over(row)
  <2>1. Over(row) \subseteq rows
    BY DEF Over
  <2>. QED BY <1>1, <1>3, <2>1, FS_Subset
<1>5. /\ Cardinality(Over(other)) <= Cardinality(Over(row))
      /\ Cardinality(Over(row)) \in Nat /\ Cardinality(Over(other)) \in Nat
  BY <1>4, FS_Subset, FS_CardinalityType
<1>6. /\ Place(row, rows, new, old, oldest) = 1 + Cardinality(Over(row))
      /\ Place(other, rows, new, old, oldest) = 1 + Cardinality(Over(other))
  BY DEF Place, Over
<1>. QED BY <1>5, <1>6 DEF rows

-----------------------------------------------------------------------------
(* The invariant *)

\* A refresh re-establishes the invariant whatever it lists.
LEMMA RefreshKeepsInv ==
    ASSUME BoardInv, NEW listing \in Listings \union {{}}, NEW raised \in SUBSET Notices,
           Refresh(listing, raised), UNCHANGED click
    PROVE  BoardInv'
<1> DEFINE listed == Listed(listing, raised)
           current == Fingerprints(listed)
<1>1. listed \in SUBSET Alerts
  BY DEF Listed, Alerts
<1>2. current \subseteq Keys
  BY <1>1, RowsAreListed DEF Fingerprints, Keys, Alerts
<1>3. /\ reported' = listing /\ notices' = raised /\ previous' = current
      /\ fresh' = current \ previous
      /\ hidden' = [k \in DOMAIN hidden \cap current |-> hidden[k]]
      /\ age' = [k \in current |-> IF k \in previous THEN age[k] ELSE 0]
      /\ selected' = Synced(selected, Rows(listed, Gone(hidden')))
      /\ click' = click
  BY DEF Refresh, TrackedKeys, Kept
<1>4. \A k \in current : age'[k] \in 0..AgeCap
  BY <1>3, TimesAssumption DEF BoardInv, TypeOK
<1>5. selected' \in Nat
  BY <1>1, <1>3, SyncedType DEF BoardInv, TypeOK
<1>6. \A k \in DOMAIN hidden' : hidden'[k] \in 0..HideDelay
  BY <1>3 DEF BoardInv, TypeOK
<1>7. click' \in Keys \union {None}
  BY <1>3 DEF BoardInv, TypeOK
<1>. QED BY <1>2, <1>3, <1>4, <1>5, <1>6, <1>7 DEF BoardInv, TypeOK, Listed

\* Between refreshes the deadlines change only for rows that are listed.
LEMMA HidesKeepInv ==
    ASSUME BoardInv, UNCHANGED <<reported, notices, previous, fresh, age>>,
           DOMAIN hidden' \subseteq previous,
           \A k \in DOMAIN hidden' : hidden'[k] \in 0..HideDelay,
           selected' \in Nat, click' \in Keys \union {None}
    PROVE  BoardInv'
BY DEF BoardInv, TypeOK

\* The rows on the screen are keys of the last refresh.
LEMMA VisibleAreTracked ==
    ASSUME BoardInv
    PROVE  /\ Visible = previous \ Gone(hidden)
           /\ Listed(reported, notices) \in SUBSET Alerts
<1>1. Gone(hidden) \subseteq previous
  BY DEF BoardInv, Gone
<1>2. Visible = previous \ Gone(hidden)
  BY <1>1, HideOnlyItself DEF BoardInv, Visible
<1>. QED BY <1>2 DEF BoardInv, TypeOK, Listed, Alerts

\* A toggle of the looked-up row sets or undoes the deadline of a tracked key.
LEMMA ToggleKeepsDeadlines ==
    ASSUME BoardInv, NEW place \in Nat, ToggleAt(place)
    PROVE  /\ DOMAIN hidden' \subseteq previous
           /\ \A k \in DOMAIN hidden' : hidden'[k] \in 0..HideDelay
           /\ selected' \in Nat
<1>1. CASE UNCHANGED hidden
  BY <1>1, VisibleAreTracked, SyncedType DEF BoardInv, TypeOK, ToggleAt
<1>2. CASE \E key \in Visible : hidden' = Toggled(key)
  <2>1. PICK key \in Visible : hidden' = Toggled(key)
    BY <1>2
  <2>2. key \in previous
    BY VisibleAreTracked
  <2>. QED
    BY <2>1, <2>2, TimesAssumption, VisibleAreTracked, SyncedType
       DEF BoardInv, TypeOK, ToggleAt, Toggled
<1>. QED BY <1>1, <1>2 DEF ToggleAt

LEMMA BoardInvInit == Init => BoardInv
<1> SUFFICES ASSUME Init PROVE BoardInv
  OBVIOUS
<1>1. Listed(reported, notices) = notices /\ notices \in SUBSET Alerts
  BY DEF Init, Listed, Alerts
<1>2. previous \subseteq Keys
  BY <1>1, RowsAreListed DEF Init, Fingerprints, Keys, Alerts
<1>3. selected \in Nat
  BY <1>1, SyncedType DEF Init, Fingerprints
<1>. QED BY <1>1, <1>2, <1>3, TimesAssumption DEF Init, BoardInv, TypeOK

LEMMA BoardInvStep == BoardInv /\ [Next]_vars => BoardInv'
<1> SUFFICES ASSUME BoardInv, [Next]_vars PROVE BoardInv'
  OBVIOUS
<1> USE DEF tracked
<1>1. ASSUME NEW listing \in Listings, NEW raised \in SUBSET Notices, Poll(listing, raised)
      PROVE  BoardInv'
  BY <1>1, RefreshKeepsInv DEF Poll, BoardInv, TypeOK
<1>2. ASSUME NEW raised \in SUBSET Notices, ChangeNotices(raised) PROVE BoardInv'
  BY <1>2, RefreshKeepsInv DEF ChangeNotices, BoardInv, TypeOK
<1>3. CASE Tick
  <2>1. selected' \in Nat
    BY <1>3, VisibleAreTracked, SyncedType DEF Tick, BoardInv, TypeOK
  <2>2. \A k \in DOMAIN age' : age'[k] \in 0..AgeCap
    BY <1>3, TimesAssumption DEF Tick, BoardInv, TypeOK
  <2>3. \A k \in DOMAIN hidden' : hidden'[k] \in 0..HideDelay
    BY <1>3, TimesAssumption DEF Tick, BoardInv, TypeOK
  <2>4. DOMAIN age' = DOMAIN age /\ DOMAIN hidden' = DOMAIN hidden
    BY <1>3 DEF Tick
  <2>. QED BY <1>3, <2>1, <2>2, <2>3, <2>4 DEF Tick, BoardInv, TypeOK
<1>4. ASSUME NEW place \in 0..Cardinality(Visible), NEW forget \in BOOLEAN, Move(place, forget)
      PROVE  BoardInv'
  <2>1. place \in Nat
    BY VisibleAreTracked, CountedRows DEF Visible
  <2>. QED BY <1>4, <2>1, HidesKeepInv DEF Move, BoardInv, TypeOK
<1>5. ASSUME NEW place \in 0..Cardinality(Visible), NEW soon \in BOOLEAN, ClickRow(place, soon)
      PROVE  BoardInv'
  <2>1. place \in Nat
    BY VisibleAreTracked, CountedRows DEF Visible
  <2>2. PICK key \in Visible :
            IF click = key /\ soon
            THEN ToggleAt(place) /\ click' = None
            ELSE selected' = place /\ click' = key /\ UNCHANGED hidden
    BY <1>5 DEF ClickRow
  <2>3. key \in Keys
    BY VisibleAreTracked DEF BoardInv, TypeOK
  <2>4. UNCHANGED <<reported, notices, previous, fresh, age>>
    BY <1>5 DEF ClickRow
  <2>5. CASE ToggleAt(place) /\ click' = None
    BY <2>1, <2>4, <2>5, ToggleKeepsDeadlines, HidesKeepInv
  <2>6. CASE selected' = place /\ click' = key /\ UNCHANGED hidden
    BY <2>1, <2>3, <2>4, <2>6, HidesKeepInv DEF BoardInv, TypeOK
  <2>. QED BY <2>2, <2>5, <2>6
<1>6. CASE HideSelected
  BY <1>6, ToggleKeepsDeadlines, HidesKeepInv DEF HideSelected, BoardInv, TypeOK
<1>7. ASSUME NEW place \in 0..Cardinality(Visible), ClickDismiss(place) PROVE BoardInv'
  <2>1. place \in Nat
    BY VisibleAreTracked, CountedRows DEF Visible
  <2>. QED BY <1>7, <2>1, ToggleKeepsDeadlines, HidesKeepInv DEF ClickDismiss
<1>8. ASSUME NEW severity \in Severities, ClickChip(severity) PROVE BoardInv'
  <2> DEFINE keys == {k \in Visible : IsActionable(k) /\ SeverityOf(k) = severity}
  <2>1. keys \subseteq previous
    BY VisibleAreTracked
  <2>2. \/ hidden' = [k \in DOMAIN hidden \ keys |-> hidden[k]]
        \/ hidden' = [k \in DOMAIN hidden \union keys |->
                        IF k \in keys THEN HideDelay ELSE hidden[k]]
    BY <1>8 DEF ClickChip
  <2> HIDE DEF keys
  <2>3. DOMAIN hidden' \subseteq previous
    BY <2>1, <2>2 DEF BoardInv
  <2>4. \A k \in DOMAIN hidden' : hidden'[k] \in 0..HideDelay
    BY <2>2, TimesAssumption DEF BoardInv, TypeOK
  <2>5. selected' \in Nat
    BY <1>8, VisibleAreTracked, SyncedType DEF ClickChip, BoardInv, TypeOK
  <2>. QED BY <1>8, <2>3, <2>4, <2>5, HidesKeepInv DEF ClickChip
<1>9. CASE UNCHANGED vars
  BY <1>9, HidesKeepInv DEF vars, BoardInv, TypeOK
<1>. QED BY <1>1, <1>2, <1>3, <1>4, <1>5, <1>6, <1>7, <1>8, <1>9 DEF Next

-----------------------------------------------------------------------------
(* The theorems *)

\* Every state of the board has the types TypeOK names.
THEOREM BoardTypes == Spec => []TypeOK
<1>1. BoardInv => TypeOK
  BY DEF BoardInv
<1>. QED BY <1>1, BoardInvInit, BoardInvStep, PTL DEF Spec

\* Hides never regroup the rows (HidesNeverRegroup).
THEOREM HidingIsLocal == Spec => []HidesNeverRegroup
<1>1. BoardInv => HidesNeverRegroup
  BY VisibleAreTracked DEF BoardInv, HidesNeverRegroup
<1>. QED BY <1>1, BoardInvInit, BoardInvStep, PTL DEF Spec

\* What comes back is shown again (ComesBackVisible).
THEOREM ComingBackIsSeen == Spec => ComesBackVisible
<1>1. ASSUME BoardInv, [Next]_vars PROVE [previous' \ previous \subseteq Visible']_vars
  <2> SUFFICES ASSUME NEW k \in previous' \ previous PROVE k \in Visible'
    OBVIOUS
  <2>1. BoardInv'
    BY <1>1, BoardInvStep
  <2>2. Visible' = previous' \ Gone(hidden')
    BY <2>1, HideOnlyItself DEF BoardInv, Visible, Gone
  <2>3. k \notin DOMAIN hidden'
    <3>1. PICK listing, raised : Refresh(listing, raised)
      BY <1>1 DEF Next, vars, tracked, Poll, ChangeNotices, Tick, Move, ClickRow, HideSelected,
                  ClickDismiss, ClickChip
    <3>2. DOMAIN hidden' \subseteq DOMAIN hidden
      BY <3>1 DEF Refresh, Kept
    <3>. QED BY <1>1, <3>2 DEF BoardInv
  <2>. QED BY <2>2, <2>3 DEF Gone
<1>. QED BY <1>1, BoardInvInit, BoardInvStep, PTL DEF Spec, ComesBackVisible

\* The most severe alert is never below a milder row (UrgentFirst).
THEOREM WorstIsOnTop == Spec => []UrgentFirst
<1>1. BoardInv => UrgentFirst
  <2> SUFFICES ASSUME BoardInv, NEW row \in Visible, NEW other \in Visible,
                      ShownAt(row) < ShownAt(other)
               PROVE  \E a \in row : \A b \in other : b.severity <= a.severity
    BY DEF UrgentFirst
  <2>1. Listed(reported, notices) \in SUBSET Alerts
    BY VisibleAreTracked
  <2>2. ~(SeverityOf(row) < SeverityOf(other))
    BY <2>1, WorseComesFirst DEF ShownAt, Visible
  <2>3. PICK a \in row : a.severity = SeverityOf(row)
    BY <2>1, SeverityIsWorst DEF Visible
  <2>4. SeverityOf(row) \in Nat /\ SeverityOf(other) \in Nat
    BY <2>1, SeverityIsWorst DEF Visible, Severities
  <2>5. \A b \in other : b.severity \in Nat
    BY <2>1, RowsAreListed, AlertsAssumption DEF Visible, Alerts, AlertType, Severities
  <2>6. \A b \in other : b.severity <= SeverityOf(other)
    BY <2>1, SeverityIsWorst DEF Visible
  <2>. QED BY <2>2, <2>3, <2>4, <2>5, <2>6
<1>. QED BY <1>1, BoardInvInit, BoardInvStep, PTL DEF Spec

-----------------------------------------------------------------------------
(* DashboardInput *)

(* Owners *)

\* Some modal is asked for first among those that are open.
LEMMA SomeIsFirst ==
    ASSUME NEW at, at \subseteq 1..6, at # {}
    PROVE  \E i \in at : \A j \in at : i <= j
<1>1. CASE 1 \in at
  BY <1>1
<1>2. CASE 1 \notin at /\ 2 \in at
  BY <1>2
<1>3. CASE 1 \notin at /\ 2 \notin at /\ 3 \in at
  BY <1>3
<1>4. CASE 1 \notin at /\ 2 \notin at /\ 3 \notin at /\ 4 \in at
  BY <1>4
<1>5. CASE 1 \notin at /\ 2 \notin at /\ 3 \notin at /\ 4 \notin at /\ 5 \in at
  BY <1>5
<1>6. CASE at = {6}
  BY <1>6
<1>7. \A i \in at : i = 1 \/ i = 2 \/ i = 3 \/ i = 4 \/ i = 5 \/ i = 6
  OBVIOUS
<1>. QED BY <1>1, <1>2, <1>3, <1>4, <1>5, <1>6, <1>7

\* A list of all modals finds an open one, whatever its order.
LEMMA OwnerIsOpen ==
    ASSUME NEW order, order \in [1..6 -> Modals], \A m \in Modals : \E i \in 1..6 : order[i] = m,
           open \subseteq Modals, open # {}
    PROVE  FirstOpen(order) \in open
<1>. DEFINE at == {i \in 1..6 : order[i] \in open}
<1>1. at # {} /\ at \subseteq 1..6
  OBVIOUS
<1>2. \E i \in at : \A j \in at : i <= j
  BY <1>1, SomeIsFirst
<1>3. PICK i \in at : i = CHOOSE k \in at : \A j \in at : k <= j
  BY <1>2
<1>. QED BY <1>1, <1>3 DEF FirstOpen

LEMMA OrdersAreComplete ==
    /\ KeyOrder \in [1..6 -> Modals] /\ \A m \in Modals : \E i \in 1..6 : KeyOrder[i] = m
    /\ MouseOrder \in [1..6 -> Modals] /\ \A m \in Modals : \E i \in 1..6 : MouseOrder[i] = m
<1>1. \A f \in {KeyOrder, MouseOrder} : \A i \in 1..6 : f[i] \in Modals
  BY DEF KeyOrder, MouseOrder, Modals
<1>2. KeyOrder \in [1..6 -> Modals] /\ MouseOrder \in [1..6 -> Modals]
  BY <1>1 DEF KeyOrder, MouseOrder
<1>3. \A m \in Modals : \E i \in 1..6 : KeyOrder[i] = m
  BY DEF KeyOrder, Modals
<1>4. \A m \in Modals : \E i \in 1..6 : MouseOrder[i] = m
  BY DEF MouseOrder, Modals
<1>. QED BY <1>2, <1>3, <1>4

\* The dashboard owns the keys, or the mouse, only if no modal is open; a modal
\* that owns them is open.
LEMMA Owners ==
    ASSUME open \subseteq Modals
    PROVE  /\ KeyOwner = "dashboard" => open = {}
           /\ MouseOwner = "dashboard" => open = {}
<1>1. "dashboard" \notin Modals /\ "filter" \notin Modals /\ "fx" # "dashboard"
  BY DEF Modals
<1>2. open # {} => FirstOpen(KeyOrder) \in open /\ FirstOpen(MouseOrder) \in open
  BY OwnerIsOpen, OrdersAreComplete
<1>. QED BY <1>1, <1>2 DEF KeyOwner, MouseOwner

-----------------------------------------------------------------------------
(* The picker *)

\* Some window comes first, by session and then by index.
LEMMA LeastIsMember ==
    ASSUME NEW set, set \subseteq Nat \X Nat, set # {}
    PROVE  Least(set) \in set
<1>. DEFINE less == OpToRel(<, Nat)
<1>. DEFINE lex  == LexPairOrdering(less, less, Nat, Nat)
<1>1. IsWellFoundedOn(lex, Nat \X Nat)
  BY NatLessThanWellFounded, WFLexPairOrdering
<1>2. PICK x \in set : \A y \in set : <<y, x>> \notin lex
  <2>. HIDE DEF lex
  <2>. QED BY <1>1, WFMin
<1>3. \A y \in set : x[1] < y[1] \/ (x[1] = y[1] /\ x[2] <= y[2])
  <2>. SUFFICES ASSUME NEW y \in set PROVE x[1] < y[1] \/ (x[1] = y[1] /\ x[2] <= y[2])
    OBVIOUS
  <2>1. x[1] \in Nat /\ x[2] \in Nat /\ y[1] \in Nat /\ y[2] \in Nat
    OBVIOUS
  <2>2. x \in Nat \X Nat /\ y \in Nat \X Nat
    OBVIOUS
  <2>3. ~(y[1] < x[1]) /\ ~(y[1] = x[1] /\ y[2] < x[2])
    BY <1>2, <2>1, <2>2 DEF LexPairOrdering, OpToRel
  <2>. QED BY <2>1, <2>3
<1>. QED BY <1>3 DEF Least

\* Both stages of the picker are well formed.
LEMMA StagesAreTyped ==
    ASSUME InputTypeOK
    PROVE  /\ SessionStage \in PickerType /\ WellFormed(SessionStage)
           /\ \A s \in Sessions : WindowStage(s) \in PickerType /\ WellFormed(WindowStage(s))
<1>1. SessionChoices \subseteq Sessions \union {AllSessions} /\ AllSessions \in SessionChoices
  BY DEF SessionChoices, InputTypeOK, Sessions
<1>2. StartAt("session", SessionChoices, NoSession) \subseteq SessionChoices
  BY <1>1 DEF StartAt, Home
<1>3. \A s : WindowChoices(s) \subseteq AllWindows
  BY DEF WindowChoices, InputTypeOK
<1>4. \A s : StartAt("window", WindowChoices(s), s) \subseteq WindowChoices(s)
  BY <1>3, LeastIsMember, WindowsAssumption DEF StartAt, Home
<1>5. SessionStage \in PickerType /\ WellFormed(SessionStage)
  BY <1>1, <1>2 DEF SessionStage, PickerType, WellFormed, Targets
<1>6. ASSUME NEW s \in Sessions
      PROVE  WindowStage(s) \in PickerType /\ WellFormed(WindowStage(s))
  BY <1>3, <1>4 DEF WindowStage, PickerType, WellFormed, Targets
<1>. QED BY <1>5, <1>6

-----------------------------------------------------------------------------
(* The inductive invariant *)

\* Everything a step can break, at once.
InputInv == InputTypeOK /\ OneModal /\ ReportsMatchTarget

LEMMA InputInvInit == InputInit => InputInv
<1>. SUFFICES ASSUME InputInit PROVE InputInv
  OBVIOUS
<1>1. picker \in PickerType /\ WellFormed(picker)
  BY DEF InputInit, PickerType, WellFormed
<1>2. InputTypeOK
  BY <1>1 DEF InputInit, InputTypeOK, Targets
<1>3. OneModal /\ ReportsMatchTarget
  BY DEF InputInit, OneModal, ReportsMatchTarget
<1>. QED BY <1>2, <1>3 DEF InputInv

\* What a choice does to the picker, the target and the polls.
LEMMA ApplyKeeps ==
    ASSUME InputInv, NEW choice \in picker.choices, Apply(choice),
           UNCHANGED <<running, fx, focus, filtering, windows, shown>>, strayed' \in BOOLEAN
    PROVE  InputInv'
<1>. USE DEF InputInv
<1>1. CASE picker.stage = "session" /\ choice # AllSessions
  <2>1. choice \in Sessions
    BY <1>1 DEF InputTypeOK, WellFormed
  <2>2. picker' = WindowStage(choice) /\ UNCHANGED <<open, target, due>>
    BY <1>1 DEF Apply
  <2>3. picker' \in PickerType /\ WellFormed(picker')
    BY <2>1, <2>2, StagesAreTyped
  <2>4. InputTypeOK'
    BY <2>2, <2>3 DEF InputTypeOK, WellFormed
  <2>5. OneModal' /\ ReportsMatchTarget'
    BY <2>2 DEF OneModal, ReportsMatchTarget
  <2>. QED BY <2>4, <2>5
<1>2. CASE ~(picker.stage = "session" /\ choice # AllSessions)
  <2>1. choice \in Targets
    BY <1>2 DEF InputTypeOK, WellFormed, PickerType, Targets
  <2>2. /\ target' = choice /\ open' = open \ {"target"} /\ due'
        /\ picker' = [picker EXCEPT !.at = {choice}]
    BY <1>2 DEF Apply, DueAfterSwitch
  <2>3. picker' \in PickerType /\ WellFormed(picker')
    BY <2>2 DEF InputTypeOK, PickerType, WellFormed
  <2>4. InputTypeOK'
    BY <2>1, <2>2, <2>3 DEF InputTypeOK, WellFormed
  <2>5. OneModal' /\ ReportsMatchTarget'
    BY <2>2 DEF OneModal, ReportsMatchTarget
  <2>. QED BY <2>4, <2>5
<1>. QED BY <1>1, <1>2

LEMMA InputInvStep == InputInv /\ [InputNext]_inputVars => InputInv'
<1>. SUFFICES ASSUME InputInv, [InputNext]_inputVars PROVE InputInv'
  OBVIOUS
<1>. USE DEF InputInv
<1>0. open \subseteq Modals /\ picker \in PickerType /\ WellFormed(picker)
  BY DEF InputTypeOK
<1>1. ASSUME NEW answers \in BOOLEAN, PollTarget(answers) PROVE InputInv'
  BY <1>1 DEF PollTarget, input, InputTypeOK, WellFormed, OneModal, ReportsMatchTarget
<1>2. CASE BecomeDue
  BY <1>2 DEF BecomeDue, input, InputTypeOK, WellFormed, OneModal, ReportsMatchTarget
<1>3. CASE FxStarts \/ FxEnds
  BY <1>3 DEF FxStarts, FxEnds, InputTypeOK, WellFormed, OneModal, ReportsMatchTarget
<1>4. CASE CloseByKey \/ CloseByMouse
  BY <1>4 DEF CloseByKey, CloseByMouse, InputTypeOK, WellFormed, OneModal, ReportsMatchTarget
<1>5. ASSUME NEW celebrate \in BOOLEAN, ConfirmAction(celebrate) PROVE InputInv'
  BY <1>5 DEF ConfirmAction, InputTypeOK, WellFormed, OneModal, ReportsMatchTarget
<1>6. ASSUME NEW choice \in picker.choices, PickerMove(choice) PROVE InputInv'
  <2>1. picker' = [picker EXCEPT !.at = {choice}]
    BY <1>6 DEF PickerMove
  <2>2. picker' \in PickerType /\ WellFormed(picker')
    BY <1>0, <2>1 DEF PickerType, WellFormed
  <2>. QED BY <1>6, <2>2 DEF PickerMove, input, InputTypeOK, WellFormed, OneModal, ReportsMatchTarget
<1>7. ASSUME NEW choice \in picker.choices, PickerClick(choice) PROVE InputInv'
  BY <1>7, ApplyKeeps DEF PickerClick
<1>8. CASE PickerBack
  <2>1. picker' \in PickerType /\ WellFormed(picker')
    BY <1>8, StagesAreTyped DEF PickerBack
  <2>2. strayed' \in BOOLEAN
    BY <1>8 DEF PickerBack
  <2>. QED BY <1>8, <2>1, <2>2 DEF PickerBack, input, InputTypeOK, WellFormed, OneModal, ReportsMatchTarget
<1>9. CASE PickerEnter
  <2>1. PICK choice \in picker.at : Apply(choice)
    BY <1>9 DEF PickerEnter
  <2>2. choice \in picker.choices
    BY <1>0 DEF WellFormed
  <2>3. strayed' \in BOOLEAN
    BY <1>9 DEF PickerEnter
  <2>. QED BY <1>9, <2>1, <2>2, <2>3, ApplyKeeps DEF PickerEnter
<1>10. CASE Filter \/ ToggleFocus
  BY <1>10 DEF Filter, ToggleFocus, InputTypeOK, WellFormed, OneModal, ReportsMatchTarget
<1>11. ASSUME NEW modal \in Modals, OpenByKey(modal) PROVE InputInv'
  <2>1. open = {} /\ open' = {modal}
    BY <1>0, <1>11, Owners DEF OpenByKey
  <2>2. picker' \in PickerType /\ WellFormed(picker')
    BY <1>0, <1>11, StagesAreTyped DEF OpenByKey
  <2>3. strayed' \in BOOLEAN
    BY <1>11 DEF OpenByKey, InputTypeOK
  <2>. QED BY <1>11, <2>1, <2>2, <2>3 DEF OpenByKey, InputTypeOK, WellFormed, OneModal, ReportsMatchTarget
<1>12. CASE OpenGit
  <2>1. open = {} /\ open' = {"git"}
    BY <1>0, <1>12, Owners DEF OpenGit
  <2>. QED BY <1>12, <2>1 DEF OpenGit, Modals, InputTypeOK, WellFormed, OneModal, ReportsMatchTarget
<1>13. CASE Quit
  BY <1>13 DEF Quit, input, InputTypeOK, WellFormed, OneModal, ReportsMatchTarget
<1>14. ASSUME NEW next \in SUBSET AllWindows, WindowsChange(next) PROVE InputInv'
  BY <1>14 DEF WindowsChange, input, InputTypeOK, WellFormed, OneModal, ReportsMatchTarget
<1>15. CASE UNCHANGED inputVars
  BY <1>15 DEF inputVars, input, InputTypeOK, WellFormed, OneModal, ReportsMatchTarget
<1>. QED
  BY <1>1, <1>2, <1>3, <1>4, <1>5, <1>6, <1>7, <1>8, <1>9, <1>10, <1>11, <1>12, <1>13,
     <1>14, <1>15 DEF InputNext

-----------------------------------------------------------------------------
(* Where the picker is *)

\* The open picker is at what is watched until something leads it away.
PickerAtHome == ("target" \in open /\ ~strayed) => picker.at = {Home(picker.stage)}

\* The picker that owns the keys is open.
LEMMA PickerIsOpen ==
    ASSUME open \subseteq Modals, KeyOwner = "target"
    PROVE  "target" \in open
<1>1. FirstOpen(KeyOrder) = "target"
  BY DEF KeyOwner
<1>2. open # {}
  BY <1>1 DEF FirstOpen
<1>. QED BY <1>1, <1>2, OwnerIsOpen, OrdersAreComplete

\* A stage whose list has what is watched starts there.
LEMMA StageStartsAtHome ==
    /\ Home("session") \in SessionChoices => SessionStage.at = {Home("session")}
    /\ \A s : target \in WindowChoices(s) => WindowStage(s).at = {target}
BY DEF SessionStage, WindowStage, StartAt, Home

\* Enter at what is watched goes on to its windows or chooses it again.
LEMMA EnterStaysHome ==
    ASSUME InputTypeOK, PickerAtHome, PickerEnter
    PROVE  PickerAtHome' /\ (target' # target => strayed')
<1>1. "target" \in open
  BY PickerIsOpen DEF PickerEnter, InputTypeOK
<1>2. PICK choice \in picker.at : Apply(choice)
  BY DEF PickerEnter
<1>3. strayed' = (strayed \/ ("target" \in open' /\ target \notin picker'.choices))
  BY DEF PickerEnter
<1>4. picker.stage \in {"session", "window"}
  BY DEF InputTypeOK, PickerType
<1>5. CASE picker.stage = "session" /\ choice # AllSessions
  <2>1. picker' = WindowStage(choice) /\ UNCHANGED <<open, target, due>>
    BY <1>2, <1>5 DEF Apply
  <2>2. picker'.stage = "window" /\ picker'.choices = WindowChoices(choice)
    BY <2>1 DEF WindowStage
  <2>3. ~strayed' => picker'.at = {target}
    BY <1>1, <1>3, <2>1, <2>2, StageStartsAtHome
  <2>. QED BY <2>1, <2>2, <2>3 DEF PickerAtHome, Home
<1>6. CASE ~(picker.stage = "session" /\ choice # AllSessions)
  <2>1. target' = choice /\ open' = open \ {"target"}
    BY <1>2, <1>6 DEF Apply
  <2>2. ASSUME ~strayed PROVE choice = target
    <3>1. choice = Home(picker.stage)
      BY <1>1, <1>2, <2>2 DEF PickerAtHome
    <3>2. CASE picker.stage = "window"
      BY <3>1, <3>2 DEF Home
    <3>3. CASE picker.stage = "session"
      <4>1. choice = AllSessions
        BY <1>6, <3>3
      <4>2. CASE target = AllSessions
        BY <4>1, <4>2
      <4>3. CASE target # AllSessions
        <5>1. target \in AllWindows /\ choice = SessionOf(target)
          BY <3>1, <3>3, <4>3 DEF Home, InputTypeOK, Targets
        <5>. QED BY <4>1, <5>1, WindowsAssumption DEF Sessions
      <4>. QED BY <4>2, <4>3
    <3>. QED BY <1>4, <3>2, <3>3
  <2>. QED BY <1>3, <2>1, <2>2 DEF PickerAtHome
<1>. QED BY <1>5, <1>6

LEMMA PickerStep ==
    ASSUME InputInv, PickerAtHome, [InputNext]_inputVars
    PROVE  PickerAtHome' /\ (target' # target => strayed')
<1>. DEFINE Stays == PickerAtHome' /\ (target' # target => strayed')
<1>0. InputTypeOK /\ open \subseteq Modals
  BY DEF InputInv, InputTypeOK
<1>1. ASSUME open' \subseteq open \/ "target" \notin open',
             UNCHANGED <<picker, strayed, target>>
      PROVE  Stays
  BY <1>1 DEF PickerAtHome, Home
<1>2. CASE \/ \E answers \in BOOLEAN : PollTarget(answers)
           \/ BecomeDue \/ FxStarts \/ FxEnds \/ CloseByKey \/ CloseByMouse
           \/ \E celebrate \in BOOLEAN : ConfirmAction(celebrate)
           \/ Filter \/ ToggleFocus \/ Quit
           \/ \E next \in SUBSET AllWindows : WindowsChange(next)
           \/ UNCHANGED inputVars
  <2>1. open' \subseteq open /\ UNCHANGED <<picker, strayed, target>>
    BY <1>2 DEF PollTarget, BecomeDue, FxStarts, FxEnds, CloseByKey, CloseByMouse, ConfirmAction,
                Filter, ToggleFocus, Quit, WindowsChange, inputVars, input
  <2>. QED BY <1>1, <2>1
<1>3. CASE OpenGit
  <2>1. open' = {"git"} /\ UNCHANGED <<picker, strayed, target>>
    BY <1>0, <1>3, Owners DEF OpenGit
  <2>. QED BY <1>1, <2>1
<1>4. ASSUME NEW modal \in Modals, OpenByKey(modal) PROVE Stays
  <2>1. open' = {modal} /\ target' = target
    BY <1>0, <1>4, Owners DEF OpenByKey
  <2>2. CASE modal # "target"
    BY <1>1, <1>4, <2>1, <2>2 DEF OpenByKey
  <2>3. CASE modal = "target"
    <3>1. picker' = SessionStage /\ strayed' = (Home("session") \notin SessionChoices)
      BY <1>4, <2>3 DEF OpenByKey
    <3>2. picker'.stage = "session"
      BY <3>1 DEF SessionStage
    <3>3. ~strayed' => picker'.at = {Home("session")}
      BY <3>1, StageStartsAtHome
    <3>. QED BY <2>1, <3>2, <3>3 DEF PickerAtHome, Home
  <2>. QED BY <2>2, <2>3
<1>5. ASSUME NEW choice \in picker.choices, PickerMove(choice) \/ PickerClick(choice) PROVE Stays
  <2>1. strayed'
    BY <1>5 DEF PickerMove, PickerClick
  <2>. QED BY <2>1 DEF PickerAtHome
<1>6. CASE PickerBack
  <2>1. /\ picker' = SessionStage /\ strayed' = (Home("session") \notin SessionChoices)
        /\ target' = target
    BY <1>6 DEF PickerBack
  <2>2. picker'.stage = "session"
    BY <2>1 DEF SessionStage
  <2>3. ~strayed' => picker'.at = {Home("session")}
    BY <2>1, StageStartsAtHome
  <2>. QED BY <2>1, <2>2, <2>3 DEF PickerAtHome, Home
<1>7. CASE PickerEnter
  BY <1>0, <1>7, EnterStaysHome
<1>. QED BY <1>2, <1>3, <1>4, <1>5, <1>6, <1>7 DEF InputNext

-----------------------------------------------------------------------------
(* The theorems *)

\* Every state has the types InputTypeOK names, the picker's stages included.
THEOREM InputTypes == InputSpec => []InputTypeOK
<1>1. InputInv => InputTypeOK
  BY DEF InputInv
<1>. QED BY <1>1, InputInvInit, InputInvStep, PTL DEF InputSpec

\* Whatever opens and closes overlays, one modal at most is open (OneModal).
THEOREM OneOwner == InputSpec => []OneModal
<1>1. InputInv => OneModal
  BY DEF InputInv
<1>. QED BY <1>1, InputInvInit, InputInvStep, PTL DEF InputSpec

\* Unless a poll is due, the reports shown are those of the selected target
\* (ReportsMatchTarget).
THEOREM TargetIsShown == InputSpec => []ReportsMatchTarget
<1>1. InputInv => ReportsMatchTarget
  BY DEF InputInv
<1>. QED BY <1>1, InputInvInit, InputInvStep, PTL DEF InputSpec

\* At either stage the picker is at what is watched until another choice is
\* highlighted or clicked or the lists no longer have it, and until then no Enter
\* switches the target (PickerStartsAtTarget).
THEOREM PickerIsAtTarget == InputSpec => PickerStartsAtTarget
<1>. DEFINE AtHome   == ("target" \in open' /\ ~strayed') => picker'.at = {Home(picker.stage)'}
            Unswitched == target' # target => strayed'
<1>1. InputInit => PickerAtHome
  BY DEF InputInit, PickerAtHome
<1>2. InputInv /\ PickerAtHome /\ [InputNext]_inputVars => PickerAtHome'
  BY PickerStep
<1>3. InputInv /\ PickerAtHome /\ [InputNext]_inputVars => [Unswitched /\ AtHome]_inputVars
  BY PickerStep DEF PickerAtHome
<1>. QED
  BY <1>1, <1>2, <1>3, InputInvInit, InputInvStep, PTL DEF InputSpec, PickerStartsAtTarget
=============================================================================
