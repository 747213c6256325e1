----------------------------- MODULE AlertBoard -----------------------------
(***************************************************************************)
(* What the operator sees of the alert queue and does to it: the rows of   *)
(* AlertQueue with their newness, times and hide deadlines, the selected   *)
(* row, and the keys and clicks that hide rows or undo it                  *)
(* (app/dashboard_state.rs, app/dashboard_runtime.rs).                     *)
(*                                                                         *)
(* Time is kept as what is left of a deadline and as the age of a row,     *)
(* both counted in ticks.                                                  *)
(***************************************************************************)
EXTENDS AlertQueue

CONSTANTS
    Notices,        \* the system notices that can be raised
    Listings,       \* what polls can report: sets of recommendations and findings
    HideDelay,      \* ALERT_AUTO_HIDE_DELAY in ticks
    AgeCap,         \* rows of this age or more count as equally old
    None

Listed(listing, raised) == listing \union raised

ASSUME AlertsAssumption ==
    /\ Notices \union UNION Listings \subseteq AlertType
    /\ \A a \in Notices : a.kind = "SystemNotice" /\ a.category = "none"
    /\ \A a, b \in Notices \union UNION Listings : a.id = b.id => a = b
    /\ IsFiniteSet(Notices \union UNION Listings)
ASSUME TimesAssumption == HideDelay \in Nat \ {0} /\ AgeCap \in Nat

VARIABLES
    reported,   \* the recommendations and findings of the last poll
    notices,    \* the notices that were not cleared
    previous,   \* previous_alerts: the keys of the last refresh
    fresh,      \* fresh_alerts: those the refresh before did not have
    age,        \* alert_times: the age of each key
    hidden,     \* alert_hide_deadlines: what is left of them, 0 once passed
    selected,   \* the selected row, or 0
    click       \* last_alert_click: the key of a first click, or None

tracked == <<previous, fresh, age, hidden>>
vars    == <<reported, notices, tracked, selected, click>>

Keys == SUBSET (Notices \union UNION Listings)

TypeOK ==
    /\ reported \in Listings \union {{}} /\ notices \subseteq Notices
    /\ previous \subseteq Keys /\ fresh \subseteq previous
    /\ DOMAIN age = previous /\ \A k \in previous : age[k] \in 0..AgeCap
    /\ DOMAIN hidden \subseteq Keys /\ \A k \in DOMAIN hidden : hidden[k] \in 0..HideDelay
    /\ selected \in Nat
    /\ click \in Keys \union {None}

-----------------------------------------------------------------------------
(* Rows as they are shown and as they are looked up *)

Gone(deadlines) == {k \in DOMAIN deadlines : deadlines[k] = 0}
Visible == Rows(Listed(reported, notices), Gone(hidden))

\* The drawn order, which clicks are resolved in.
ShownAt(row) == Place(row, Visible, fresh, age, AgeCap + 1)

\* visible_alert_keys: the same rows without newness and times, the order in
\* which the selected row's key is looked up.
LookedUpAt(row) == Place(row, Visible, {}, <<>>, AgeCap + 1)

-----------------------------------------------------------------------------
(* Helpers *)

\* sync_alert_selection: with rows one of them is selected, without none is.
Synced(place, rows) ==
    LET count == Cardinality(rows)
    IN  IF count = 0 THEN 0
        ELSE IF place = 0 THEN 1
        ELSE IF place < count THEN place ELSE count

\* Fault: hide deadlines outlive the row they were set on.
KeptForEver(keys) == hidden

\* A deadline is dropped with its key.
Kept(keys) == [k \in DOMAIN hidden \cap keys |-> hidden[k]]

\* Fault: the members of a flow keep deadlines of their own.
KeysAndMembers(listed) == Fingerprints(listed) \union {{a} : a \in listed}

\* The keys whose deadlines, times and newness are tracked.
TrackedKeys(listed) == Fingerprints(listed)

\* refresh_alert_state, then sync_alert_selection.
Refresh(listing, raised) ==
    LET listed  == Listed(listing, raised)
        current == TrackedKeys(listed)
    IN  /\ reported' = listing /\ notices' = raised
        /\ hidden' = Kept(current)
        /\ fresh' = current \ previous
        /\ age' = [k \in current |-> IF k \in previous THEN age[k] ELSE 0]
        /\ previous' = current
        /\ selected' = Synced(selected, Rows(listed, Gone(hidden')))

Scheduled(key) == key \in DOMAIN hidden

\* The deadline of one key is undone if there is one, else set.
Toggled(key) ==
    IF Scheduled(key) THEN [k \in DOMAIN hidden \ {key} |-> hidden[k]]
    ELSE [k \in DOMAIN hidden \union {key} |-> IF k = key THEN HideDelay ELSE hidden[k]]

\* toggle_selected_alert_hide: the key at this place of the lookup order.
ToggleAt(place) ==
    /\ \/ \E key \in Visible : LookedUpAt(key) = place /\ hidden' = Toggled(key)
       \/ (\A key \in Visible : LookedUpAt(key) # place) /\ UNCHANGED hidden
    /\ selected' = Synced(place, Rows(Listed(reported, notices), Gone(hidden')))

-----------------------------------------------------------------------------
(* Actions *)

Init ==
    /\ reported = {} /\ notices \in SUBSET Notices
    /\ previous = Fingerprints(notices) /\ fresh = previous
    /\ age = [k \in previous |-> 0] /\ hidden = <<>>
    /\ selected = Synced(0, previous) /\ click = None

\* A poll answered: its reports, and a notice if it raised one. (One that failed
\* raises a notice with the reports unchanged, or does nothing.)
Poll(listing, raised) ==
    /\ Refresh(listing, notices \union raised)
    /\ UNCHANGED click

\* Keys push a notice (the same again, perhaps), c clears all, r replaces them.
ChangeNotices(raised) ==
    /\ Refresh(reported, raised)
    /\ UNCHANGED click

\* One tick passes, and the next frame starts with sync_alert_selection.
Tick ==
    /\ hidden' = [k \in DOMAIN hidden |-> IF hidden[k] = 0 THEN 0 ELSE hidden[k] - 1]
    /\ age' = [k \in DOMAIN age |-> IF age[k] = AgeCap THEN AgeCap ELSE age[k] + 1]
    /\ selected' = Synced(selected, Rows(Listed(reported, notices), Gone(hidden')))
    /\ UNCHANGED <<reported, notices, previous, fresh, click>>

\* Arrow and page keys, Home, End and the wheel; the wheel turned up and a
\* click outside the rows forget a first click. (A filter that leaves fewer rows
\* on the screen pulls the selection up to them.)
Move(place, forget) ==
    /\ place \in 1..Cardinality(Visible) \union {selected}
    /\ selected' = place
    /\ click' = IF forget THEN None ELSE click
    /\ UNCHANGED <<reported, notices, tracked>>

\* Enter or Space.
HideSelected ==
    /\ selected # 0
    /\ ToggleAt(selected)
    /\ UNCHANGED <<reported, notices, previous, fresh, age, click>>

\* A click on the dismiss line of the row shown at this place.
ClickDismiss(place) ==
    /\ place \in 1..Cardinality(Visible)
    /\ ToggleAt(place) /\ click' = None
    /\ UNCHANGED <<reported, notices, previous, fresh, age>>

\* A click elsewhere on that row selects it, and toggles it when it is the second
\* one on the same key, soon after the first.
ClickRow(place, soon) ==
    \E key \in Visible :
        /\ LookedUpAt(key) = place
        /\ IF click = key /\ soon
           THEN ToggleAt(place) /\ click' = None
           ELSE selected' = place /\ click' = key /\ UNCHANGED hidden
        /\ UNCHANGED <<reported, notices, previous, fresh, age>>

\* The severity chip over the rows: undo when all its rows are scheduled, else
\* schedule them all afresh.
ClickChip(severity) ==
    LET keys == {k \in Visible : IsActionable(k) /\ SeverityOf(k) = severity}
    IN  /\ keys # {}
        /\ hidden' = IF \A k \in keys : Scheduled(k)
                     THEN [k \in DOMAIN hidden \ keys |-> hidden[k]]
                     ELSE [k \in DOMAIN hidden \union keys |->
                              IF k \in keys THEN HideDelay ELSE hidden[k]]
        /\ selected' = Synced(selected, Rows(Listed(reported, notices), Gone(hidden')))
        /\ click' = None
        /\ UNCHANGED <<reported, notices, previous, fresh, age>>

Next ==
    \/ \E listing \in Listings, raised \in SUBSET Notices : Poll(listing, raised)
    \/ \E raised \in SUBSET Notices : ChangeNotices(raised)
    \/ Tick
    \/ \E place \in 0..Cardinality(Visible) :
           \/ \E forget \in BOOLEAN : Move(place, forget)
           \/ \E soon \in BOOLEAN : ClickRow(place, soon)
           \/ ClickDismiss(place)
    \/ HideSelected
    \/ \E severity \in Severities : ClickChip(severity)

Spec == Init /\ [][Next]_vars

-----------------------------------------------------------------------------
(* Properties *)

\* Hiding takes away the rows it was set on and nothing else: no alert joins or
\* leaves a flow because another one is hidden, and the members of a hidden flow
\* stay hidden with it (project_alert_entries with refresh_alert_state).
HidesNeverRegroup ==
    Visible = Fingerprints(Listed(reported, notices)) \ Gone(hidden)

\* No alert on the screen is more severe than a row above it, alone or in a flow
\* (sort_entries, build_context_recovery_flow).
UrgentFirst ==
    \A row, other \in Visible : ShownAt(row) < ShownAt(other) =>
        \E a \in row : \A b \in other : b.severity <= a.severity

\* An alert that comes back after it had gone is shown again, although it was
\* hidden before (refresh_alert_state).
ComesBackVisible == [][previous' \ previous \subseteq Visible']_vars

\* A double click, and a click on the dismiss line, hide the alert that the screen
\* shows where they hit, or undo that (ui/dashboard.rs, "toggle hide on the clicked
\* alert").
HideHitsTheShownAlert ==
    [][\A row \in Visible :
          /\ hidden' # hidden
          /\ \/ ClickDismiss(ShownAt(row))
             \/ \E soon \in BOOLEAN : ClickRow(ShownAt(row), soon)
          => (Scheduled(row) <=> row \notin DOMAIN hidden')]_vars
=============================================================================
