------------------------- MODULE ObserveLoopHistory -------------------------
(***************************************************************************)
(* ObserveLoop with a history variable: the log of what every poll showed  *)
(* of every pane. Under it the loop implements PaneReports.                *)
(***************************************************************************)
EXTENDS ObserveLoop

VARIABLE log

Entry(p) ==
    IF reports'[p].dead
    THEN [kind |-> "dead", at |-> tick, conflict |-> identity_conflicts_logged'[p] # None]
    ELSE [kind |-> "alive", at |-> tick, obs |-> reports'[p].obs]

\* A poll leaves a "missing" entry for a pane that was there in the last one.
Vanished(p) == p \in known /\ p \notin known'

LogNext ==
    log' = [p \in Panes |->
        IF pending[p] # "none" /\ pending'[p] = "none" THEN Append(log[p], Entry(p))
        ELSE IF Vanished(p) THEN Append(log[p], [kind |-> "missing", at |-> tick'])
        ELSE log[p]]

HistoryInit == log = [p \in Panes |-> <<>>] /\ Init

HistoryNext ==
    \/ \E error \in Errors : ListFails(error) /\ LogNext
    \/ \E listed \in [Panes -> {"none", "alive", "dead"}] : ListPanes(listed) /\ LogNext
    \/ \E p \in Panes, conflict \in BOOLEAN : ObserveDead(p, conflict) /\ LogNext
    \/ \E p \in Panes, obs \in Observations : ObserveAlive(p, obs) /\ LogNext
    \/ EndPoll /\ LogNext

HistorySpec == HistoryInit /\ [][HistoryNext]_<<vars, log>>

Promise == INSTANCE PaneReports WITH shown <- reports

\* Every report the loop makes is the one PaneReports defines: idle causes and
\* their entry times, carried-over pressures, drift findings, lifecycle and
\* conflict audits, each from the observations of the present lifetime alone.
ImplementsPaneReports == Promise!Spec
=============================================================================
