----------------------------- MODULE CostBudget -----------------------------
(***************************************************************************)
(* The budget ledger (store/cost_usage.rs): the positive deltas of the     *)
(* cumulative session costs that the panes show, the one-shot claims of    *)
(* the 80 % and 100 % alerts, and the recommendations the event loop makes *)
(* of them.  The ledger and the claims are on disk and survive a restart,  *)
(* which prunes old rows of the ledger (store/retention.rs).               *)
(*                                                                         *)
(* What a pane shows is not measured: the adapters of Codex and Gemini     *)
(* multiply all tokens of the session with the price of the model that is  *)
(* selected now.  Money is counted in units; the clock never steps back.   *)
(***************************************************************************)
EXTENDS Naturals, Sequences, FiniteSetsExt

CONSTANTS
    CostPanes,      \* the panes that show a cost
    Rates,          \* price of a token, per model
    Budgets,        \* values of [cost] budget_usd; 0 disables the alerts
    UnitsPerCent,
    MinDelta,       \* MIN_COST_DELTA_USD
    RetentionDays,  \* [logging] retention_days; 0, which disables the sweep, is ~swept
    MaxWork,        \* bound: tokens of work in one pane
    MaxSwitches,    \* bound: changes of the model within a session, per pane
    MaxDay          \* bound: the last day

ASSUME CostAssumption ==
    /\ IsFiniteSet(CostPanes)
    /\ Rates \subseteq Nat \ {0} /\ \E dearest \in Rates : \A r \in Rates : dearest >= r
    /\ Budgets # {} /\ Budgets \subseteq Nat
    /\ UnitsPerCent \in Nat \ {0} /\ MinDelta \in Nat /\ RetentionDays \in Nat \ {0}
    /\ MaxWork \in Nat /\ MaxSwitches \in Nat /\ MaxDay \in Nat

Thresholds == {8000, 10000}     \* in basis points
Cents      == {(b + UnitsPerCent \div 2) \div UnitsPerCent : b \in Budgets}
Claims     == Thresholds \X Cents
Row        == [day : 0..MaxDay, delta : Nat \ 0..MinDelta, cum : Nat]

VARIABLES
    tokens,         \* tokens of the session that runs in a pane
    rate,           \* the price of the model selected in a pane
    worked,         \* history: tokens of all sessions of a pane
    switches,       \* history: how often a session of a pane changed its model
    rows,           \* cost_usage_events of a pane, by id
    claims,         \* cost_budget_alerts, keyed by (threshold_bps, budget_cents)
    budget,         \* [cost] budget_usd
    step,           \* "observe"; "report" while the alerts of a pane are in memory
    raised,         \* the alerts claimed for the pane of step "report"
    told,           \* history: how often an alert was reported
    day

ledgerVars == <<tokens, rate, worked, switches, rows, claims, budget, step, raised, told, day>>

LedgerTypeOK ==
    /\ tokens \in [CostPanes -> 0..MaxWork] /\ rate \in [CostPanes -> Rates]
    /\ worked \in [CostPanes -> 0..MaxWork]
    /\ switches \in [CostPanes -> 0..MaxSwitches]
    /\ rows \in [CostPanes -> Seq(Row)]
    /\ claims \subseteq Claims /\ raised \subseteq claims
    /\ budget \in Budgets /\ step \in {"observe", "report"} /\ day \in 0..MaxDay
    /\ told \in [Claims -> Nat]

-----------------------------------------------------------------------------
(* Helpers *)

\* cost_usd of the adapters.
Reading(p) == tokens[p] * rate[p]

\* Fault: the pane's first reading.
PreviousFirst(rs) == IF rs = <<>> THEN 0 ELSE rs[1].cum

\* The cumulative cost of the pane's latest row; no row counts from zero.
Previous(rs) == IF rs = <<>> THEN 0 ELSE rs[Len(rs)].cum

\* A lower reading is a new session and counts whole.
Delta(rs, cum) == IF cum >= Previous(rs) THEN cum - Previous(rs) ELSE cum

\* record_observation_via: a reading that did not move leaves no row.
RecordObservation(rs, cum) ==
    IF Delta(rs, cum) <= MinDelta THEN rs
    ELSE Append(rs, [day |-> day, delta |-> Delta(rs, cum), cum |-> cum])

\* The deltas of a pane's rows, summed up.
Counted(rs) ==
    LET sum[i \in 0..Len(rs)] == IF i = 0 THEN 0 ELSE sum[i - 1] + rs[i].delta
    IN  sum[Len(rs)]

\* Fault: an alert looks at the dearest pane only.
TotalSpentOfDearestPane(rss) ==
    CHOOSE n \in {Counted(rss[p]) : p \in CostPanes} : \A p \in CostPanes : n >= Counted(rss[p])

TotalSpent(rss) == MapThenSumSet(LAMBDA p : Counted(rss[p]), CostPanes)

BudgetCents == (budget + UnitsPerCent \div 2) \div UnitsPerCent

\* The claims that a ledger of total n makes due (claim_budget_alerts_via).
Due(n) ==
    {<<bps, BudgetCents>> : bps \in
        {t \in Thresholds : budget > 0 /\ (n + MinDelta) * 10000 >= budget * t}}

\* Fault: the claims are forgotten with the old rows.
ClaimsForgotten == {}

\* The claims a restart finds: the sweep does not prune them.
ClaimsAfterRestart == claims

\* sweep: the rows of the retention window.
Pruned(rs) ==
    LET kept[i \in 0..Len(rs)] ==
            IF i = 0 THEN <<>>
            ELSE IF rs[i].day + RetentionDays > day THEN Append(kept[i - 1], rs[i])
            ELSE kept[i - 1]
    IN  kept[Len(rs)]

-----------------------------------------------------------------------------
(* Actions *)

LedgerInit ==
    /\ tokens = [p \in CostPanes |-> 0] /\ worked = [p \in CostPanes |-> 0]
    /\ rate \in [CostPanes -> Rates] /\ switches = [p \in CostPanes |-> 0]
    /\ rows = [p \in CostPanes |-> <<>>] /\ claims = {}
    /\ budget \in Budgets
    /\ step = "observe" /\ raised = {} /\ told = [c \in Claims |-> 0]
    /\ day = 0

\* The provider in the pane works.
Work(p) ==
    /\ worked[p] < MaxWork
    /\ tokens' = [tokens EXCEPT ![p] = @ + 1]
    /\ worked' = [worked EXCEPT ![p] = @ + 1]
    /\ UNCHANGED <<rate, switches, rows, claims, budget, step, raised, told, day>>

\* The provider in the pane starts a new session, with any model.
NewSession(p, r) ==
    /\ tokens[p] > 0
    /\ tokens' = [tokens EXCEPT ![p] = 0] /\ rate' = [rate EXCEPT ![p] = r]
    /\ UNCHANGED <<worked, switches, rows, claims, budget, step, raised, told, day>>

\* The operator selects another model in the pane, in the same session.
SwitchModel(p, r) ==
    /\ tokens[p] > 0 /\ r # rate[p] /\ switches[p] < MaxSwitches
    /\ rate' = [rate EXCEPT ![p] = r] /\ switches' = [switches EXCEPT ![p] = @ + 1]
    /\ UNCHANGED <<tokens, worked, rows, claims, budget, step, raised, told, day>>

\* The poll reaches a pane with a cost.  A write that fails (~recorded) is only
\* logged.  The claims are rows of their own: when a later statement fails
\* (done is what was claimed before), the alerts already claimed are dropped.
Observe(p, recorded, failed, done) ==
    LET ledger == IF recorded THEN [rows EXCEPT ![p] = RecordObservation(@, Reading(p))] ELSE rows
        due    == Due(TotalSpent(ledger))
        new    == {c \in due \ claims : ~failed \/ c[1] \in done}
    IN
    /\ step = "observe" /\ tokens[p] > 0
    /\ rows' = ledger
    /\ claims' = claims \union new
    /\ step' = IF failed THEN "observe" ELSE "report"
    /\ raised' = IF failed THEN {} ELSE new
    /\ UNCHANGED <<tokens, rate, worked, switches, budget, told, day>>

\* The pane's recommendations are written to the audit log and to its report.
Report ==
    /\ step = "report"
    /\ told' = [c \in Claims |-> IF c \in raised THEN told[c] + 1 ELSE told[c]]
    /\ step' = "observe" /\ raised' = {}
    /\ UNCHANGED <<tokens, rate, worked, switches, rows, claims, budget, day>>

\* The process ends anywhere and starts again; its sweep may fail.
Restart(swept) ==
    /\ rows' = IF swept THEN [p \in CostPanes |-> Pruned(rows[p])] ELSE rows
    /\ claims' = ClaimsAfterRestart
    /\ budget' \in Budgets
    /\ step' = "observe" /\ raised' = {}
    /\ UNCHANGED <<tokens, rate, worked, switches, told, day>>

NextDay ==
    /\ day < MaxDay /\ day' = day + 1
    /\ UNCHANGED <<tokens, rate, worked, switches, rows, claims, budget, step, raised, told>>

LedgerNext ==
    \/ \E p \in CostPanes : Work(p)
    \/ \E p \in CostPanes, r \in Rates : NewSession(p, r) \/ SwitchModel(p, r)
    \/ \E p \in CostPanes, recorded, failed \in BOOLEAN, done \in {{}, {8000}} :
           Observe(p, recorded, failed, done)
    \/ Report
    \/ \E swept \in BOOLEAN : Restart(swept)
    \/ NextDay

LedgerSpec == LedgerInit /\ [][LedgerNext]_ledgerVars

-----------------------------------------------------------------------------
(* Properties *)

Overcounted(p) == \A r \in Rates : Counted(rows[p]) > worked[p] * r

\* As long as no session changes its model, the ledger never holds more than the
\* tokens of all sessions cost at the dearest price, through new sessions,
\* failed writes, restarts and pruned rows (record_observation_via). A session
\* that switches to a cheaper model is taken for a new one and counted again.
SteadyLedgerNeverOvercounts == \A p \in CostPanes : switches[p] = 0 => ~Overcounted(p)

\* An alert of one budget is reported at most once, in all the runs of the
\* program together: its claim outlives the ledger's rows (claim_budget_alerts).
EachAlertOnce == \A c \in Claims : told[c] <= 1

LedgerTotal == MapThenSumSet(LAMBDA p : Counted(rows[p]), CostPanes)

\* When the alerts of a poll were claimed without an error, no threshold that
\* the ledger of all panes has reached is left unclaimed, whichever pane made
\* it cross and whatever the budget was before (claim_budget_alerts).
ReachedThresholdsAreClaimed ==
    (step = "report" /\ budget > 0) =>
        \A t \in Thresholds :
            LedgerTotal * 10000 >= budget * t => <<t, BudgetCents>> \in claims
=============================================================================
