----------------------------- MODULE PromptSend -----------------------------
(***************************************************************************)
(* The confirmed prompt-send path: the p and d keys of the dashboard, the  *)
(* action explainer modal (app/tui_loop.rs, app/action_explainer.rs), the  *)
(* send gate and its audit events (app/prompt_send_actions.rs,             *)
(* policy/gates.rs) and the two-step send through tmux (tmux/polling.rs,   *)
(* tmux/control_mode.rs, tmux/control_client.rs). The u key sends the      *)
(* status command of the provider the same way (app/runtime_refresh.rs).   *)
(*                                                                         *)
(* The dashboard is one thread: while a send is under way it reads no key  *)
(* and polls nothing, but panes, tmux and a crash do not wait for it.      *)
(***************************************************************************)
EXTENDS Naturals, Sequences

CONSTANTS
    Panes,
    Commands,           \* slash commands, numbered in lexicographic order
    Status,             \* the command that shows the status of a Codex pane
    Listings,           \* what polls can report: sequences of Report
    Modes, ObserveOnly, \* actions.mode
    None

Report == [pane : Panes, cmds : SUBSET Commands, provider : {"Claude", "Codex", "Other"}]

ASSUME CommandsAssumption == Commands \subseteq Nat /\ Status \notin Commands
ASSUME ListingsAssumption ==
    /\ Listings \subseteq Seq(Report)
    /\ \A l \in Listings : \A i, j \in DOMAIN l : l[i].pane = l[j].pane => i = j
ASSUME ModesAssumption == ObserveOnly \in Modes

VARIABLES
    mode, auto_send, confirm_actions,   \* the configuration
    reports,    \* the reports of the last successful poll
    selected,   \* selected row of the pane list, or 0
    overlay,    \* the overlay that owns the keyboard
    pending,    \* ActionExplainModal.pending with the audit chain its view shows
    seen,       \* ActionExplainModal.seen_accept and seen_reject
    chain,      \* the audit events of the latest decision or status request
    sending,    \* the send_keys call under way, or None
    unsent,     \* panes whose input line holds typed text that was not submitted
    promise,    \* history: what the modal behind the latest decision showed, or None
    delivered   \* history: how often the keys of the latest send were executed, and
                \* whether an answer to it was lost

uiVars   == <<overlay, pending, seen>>
confVars == <<mode, auto_send, confirm_actions>>
vars     == <<confVars, reports, selected, uiVars, chain, sending, unsent, promise, delivered>>

-----------------------------------------------------------------------------
(* Types *)

Send     == [pane : Panes, cmd : Commands]
Gates    == {"Blocked", "AutoSendOff", "Execute"}
Action   == [accepting : BOOLEAN, send : Send, gate : Gates]
StatusSend == [pane : Panes, cmd : {Status}]
Kinds    == {"Rejected", "Blocked", "Accepted", "Requested", "Completed", "Failed"}
Event    == [kind : Kinds, pane : Panes, cmd : Commands \union {Status}]
Sending  == [send : Send \union StatusSend, step : {"literal", "submit"}, lost : BOOLEAN, retried : BOOLEAN]
Untouched == [typed |-> 0, submitted |-> 0, lost |-> FALSE]

ASSUME NoneAssumption == None \notin Send \union StatusSend \union Action \union Sending

TypeOK ==
    /\ mode \in Modes /\ auto_send \in BOOLEAN
    /\ confirm_actions \in {"always", "first_time", "never"}
    /\ reports \in Listings \union {<<>>} /\ selected \in 0..Len(reports)
    /\ overlay \in {"none", "settings", "explainer"}
    /\ pending \in Action \union {None} /\ (pending # None <=> overlay = "explainer")
    /\ seen \subseteq {TRUE, FALSE}
    /\ chain \in Seq(Event) /\ Len(chain) <= 2
    /\ sending \in Sending \union {None} /\ unsent \subseteq Panes
    /\ promise \in Action \union {None}
    /\ delivered \in [typed : 0..3, submitted : 0..3, lost : BOOLEAN]

-----------------------------------------------------------------------------
(* Helpers *)

Record(kind, send) == [kind |-> kind, pane |-> send.pane, cmd |-> send.cmd]

\* Fault: the flag alone decides, in every mode.
CheckSendGateByFlag == IF auto_send THEN "Execute" ELSE "AutoSendOff"

CheckSendGate ==
    IF mode = ObserveOnly THEN "Blocked"
    ELSE IF auto_send THEN "Execute" ELSE "AutoSendOff"

\* The proposal of a report with the lowest id: the lowest command, the pane
\* being the same for all.
FirstProposal(report) ==
    [pane |-> report.pane,
     cmd  |-> CHOOSE c \in report.cmds : \A d \in report.cmds : c <= d]

ShouldOpenExplainer(accepting) ==
    \/ confirm_actions = "always"
    \/ confirm_actions = "first_time" /\ accepting \notin seen

\* Fault: confirmation does not look for the proposal in the live reports.
ResolvesAlways(action) == TRUE

\* The snapshotted proposal is still in the live reports.
Resolves(action) ==
    \E i \in DOMAIN reports :
        reports[i].pane = action.send.pane /\ action.send.cmd \in reports[i].cmds

\* Fault: the confirmed pane's first proposal is acted on, not the one shown.
ConfirmFirst(action) ==
    LET shown == {i \in DOMAIN reports :
                    reports[i].pane = action.send.pane /\ reports[i].cmds # {}}
    IN  IF shown = {} THEN action.send ELSE FirstProposal(reports[CHOOSE i \in shown : TRUE])

\* What a confirmed action acts on: the snapshot, never a fresh selection.
Confirmed(action) == action.send

\* The events a decision records before any key is sent.
EventsOf(accepting, send) ==
    IF ~accepting THEN <<Record("Rejected", send)>>
    ELSE CASE CheckSendGate = "Blocked"     -> <<Record("Blocked", send)>>
           [] CheckSendGate = "AutoSendOff" -> <<Record("Accepted", send), Record("Blocked", send)>>
           [] CheckSendGate = "Execute"     -> <<Record("Accepted", send)>>

Started(send) == [send |-> send, step |-> "literal", lost |-> FALSE, retried |-> FALSE]

\* Accept or dismiss one proposal: record it and, past the gate, start sending.
Decide(accepting, send) ==
    /\ chain' = EventsOf(accepting, send)
    /\ sending' = IF accepting /\ CheckSendGate = "Execute" THEN Started(send) ELSE None
    /\ delivered' = Untouched

-----------------------------------------------------------------------------
(* The dashboard *)

Init ==
    /\ mode \in Modes /\ auto_send \in BOOLEAN
    /\ confirm_actions \in {"always", "first_time", "never"}
    /\ reports = <<>> /\ selected = 0
    /\ overlay = "none" /\ pending = None /\ seen = {}
    /\ chain = <<>> /\ sending = None /\ unsent = {}
    /\ promise = None /\ delivered = Untouched

\* sync_pane_selection: a row out of range is dropped.
SyncSelection(listing) == IF selected > Len(listing) THEN 0 ELSE selected

\* A poll replaces the reports. (A failed poll leaves them as they are.)
Poll(listing) ==
    /\ sending = None
    /\ reports' = listing
    /\ selected' = SyncSelection(listing)
    /\ UNCHANGED <<confVars, uiVars, chain, sending, unsent, promise, delivered>>

\* Arrow keys, page keys, Home, End and clicks: any row, or none.
Select(row) ==
    /\ sending = None /\ overlay = "none"
    /\ selected' = row
    /\ UNCHANGED <<confVars, reports, uiVars, chain, sending, unsent, promise, delivered>>

\* The settings overlay edits the running configuration. It cannot be opened
\* while the explainer owns the keyboard.
OpenSettings ==
    /\ sending = None /\ overlay = "none" /\ overlay' = "settings"
    /\ UNCHANGED <<confVars, reports, selected, pending, seen, chain, sending, unsent,
                   promise, delivered>>

ChangeSettings ==
    /\ sending = None /\ overlay = "settings"
    /\ mode' \in Modes /\ auto_send' \in BOOLEAN
    /\ confirm_actions' \in {"always", "first_time", "never"}
    /\ UNCHANGED <<reports, selected, uiVars, chain, sending, unsent, promise, delivered>>

CloseSettings ==
    /\ sending = None /\ overlay = "settings" /\ overlay' = "none"
    /\ UNCHANGED <<confVars, reports, selected, pending, seen, chain, sending, unsent,
                   promise, delivered>>

\* p or d on a pane that has a proposal. Without one there is only a notice.
HasProposal ==
    /\ sending = None /\ overlay = "none"
    /\ selected # 0 /\ reports[selected].cmds # {}

OpenExplainer(accepting) ==
    /\ HasProposal /\ ShouldOpenExplainer(accepting)
    /\ overlay' = "explainer"
    /\ pending' = [accepting |-> accepting, send |-> FirstProposal(reports[selected]),
                   gate |-> CheckSendGate]
    /\ UNCHANGED <<confVars, reports, selected, seen, chain, sending, unsent, promise, delivered>>

ActDirectly(accepting) ==
    /\ HasProposal /\ ~ShouldOpenExplainer(accepting)
    /\ Decide(accepting, FirstProposal(reports[selected]))
    /\ promise' = None
    /\ UNCHANGED <<confVars, reports, selected, uiVars, unsent>>

\* u on a selected pane: the status command is sent to a Codex pane, with no
\* question asked and whatever auto_send says. Claude shows its status anyway, so
\* nothing is sent; the other providers have no such command and only a notice is
\* raised.
RefreshRuntime ==
    /\ sending = None /\ overlay = "none" /\ selected # 0
    /\ LET send == [pane |-> reports[selected].pane, cmd |-> Status]
       IN  \/ /\ reports[selected].provider = "Claude"
              /\ chain' = <<Record("Completed", send)>> /\ UNCHANGED sending
           \/ /\ reports[selected].provider = "Codex"
              /\ IF mode = ObserveOnly
                 THEN chain' = <<Record("Blocked", send)>> /\ UNCHANGED sending
                 ELSE chain' = <<Record("Requested", send)>> /\ sending' = Started(send)
    /\ promise' = None /\ delivered' = Untouched
    /\ UNCHANGED <<confVars, reports, selected, uiVars, unsent>>

\* Enter in the explainer: act on the snapshot, or notice that the proposal
\* vanished. Either way this kind of action counts as seen.
Confirm ==
    /\ sending = None /\ overlay = "explainer"
    /\ seen' = seen \union {pending.accepting}
    /\ overlay' = "none" /\ pending' = None
    /\ IF Resolves(pending)
       THEN Decide(pending.accepting, Confirmed(pending)) /\ promise' = pending
       ELSE UNCHANGED <<chain, sending, promise, delivered>>
    /\ UNCHANGED <<confVars, reports, selected, unsent>>

\* Esc, q, the originating key, or a click on [x].
Cancel ==
    /\ sending = None /\ overlay = "explainer"
    /\ overlay' = "none" /\ pending' = None
    /\ UNCHANGED <<confVars, reports, selected, seen, chain, sending, unsent, promise, delivered>>

-----------------------------------------------------------------------------
(* The send *)

\* Counted up to 3, one more than any send can execute a key.
Counted(n) == IF n < 3 THEN n + 1 ELSE n

\* tmux executed the key command of this step: the literal text fills the input
\* line, the submit key empties it.
InputLines ==
    IF sending.step = "literal" THEN unsent \union {sending.send.pane}
                                ELSE unsent \ {sending.send.pane}
Delivered ==
    IF sending.step = "literal" THEN [delivered EXCEPT !.typed = Counted(@)]
                                ELSE [delivered EXCEPT !.submitted = Counted(@)]

\* Fault: the text alone completes the send.
RemainingNothing(step) == "done"

\* send_keys submits the typed text with a second command.
Remaining(step) == IF step = "literal" THEN "submit" ELSE "done"

Issued == sending # None /\ ~sending.lost
Outcome(kind) == chain' = Append(chain, Record(kind, sending.send)) /\ sending' = None

SendAnswered ==
    /\ Issued
    /\ unsent' = InputLines /\ delivered' = Delivered
    /\ IF Remaining(sending.step) = "done"
       THEN Outcome("Completed")
       ELSE sending' = [sending EXCEPT !.step = Remaining(@), !.retried = FALSE] /\ UNCHANGED chain
    /\ UNCHANGED <<confVars, reports, selected, uiVars, promise>>

\* tmux refuses the command (no such pane, no server): no key is delivered.
SendRefused ==
    /\ Issued
    /\ Outcome("Failed")
    /\ UNCHANGED <<confVars, reports, selected, uiVars, unsent, promise, delivered>>

\* Fault: every lost stream is answered by a reconnect.
MayReconnectAlways == TRUE

\* run_with_reconnect reconnects once for a command.
MayReconnect == ~sending.retried

\* The control-mode stream ends before the answer, whether or not the command
\* was executed. (A process per command has no such stream: it is the case in
\* which none is ever lost.)
SendLost(executed) ==
    /\ Issued
    /\ unsent' = IF executed THEN InputLines ELSE unsent
    /\ delivered' = [IF executed THEN Delivered ELSE delivered EXCEPT !.lost = TRUE]
    /\ IF MayReconnect
       THEN sending' = [sending EXCEPT !.lost = TRUE] /\ UNCHANGED chain
       ELSE Outcome("Failed")
    /\ UNCHANGED <<confVars, reports, selected, uiVars, promise>>

\* A new client attaches, and the same command is issued again; or it does not.
Reconnect(attached) ==
    /\ sending # None /\ sending.lost
    /\ IF attached
       THEN sending' = [sending EXCEPT !.lost = FALSE, !.retried = TRUE] /\ UNCHANGED chain
       ELSE Outcome("Failed")
    /\ UNCHANGED <<confVars, reports, selected, uiVars, unsent, promise, delivered>>

\* The pane's own program drops its input line (the agent or its user acts, or
\* the pane respawns).
PaneClears(pane) ==
    /\ pane \in unsent /\ unsent' = unsent \ {pane}
    /\ UNCHANGED <<confVars, reports, selected, uiVars, chain, sending, promise, delivered>>

\* The program stops at any point and starts again from its config file; the
\* audit table and the panes keep what they have.
Crash ==
    /\ mode' \in Modes /\ auto_send' \in BOOLEAN
    /\ confirm_actions' \in {"always", "first_time", "never"}
    /\ reports' = <<>> /\ selected' = 0
    /\ overlay' = "none" /\ pending' = None /\ seen' = {} /\ sending' = None
    /\ UNCHANGED <<chain, unsent, promise, delivered>>

Tmux ==
    \/ SendAnswered \/ SendRefused
    \/ \E executed \in BOOLEAN : SendLost(executed)
    \/ \E attached \in BOOLEAN : Reconnect(attached)

Next ==
    \/ \E listing \in Listings : Poll(listing)
    \/ \E row \in 0..Len(reports) : Select(row)
    \/ OpenSettings \/ ChangeSettings \/ CloseSettings
    \/ \E accepting \in BOOLEAN : OpenExplainer(accepting) \/ ActDirectly(accepting)
    \/ RefreshRuntime
    \/ Confirm \/ Cancel
    \/ Tmux
    \/ \E pane \in Panes : PaneClears(pane)
    \/ Crash

\* tmux answers every command, or its stream ends: send_keys has no timeout of
\* its own.
Spec == Init /\ [][Next]_vars /\ WF_vars(Tmux)

-----------------------------------------------------------------------------
(* Properties *)

\* A decision confirmed in the explainer records events of the pane, command
\* and chain the modal showed, however polls reordered or changed the proposals
\* and whatever was configured meanwhile (confirm_pending_action).
ModalKeepsItsPromise ==
    promise # None =>
        /\ \A i \in DOMAIN chain :
               chain[i].pane = promise.send.pane /\ chain[i].cmd = promise.send.cmd
        /\ chain[1].kind = IF ~promise.accepting THEN "Rejected"
                           ELSE IF promise.gate = "Blocked" THEN "Blocked" ELSE "Accepted"
        /\ Len(chain) = 2 => (chain[2].kind = "Blocked" <=> promise.gate = "AutoSendOff")

\* Keys go only to a pane that the latest poll still reports with that very
\* proposal, or with a provider that has the status command
\* (resolve_accept_target, handle_runtime_refresh_action).
SendsOnlyLiveProposals ==
    sending # None => \E i \in DOMAIN reports :
        /\ reports[i].pane = sending.send.pane
        /\ \/ sending.send.cmd \in reports[i].cmds
           \/ sending.send.cmd = Status /\ reports[i].provider = "Codex"

\* However often the control-mode stream is lost, no key is repeated more than
\* once, nothing is submitted that was not typed, and a completed send has
\* submitted its command (run_with_reconnect, send_keys).
OutcomeBoundsDelivery ==
    /\ delivered.typed <= 2 /\ delivered.submitted <= 2
    /\ delivered.submitted > 0 => delivered.typed > 0
    /\ (Len(chain) = 2 /\ chain[2].kind = "Completed") => delivered.submitted > 0

\* A send that was started comes to its outcome: the retry cannot repeat for ever.
EverySendEnds == sending # None ~> sending = None

\* The dashboard with its modal, its gates and its transport does what
\* PromptAudit promises.
Promise == INSTANCE PromptAudit WITH open <- IF sending = None THEN None ELSE sending.send
ImplementsPromptAudit == Promise!Spec

\* What the audit log says of a send is what its pane got, unless an answer of
\* tmux was lost on the way (send_keys, execute_prompt_send).
AuditTellsOfAnsweredSends ==
    (Len(chain) = 2 /\ chain[1].kind \in {"Accepted", "Requested"} /\ ~delivered.lost) =>
        /\ chain[2].kind = "Completed" => delivered.typed = 1 /\ delivered.submitted = 1
        /\ chain[2].kind = "Failed" => delivered.submitted = 0

\* What the audit log says of any send is what its pane got (docs/ai/VALIDATION.md,
\* "every actuation is recorded in the audit log with ... command, and outcome").
AuditTellsWhatThePaneGot ==
    (Len(chain) = 2 /\ chain[1].kind \in {"Accepted", "Requested"}) =>
        /\ chain[2].kind = "Completed" => delivered.typed = 1 /\ delivered.submitted = 1
        /\ chain[2].kind = "Failed" => delivered.submitted = 0
=============================================================================
