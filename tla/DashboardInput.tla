--------------------------- MODULE DashboardInput ---------------------------
(***************************************************************************)
(* Who owns the keyboard and the mouse of the dashboard: its overlays, the *)
(* alert filter and the two panels (app/tui_loop.rs, app/modal_state.rs,   *)
(* app/provider_setup_overlay.rs, app/fx_overlay.rs), and the target       *)
(* picker, which chooses the windows that polls look at                    *)
(* (app/target_picker.rs).                                                 *)
(*                                                                         *)
(* Keys that change neither an overlay, the focus nor the target (they     *)
(* scroll, type or edit) leave every variable here as it is. What the      *)
(* dashboard's own keys do to the alerts and to the panes' prompts is in   *)
(* AlertBoard and PromptSend.                                              *)
(***************************************************************************)
EXTENDS Naturals, FiniteSets

CONSTANTS
    AllWindows,     \* the windows that can exist: pairs <<session, index>>
    AllSessions,    \* the target that is every window
    NoSession       \* no session: the picker shows the sessions

SessionOf(window) == <<window[1]>>
Sessions == {SessionOf(w) : w \in AllWindows}

ASSUME WindowsAssumption ==
    /\ AllWindows \subseteq Nat \X Nat
    /\ AllSessions \notin AllWindows \union Sessions
    /\ NoSession \notin Sessions

VARIABLES
    running,
    open,       \* the overlays that are open
    fx,         \* whether the decorative overlay shows
    focus,      \* the focused panel
    filtering,  \* whether the alert filter is set
    picker,     \* the target picker's stage, choices and highlighted choice
    strayed,    \* history: since the picker was opened or gone back, another choice was
                \* highlighted or clicked, or what is watched was not in the list
    target,     \* the selected target
    windows,    \* the windows that exist
    due,        \* whether the next poll is due
    shown       \* the target whose reports are on the screen, and whether the
                \* last poll brought them

input == <<open, fx, focus, filtering>>
inputVars  == <<running, input, picker, strayed, target, windows, due, shown>>

Modals  == {"git", "help", "target", "settings", "provider", "explainer"}
Targets == AllWindows \union {AllSessions}

PickerType ==
    [stage : {"session", "window"}, session : Sessions \union {NoSession},
     choices : SUBSET (Targets \union Sessions), at : SUBSET (Targets \union Sessions)]

\* The sessions are chosen from first, then the windows of one of them.
WellFormed(p) ==
    /\ p.at \subseteq p.choices
    /\ p.stage = "session" => p.choices \subseteq Sessions \union {AllSessions}
    /\ p.stage = "window" => p.choices \subseteq AllWindows /\ p.session \in Sessions

InputTypeOK ==
    /\ running \in BOOLEAN /\ open \subseteq Modals /\ fx \in BOOLEAN
    /\ focus \in {"alerts", "panes"} /\ filtering \in BOOLEAN
    /\ picker \in PickerType /\ WellFormed(picker) /\ strayed \in BOOLEAN
    /\ target \in Targets /\ windows \subseteq AllWindows
    /\ due \in BOOLEAN /\ shown \in [target : Targets, answered : BOOLEAN]

-----------------------------------------------------------------------------
(* Owners *)

\* The orders in which the loop asks the modals whether they are open.
KeyOrder   == <<"git", "help", "target", "settings", "provider", "explainer">>
MouseOrder == <<"settings", "provider", "explainer", "git", "help", "target">>

FirstOpen(order) ==
    LET at == {i \in 1..6 : order[i] \in open}
    IN  IF at = {} THEN "dashboard" ELSE order[CHOOSE i \in at : \A j \in at : i <= j]

\* A key goes to the decorative overlay, a modal, the alert filter, the dashboard.
KeyOwner ==
    IF fx THEN "fx"
    ELSE IF FirstOpen(KeyOrder) # "dashboard" THEN FirstOpen(KeyOrder)
    ELSE IF focus = "alerts" /\ filtering THEN "filter" ELSE "dashboard"

\* Fault: only the overlays that handle clicks themselves take the mouse.
MouseOwnerOfClickable ==
    IF open \ {"help", "git"} = {} THEN "dashboard" ELSE FirstOpen(MouseOrder)

\* The mouse goes to a modal or the dashboard: the filter takes no clicks.
MouseOwner == FirstOpen(MouseOrder)

\* A click only dismisses the decorative overlay; the wheel passes under it.
Clickable == running /\ ~fx

-----------------------------------------------------------------------------
(* The target picker *)

Least(set) == CHOOSE x \in set : \A y \in set : x[1] < y[1] \/ (x[1] = y[1] /\ x[2] <= y[2])

SessionChoices == {AllSessions} \union {SessionOf(w) : w \in windows}
WindowChoices(session) == {w \in windows : SessionOf(w) = session}

\* Fault: the picker always starts at its first choice.
StartAtFirst(stage, choices, session) ==
    IF choices = {} THEN {} ELSE IF stage = "session" THEN {AllSessions} ELSE {Least(choices)}

\* What is watched, as the list of a stage shows it.
Home(stage) == IF stage = "window" \/ target = AllSessions THEN target ELSE SessionOf(target)

\* sync_target_choice_selection: start at what is watched now, if it is there;
\* else at the first choice. The highlighted choice, or none.
StartAt(stage, choices, session) ==
    IF choices = {} THEN {}
    ELSE IF Home(stage) \in choices THEN {Home(stage)}
    ELSE IF stage = "session" THEN {AllSessions} ELSE {Least(choices)}

SessionStage ==
    [stage |-> "session", session |-> NoSession, choices |-> SessionChoices,
     at |-> StartAt("session", SessionChoices, NoSession)]
WindowStage(session) ==
    [stage |-> "window", session |-> session, choices |-> WindowChoices(session),
     at |-> StartAt("window", WindowChoices(session), session)]

\* Fault: switching the target waits for the next poll.
DueAfterSwitchAsBefore == due

\* Switching the target makes a poll due at once.
DueAfterSwitch == TRUE

\* apply_selected on the highlighted choice: go on to its windows, or watch it.
Apply(choice) ==
    IF picker.stage = "session" /\ choice # AllSessions
    THEN /\ picker' = WindowStage(choice)
         /\ UNCHANGED <<open, target, due>>
    ELSE /\ target' = choice /\ open' = open \ {"target"} /\ due' = DueAfterSwitch
         /\ picker' = [picker EXCEPT !.at = {choice}]

-----------------------------------------------------------------------------
(* Actions *)

\* The first target is the terminal's own window, or the first one, or all.
InputInit ==
    /\ running = TRUE /\ open = {} /\ fx = FALSE
    /\ focus = "alerts" /\ filtering = FALSE
    /\ windows \in SUBSET AllWindows
    /\ target \in windows \union {AllSessions}
    /\ picker = [stage |-> "session", session |-> NoSession, choices |-> {}, at |-> {}]
    /\ strayed = FALSE
    /\ due = TRUE /\ shown = [target |-> target, answered |-> FALSE]

\* The loop polls the selected target when a poll is due, before it draws and
\* reads the next event. A poll that fails leaves the reports as they are.
PollTarget(answers) ==
    /\ running /\ due /\ due' = FALSE
    /\ shown' = IF answers THEN [target |-> target, answered |-> TRUE]
                           ELSE [shown EXCEPT !.answered = FALSE]
    /\ UNCHANGED <<running, input, picker, strayed, target, windows>>

\* The poll interval passes, or u asks for a poll at once.
BecomeDue ==
    /\ running /\ ~due /\ due' = TRUE
    /\ UNCHANGED <<running, input, picker, strayed, target, windows, shown>>

\* The screensaver starts when nothing was typed for a while, over any overlay.
FxStarts ==
    /\ running /\ ~fx /\ fx' = TRUE
    /\ UNCHANGED <<running, open, focus, filtering, picker, strayed, target, windows, due, shown>>

\* It ends by itself, or with the next key or click, which does nothing else.
FxEnds ==
    /\ running /\ fx /\ fx' = FALSE
    /\ UNCHANGED <<running, open, focus, filtering, picker, strayed, target, windows, due, shown>>

\* An open modal is closed by its keys or by its [x].
CloseByKey ==
    /\ running /\ KeyOwner \in Modals
    /\ open' = open \ {KeyOwner}
    /\ UNCHANGED <<running, fx, focus, filtering, picker, strayed, target, windows, due, shown>>

CloseByMouse ==
    /\ Clickable /\ MouseOwner \in Modals
    /\ open' = open \ {MouseOwner}
    /\ UNCHANGED <<running, fx, focus, filtering, picker, strayed, target, windows, due, shown>>

\* Enter in the explainer: act, close, and celebrate an acceptance if configured.
ConfirmAction(celebrate) ==
    /\ running /\ KeyOwner = "explainer"
    /\ open' = open \ {"explainer"} /\ fx' = celebrate
    /\ UNCHANGED <<running, focus, filtering, picker, strayed, target, windows, due, shown>>

\* In the picker: highlight another choice, go back to the sessions, choose.
PickerMove(choice) ==
    /\ running /\ "target" \in {KeyOwner, MouseOwner}
    /\ choice \in picker.choices /\ picker' = [picker EXCEPT !.at = {choice}]
    /\ strayed' = TRUE
    /\ UNCHANGED <<running, input, target, windows, due, shown>>

PickerBack ==
    /\ running /\ KeyOwner = "target" /\ picker.stage = "window"
    /\ picker' = SessionStage /\ strayed' = (Home("session") \notin SessionChoices)
    /\ UNCHANGED <<running, input, target, windows, due, shown>>

PickerEnter ==
    /\ running /\ KeyOwner = "target"
    /\ \E choice \in picker.at : Apply(choice)
    /\ strayed' = (strayed \/ ("target" \in open' /\ target \notin picker'.choices))
    /\ UNCHANGED <<running, fx, focus, filtering, windows, shown>>

PickerClick(choice) ==
    /\ Clickable /\ MouseOwner = "target"
    /\ choice \in picker.choices /\ Apply(choice)
    /\ strayed' = TRUE
    /\ UNCHANGED <<running, fx, focus, filtering, windows, shown>>

\* The filter is started and cancelled with / and Esc. Enter and any character
\* stay with it; Tab and the arrow keys pass on to the dashboard.
Filter ==
    /\ running
    /\ \/ KeyOwner = "dashboard" /\ focus = "alerts" /\ filtering' = TRUE
       \/ KeyOwner = "filter" /\ filtering' = FALSE
    /\ UNCHANGED <<running, open, fx, focus, picker, strayed, target, windows, due, shown>>

\* Tab, or a click or the wheel over a panel.
ToggleFocus ==
    /\ running
    /\ KeyOwner \in {"filter", "dashboard"} \/ MouseOwner = "dashboard"
    /\ focus' = IF focus = "alerts" THEN "panes" ELSE "alerts"
    /\ UNCHANGED <<running, open, fx, filtering, picker, strayed, target, windows, due, shown>>

\* ? S P and t open their overlays; y, p and d the explainer, when it is to be
\* asked; p without asking may celebrate; Q shows the decorative overlay.
OpenByKey(modal) ==
    /\ running /\ KeyOwner = "dashboard" /\ modal # "git"
    /\ open' = open \union {modal}
    /\ IF modal = "target"
       THEN picker' = SessionStage /\ strayed' = (Home("session") \notin SessionChoices)
       ELSE UNCHANGED <<picker, strayed>>
    /\ UNCHANGED <<running, fx, focus, filtering, target, windows, due, shown>>

\* A click on the version badge.
OpenGit ==
    /\ Clickable /\ MouseOwner = "dashboard"
    /\ open' = open \union {"git"}
    /\ UNCHANGED <<running, fx, focus, filtering, picker, strayed, target, windows, due, shown>>

\* Esc or q on the bare dashboard.
Quit ==
    /\ running /\ KeyOwner = "dashboard" /\ running' = FALSE
    /\ UNCHANGED <<input, picker, strayed, target, windows, due, shown>>

\* Windows come and go.
WindowsChange(next) ==
    /\ running /\ windows' = next
    /\ UNCHANGED <<running, input, picker, strayed, target, due, shown>>

InputNext ==
    \/ \E answers \in BOOLEAN : PollTarget(answers)
    \/ BecomeDue
    \/ FxStarts \/ FxEnds
    \/ CloseByKey \/ CloseByMouse
    \/ \E celebrate \in BOOLEAN : ConfirmAction(celebrate)
    \/ \E choice \in picker.choices : PickerMove(choice) \/ PickerClick(choice)
    \/ PickerBack \/ PickerEnter
    \/ Filter \/ ToggleFocus
    \/ \E modal \in Modals : OpenByKey(modal)
    \/ OpenGit
    \/ Quit
    \/ \E next \in SUBSET AllWindows : WindowsChange(next)

InputSpec == InputInit /\ [][InputNext]_inputVars

-----------------------------------------------------------------------------
(* Properties *)

\* However overlays are opened and closed by keys, clicks and the screensaver, at
\* most one modal is open: what the screen shows on top is what the keys reach.
OneModal == \A m, n \in open : m = n

\* What the screen shows is of the target it names: unless a poll is due, the
\* reports of a poll that answered are those of the selected target
\* (TargetSwitched and last_poll in the event loop).
ReportsMatchTarget == (~due /\ shown.answered) => shown.target = target

\* The picker opens on what is watched, at either stage and after going back, and
\* stays there while nothing else is highlighted or clicked, whatever polls,
\* closes over it or comes and goes meanwhile, as long as the lists it shows
\* have it: Enter, however often, never switches the target
\* (sync_target_choice_selection, apply_selected).
PickerStartsAtTarget ==
    [][/\ target' # target => strayed'
       /\ ("target" \in open' /\ ~strayed') => picker'.at = {Home(picker.stage)'}]_inputVars
=============================================================================
