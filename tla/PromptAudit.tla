---------------------------- MODULE PromptAudit ----------------------------
(***************************************************************************)
(* What the prompt-send path promises, whatever the dashboard does around  *)
(* it: an operator's decision or status request leaves one of the audit    *)
(* chains of docs/ai/UI_MANUAL.md, keys reach a pane only between an       *)
(* acceptance or a request and its outcome, and the two settings that gate *)
(* them stand still meanwhile. PromptSend implements this specification.   *)
(***************************************************************************)
EXTENDS Sequences

CONSTANTS Panes, Commands, Status, Modes, ObserveOnly, None

VARIABLES
    mode, auto_send,    \* actions.mode and actions.allow_auto_prompt_send
    chain,              \* the audit events of the latest decision
    open,               \* the accepted or requested send without an outcome, or None
    unsent              \* panes whose input line holds text that was not submitted

vars == <<mode, auto_send, chain, open, unsent>>

Record(kind, send) == [kind |-> kind, pane |-> send.pane, cmd |-> send.cmd]

Init ==
    /\ mode \in Modes /\ auto_send \in BOOLEAN
    /\ chain = <<>> /\ open = None /\ unsent = {}

\* Between sends the operator may change the settings.
Configure ==
    /\ open = None
    /\ mode' \in Modes /\ auto_send' \in BOOLEAN
    /\ UNCHANGED <<chain, open, unsent>>

Reject(send) ==
    /\ open = None
    /\ chain' = <<Record("Rejected", send)>>
    /\ UNCHANGED <<mode, auto_send, open, unsent>>

\* observe_only refuses the acceptance itself; otherwise the acceptance counts
\* even when sending is switched off.
Block(send) ==
    /\ open = None
    /\ \/ mode = ObserveOnly /\ chain' = <<Record("Blocked", send)>>
       \/ /\ mode # ObserveOnly /\ ~auto_send
          /\ chain' = <<Record("Accepted", send), Record("Blocked", send)>>
    /\ UNCHANGED <<mode, auto_send, open, unsent>>

Accept(send) ==
    /\ open = None /\ mode # ObserveOnly /\ auto_send
    /\ chain' = <<Record("Accepted", send)>> /\ open' = send
    /\ UNCHANGED <<mode, auto_send, unsent>>

\* A status request asks for no acceptance, but for a mode that lets keys out. A
\* pane that shows its status anyway completes it without a key.
Request(send) ==
    /\ open = None
    /\ \/ mode = ObserveOnly /\ chain' = <<Record("Blocked", send)>> /\ UNCHANGED open
       \/ mode # ObserveOnly /\ chain' = <<Record("Requested", send)>> /\ open' = send
       \/ chain' = <<Record("Completed", send)>> /\ UNCHANGED open
    /\ UNCHANGED <<mode, auto_send, unsent>>

\* A key reaches the pane of the open send, and no other; the same step may
\* already bring the outcome.
Deliver ==
    /\ open # None
    /\ unsent' \in {unsent, unsent \union {open.pane}, unsent \ {open.pane}}
    /\ \/ UNCHANGED <<chain, open>>
       \/ /\ \E kind \in {"Completed", "Failed"} : chain' = Append(chain, Record(kind, open))
          /\ open' = None
    /\ UNCHANGED <<mode, auto_send>>

\* The pane's own program drops its input line.
Clear(pane) ==
    /\ unsent' = unsent \ {pane}
    /\ UNCHANGED <<mode, auto_send, chain, open>>

\* Only a crash leaves an acceptance without an outcome.
Crash ==
    /\ open' = None /\ mode' \in Modes /\ auto_send' \in BOOLEAN
    /\ UNCHANGED <<chain, unsent>>

Next ==
    \/ Configure \/ Deliver \/ Crash
    \/ \E send \in [pane : Panes, cmd : Commands] : Reject(send) \/ Block(send) \/ Accept(send)
    \/ \E pane \in Panes : Clear(pane) \/ Request([pane |-> pane, cmd |-> Status])

Spec == Init /\ [][Next]_vars
=============================================================================
