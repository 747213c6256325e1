---------------------------- MODULE MCPromptSend ----------------------------
(***************************************************************************)
(* Instances of PromptSend for TLC: the listings in which a proposal moves *)
(* to another row, loses its place as the first one, or disappears.        *)
(***************************************************************************)
EXTENDS PromptSend

CONSTANTS p1, p2

ReportOf(pane, cmds) ==
    [pane |-> pane, cmds |-> cmds, provider |-> IF pane = p1 THEN "Codex" ELSE "Claude"]

TwoPaneListings ==
    {<<ReportOf(p1, {2}), ReportOf(p2, {1})>>, <<ReportOf(p2, {1}), ReportOf(p1, {1, 2})>>,
     <<ReportOf(p1, {})>>}

OnePaneListings == {<<>>, <<ReportOf(p1, {2})>>, <<ReportOf(p1, {1, 2})>>, <<ReportOf(p1, {})>>}
=============================================================================
