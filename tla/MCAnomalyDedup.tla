--------------------------- MODULE MCAnomalyDedup ---------------------------
(***************************************************************************)
(* A quiet Codex reading and deviations from it that reach every branch of *)
(* the detectors; one is of Gemini, which has a detector of its own.       *)
(***************************************************************************)
EXTENDS AnomalyDedup

MCQuiet == [provider |-> "Codex", place |-> "a", error |-> FALSE, subagent |-> FALSE,
            drift |-> FALSE, ratio |-> 4, cost |-> 0, tokens |-> 0, memory |-> 0,
            edits |-> {}, gap |-> 1]

MCReadings ==
    {MCQuiet,
     [MCQuiet EXCEPT !.error = TRUE, !.subagent = TRUE, !.place = "b", !.gap = 0,
                     !.provider = "Gemini", !.memory = 3],
     [MCQuiet EXCEPT !.drift = TRUE, !.ratio = 1, !.edits = {"f"}],
     [MCQuiet EXCEPT !.ratio = None, !.cost = 3, !.tokens = 4, !.gap = 2]}

MCPromotes == [kind \in Kinds |-> IF kind = "SubagentSideEffect" THEN Medium ELSE High]
MCMinimums == {Medium, High}
=============================================================================
