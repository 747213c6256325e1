--------------------------- MODULE CrossPaneRules ---------------------------
(***************************************************************************)
(* The rules that compare the panes of one poll                            *)
(* (policy/rules/concurrent.rs, policy/engine.rs).                         *)
(*                                                                         *)
(* A view is a record of pane (an integer, for the order of the ids), id,  *)
(* signals, path and window.  "" is no path.  A file is a pair of a        *)
(* directory, "" when the screen named it relative, and a name.            *)
(***************************************************************************)
EXTENDS PolicyRules, FiniteSetsExt

\* Panes whose agent can be writing. An observe-only provider takes part.
Participants(views) ==
    {v \in views : v.id.role \in {"Main", "Review"} /\ ~Waiting(v.signals)}

Finding(kind, severity, panes, paths) ==
    [kind |-> kind, severity |-> severity, anchor |-> Min(panes),
     others |-> panes \ {Min(panes)}, paths |-> paths]

\* concurrent_key: no pane without a path and a branch is compared.
Keyed(v)   == v.path # "" /\ v.signals.branch # {}
WorkKey(v) == <<v.path, v.signals.branch>>

PanesOf(views)   == {v.pane : v \in views}
WindowsOf(views) == {v.window : v \in views}

\* Fault: the panes that share the anchor's window are told, the others are not.
ClashOfAnchorWindow(group, g) ==
    LET anchor == CHOOSE v \in group : v.pane = Min(PanesOf(group))
        near   == {v \in group : v.window = anchor.window}
    IN  IF Cardinality(near) < 2 THEN {}
        ELSE {Finding("ConcurrentMutatingWork", Warning, PanesOf(near), {})}

\* What a group of panes at work on one branch is told. A group that spans
\* windows is told only when the operator asked for it.
Clash(group, g) ==
    IF Cardinality(group) < 2 THEN {}
    ELSE IF Cardinality(WindowsOf(group)) = 1
         THEN {Finding("ConcurrentMutatingWork", Warning, PanesOf(group), {})}
    ELSE IF g.cross_window
         THEN {Finding("CrossWindowConcurrentWork", Concern, PanesOf(group), {})}
    ELSE {}

EvalConcurrent(views, g) ==
    LET workers == {v \in Participants(views) : v.signals.busy /\ Keyed(v)}
        groups  == {{v \in workers : WorkKey(v) = WorkKey(w)} : w \in workers}
    IN  UNION {Clash(group, g) : group \in groups}

ResolveAgainst(path, file) == IF file[1] = "" THEN <<path, file[2]>> ELSE file

FilesOf(v) == {ResolveAgainst(v.path, file) : file \in v.signals.files}

\* Panes that name the same file on their screens, however little they print.
EvalConcurrentFiles(views, g) ==
    LET candidates == Participants(views)
        shared == {f \in UNION {FilesOf(v) : v \in candidates} :
                      Cardinality({v \in candidates : f \in FilesOf(v)}) >= 2}
    IN  IF ~g.cross_pane_files THEN {}
        ELSE {Finding("ConcurrentFileEdit", Warning,
                      PanesOf({v \in candidates : f \in FilesOf(v)}), {f}) : f \in shared}

EvaluateCrossPane(views, g) == EvalConcurrent(views, g) \union EvalConcurrentFiles(views, g)
=============================================================================
