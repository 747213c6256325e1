---------------------------- MODULE MCObserveLoop ----------------------------
(* Instances of ObserveLoop for TLC. *)
EXTENDS ObserveLoopHistory

CONSTANTS Codex, p1, src, other, still1, still2, asks, InputWait, low, high, err1

MCProviders == {Claude, Codex, Unknown, Antigravity}
OnePane == {p1}

Obs(provider, conflict, path, tail, pressure) ==
    [provider |-> provider, conflict |-> conflict, path |-> path, tail |-> tail,
     marker |-> IF tail = asks THEN InputWait ELSE None, pressure |-> pressure]

\* What changes a report: stillness and marker, reading and its absence, each
\* kind of provider, a conflict, another directory.
OnePaneObservations ==
    {Obs(Claude, FALSE, src, tail, None) : tail \in {still1, still2}}
    \union {Obs(Claude, FALSE, src, still1, reading) : reading \in {low, high}}
    \union {Obs(Claude, conflict, src, asks, None) : conflict \in BOOLEAN}
    \union {Obs(Claude, FALSE, other, asks, None), Obs(Codex, FALSE, src, asks, None),
            Obs(Unknown, FALSE, src, asks, None), Obs(Antigravity, FALSE, other, still1, None)}
=============================================================================
