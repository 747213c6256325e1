-------------------------- MODULE MCSettingsEditor --------------------------
(***************************************************************************)
(* An instance of SettingsEditor for TLC: no file, a file with a pair and a *)
(* parameter of its own, and a file with a legacy override.                *)
(***************************************************************************)
EXTENDS SettingsEditor, TLC

CONSTANTS s1, mode, hover, polls

At(w, c) == [warning |-> w, critical |-> c]

BaseConfig == [default |-> At(2, 4), override |-> [s \in Scopes |-> None], legacy |-> None,
               sidefile |-> 1, param |-> [p \in Params |-> IF p = mode THEN 1 ELSE 0]]

\* A file of the given lines.
FileOf(lines) == [k \in Keys |-> IF k \in DOMAIN lines THEN lines[k] ELSE None]

W(table) == <<table, "warning">>
C(table) == <<table, "critical">>

Files == {NoFile,
          FileOf(W(s1) :> 0 @@ C(s1) :> 2 @@ mode :> 0),
          FileOf(W(Legacy) :> 0 @@ C(Legacy) :> 2 @@ mode :> 0 @@ Sidefile :> 0)}

\* The lines that come first, in a file as the program scaffolds it and in one as an
\* operator may have written it; no write stops behind the others.
OrdersMC == {<<W(Default), C(Default), W(s1)>>, <<C(Default), C(Legacy), W(s1), C(s1)>>}
=============================================================================
