------------------------------ MODULE Identity ------------------------------
(***************************************************************************)
(* Who runs in a pane (domain/identity.rs), from what a listing shows of   *)
(* it, and what the adapters then read off its screen (adapters/mod.rs).   *)
(*                                                                         *)
(* Evidence is a record of: label, the canonical "provider:instance:role"  *)
(* title as a set of at most one <<provider, role>>; titled, the provider  *)
(* that another title names; command, of the foreground process; hint, of  *)
(* the workspace manager; tail, the provider whose screen the tail looks   *)
(* like, and sure, whether by its status surface and not by a word.        *)
(***************************************************************************)
EXTENDS Naturals, FiniteSets

Providers   == {"Claude", "Codex", "Gemini", "Antigravity", "Qmonster", "Unknown"}
Roles       == {"Main", "Review", "Research", "Monitor", "Unknown"}
Confidences == {"High", "Medium", "Conflict", "Low", "Unknown"}

ProvidersConflict(a, b) == a # "Unknown" /\ b # "Unknown" /\ a # b

\* The role of a provider that is known by a title or a process only.
FallbackRole(provider, confidence) ==
    IF confidence \notin {"Medium", "Conflict"} \/ provider = "Unknown" THEN "Unknown"
    ELSE IF provider = "Qmonster" THEN "Monitor" ELSE "Main"

\* The tabs that the start scripts of the operator lay out.
HintRoleConvention(provider) ==
    [p \in Providers |->
        CASE p = "Claude" -> "Main" [] p = "Codex" -> "Review"
          [] p = "Qmonster" -> "Monitor" [] p = "Unknown" -> "Unknown"
          [] OTHER -> "Research"][provider]

Identified(provider, role, confidence) ==
    [provider |-> provider, role |-> role, confidence |-> confidence]

\* The monitor's own process overrules a title its pane has inherited.
ResolveMonitor(raw) ==
    IF \E l \in raw.label : l[1] = "Qmonster"
    THEN Identified("Qmonster", (CHOOSE l \in raw.label : TRUE)[2], "High")
    ELSE Identified("Qmonster", "Monitor", "Medium")

ResolveLabel(raw) ==
    LET l == CHOOSE l \in raw.label : TRUE
    IN  Identified(l[1], l[2],
                   IF ProvidersConflict(l[1], raw.command) THEN "Conflict" ELSE "High")

ResolveHint(raw) ==
    Identified(raw.hint, HintRoleConvention(raw.hint),
               IF ProvidersConflict(raw.hint, raw.command) THEN "Conflict"
               ELSE IF raw.command # "Unknown" THEN "High" ELSE "Medium")

\* A title that names a provider, the process, and at last the screen.
ResolveFallback(raw) ==
    LET found ==
          IF ProvidersConflict(raw.titled, raw.command) THEN <<raw.titled, "Conflict">>
          ELSE IF raw.titled # "Unknown" THEN <<raw.titled, "Medium">>
          ELSE IF raw.command # "Unknown" THEN <<raw.command, "Medium">>
          ELSE IF raw.tail # "Unknown" THEN <<raw.tail, IF raw.sure THEN "Medium" ELSE "Low">>
          ELSE <<"Unknown", "Unknown">>
    IN  Identified(found[1], FallbackRole(found[1], found[2]), found[2])

Resolve(raw) ==
    IF raw.command = "Qmonster" THEN ResolveMonitor(raw)
    ELSE IF raw.label # {} THEN ResolveLabel(raw)
    ELSE IF raw.hint # "Unknown" THEN ResolveHint(raw)
    ELSE ResolveFallback(raw)

\* allow_provider_specific
Sure(id) == id.confidence \in {"High", "Medium"}

-----------------------------------------------------------------------------
(* Signals *)

Absent == 0 - 1     \* no reading

\* parse_common_signals: the marks that any screen can show. Readings, the branch
\* and permissive modes are left to the adapters; memory is a fill of parse_for.
CommonSignals(screen) ==
    [screen EXCEPT !.context = Absent, !.quota = Absent, !.quota_5h = Absent,
                   !.quota_weekly = Absent, !.resets_5h = Absent, !.resets_weekly = Absent,
                   !.cost = Absent, !.cache = Absent, !.branch = {}, !.permissive = FALSE,
                   !.memory = FALSE,
                   !.idle = IF @ \in {"LimitHit", "WorkComplete"} THEN "None" ELSE @]

\* What the footer and the sidefile of agy add; it is shown and never judged.
Enriched(s, screen) ==
    [s EXCEPT !.context = screen.context, !.quota_5h = screen.quota_5h,
              !.quota_weekly = screen.quota_weekly, !.resets_5h = screen.resets_5h,
              !.resets_weekly = screen.resets_weekly]

\* Fault: the adapter reads on although another provider may run there.
ParseForInConflict(id, screen) ==
    IF id.provider = "Claude" THEN [screen EXCEPT !.branch = {}]
    ELSE IF id.provider \in {"Codex", "Gemini"} THEN screen ELSE CommonSignals(screen)

\* The adapter of the provider, unless another one may run there. A reading that
\* is not on the screen is Absent. Claude's screen shows no branch.
ParseFor(id, screen) ==
    IF id.confidence = "Conflict" THEN CommonSignals(screen)
    ELSE IF id.provider = "Claude" THEN [screen EXCEPT !.branch = {}]
    ELSE IF id.provider \in {"Codex", "Gemini"} THEN screen
    ELSE IF id.provider = "Antigravity" THEN Enriched(CommonSignals(screen), screen)
    ELSE IF id.provider = "Qmonster" THEN [CommonSignals(screen) EXCEPT !.idle = "None"]
    ELSE CommonSignals(screen)
=============================================================================
