--------------------------- MODULE PaneLifecycle ---------------------------
(***************************************************************************)
(* The lifecycle tracker (src/domain/lifecycle.rs) and what the event loop *)
(* does with its verdict: a pane is "unseen", "alive" or "dead", and an    *)
(* observation raises an event against what was last seen.                 *)
(***************************************************************************)
Events == {"Appeared", "Reappeared", "BecameDead", "Unchanged"}

\* PaneLifecycle::observe. A first sight is Appeared whatever the dead flag.
LifecycleEvent(prev, cur) ==
    CASE prev = "unseen"                   -> "Appeared"
      [] prev = "dead"  /\ cur = "alive"   -> "Reappeared"
      [] prev = "alive" /\ cur = "dead"    -> "BecameDead"
      [] OTHER                             -> "Unchanged"

\* PaneLifecycle::forget: a pane gone from the listing counts as dead.
Forgotten(prev) == IF prev = "unseen" THEN prev ELSE "dead"

\* Fault: only a death drops the caches, a reappearance does not.
EvictsOnDeathOnly(event) == event = "BecameDead"

\* The per-pane caches are dropped when a lifetime ends and when one begins.
Evicts(event) == event \in {"BecameDead", "Reappeared"}
=============================================================================
