---------------------------- MODULE MCAlertBoard ----------------------------
(***************************************************************************)
(* Instances of AlertBoard for TLC: recovery alerts of one pane that join  *)
(* and leave a flow of which they share the severity or exceed it, and     *)
(* single alerts beside them.                                              *)
(***************************************************************************)
EXTENDS AlertBoard

Alert(id, kind, severity, category) ==
    [id |-> id, pane |-> "p", kind |-> kind, severity |-> severity, category |-> category]

Finding  == Alert(1, "CrossPane", 3, "none")
Notice   == Alert(2, "SystemNotice", 2, "none")
Drift    == Alert(3, "Recommendation", 2, "cache")
Pressure == Alert(4, "Checkpoint", 3, "context")
Snapshot == Alert(5, "Recommendation", 2, "snapshot")
Quota    == Alert(6, "Recommendation", 2, "none")

OneNotice == {Notice}

RecoveryListings ==
    {{}, {Drift}, {Drift, Pressure}, {Drift, Snapshot, Finding}, {Drift, Pressure, Snapshot},
     {Drift, Quota}}
=============================================================================
