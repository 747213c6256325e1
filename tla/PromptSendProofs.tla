--------------------------- MODULE PromptSendProofs ---------------------------
(***************************************************************************)
(* Proofs about PromptSend, for any panes, commands, listings and modes:   *)
(* types, what a confirmed modal does, where keys may go, and that every   *)
(* step is one of PromptAudit.                                             *)
(***************************************************************************)
EXTENDS PromptSend, SequenceTheorems, WellFoundedInduction, TLAPS

-----------------------------------------------------------------------------
(* The helpers *)

\* A pane's first proposal is one of its proposals.
LEMMA FirstIsProposed ==
    ASSUME NEW report \in Report, report.cmds # {}
    PROVE  /\ FirstProposal(report) \in Send
           /\ FirstProposal(report).pane = report.pane
           /\ FirstProposal(report).cmd \in report.cmds
<1>. DEFINE cmds == report.cmds
            less == OpToRel(<, Nat)
<1>1. cmds \subseteq Commands /\ cmds \subseteq Nat /\ cmds # {} /\ report.pane \in Panes
  BY CommandsAssumption DEF Report
<1>2. PICK c \in cmds : \A d \in cmds : <<d, c>> \notin less
  <2>. HIDE DEF less, cmds
  <2>. QED BY <1>1, NatLessThanWellFounded, WFMin DEF less
<1>3. \A d \in cmds : c <= d
  <2>. SUFFICES ASSUME NEW d \in cmds PROVE c <= d
    OBVIOUS
  <2>1. c \in Nat /\ d \in Nat
    BY <1>1
  <2>2. ~(d < c)
    BY <1>2, <2>1 DEF OpToRel
  <2>. QED BY <2>1, <2>2
<1>4. (CHOOSE b \in cmds : \A d \in cmds : b <= d) \in cmds
  BY <1>3
<1>. QED BY <1>1, <1>4 DEF FirstProposal, Send

\* The reports are well formed and the selected row is one of them, if any.
LEMMA RowsAreReports ==
    ASSUME TypeOK
    PROVE  /\ reports \in Seq(Report)
           /\ selected # 0 => selected \in DOMAIN reports
<1>1. reports \in Listings \/ reports = <<>>
  BY DEF TypeOK
<1>2. <<>> \in Seq(Report)
  OBVIOUS
<1>3. reports \in Seq(Report)
  BY <1>1, <1>2, ListingsAssumption
<1>. QED BY <1>3 DEF TypeOK

LEMMA GateIsGate == CheckSendGate \in Gates
BY DEF CheckSendGate, Gates

\* What deciding on a proposal writes and starts.
LEMMA Deciding ==
    ASSUME NEW accepting \in BOOLEAN, NEW send \in Send, Decide(accepting, send)
    PROVE  /\ chain' \in Seq(Event) /\ Len(chain') \in {1, 2}
           /\ \A i \in DOMAIN chain' : chain'[i].pane = send.pane /\ chain'[i].cmd = send.cmd
           /\ chain'[1].kind = IF ~accepting THEN "Rejected"
                               ELSE IF CheckSendGate = "Blocked" THEN "Blocked" ELSE "Accepted"
           /\ Len(chain') = 2 => /\ accepting /\ CheckSendGate = "AutoSendOff"
                                 /\ chain'[2].kind = "Blocked"
           /\ accepting /\ CheckSendGate = "AutoSendOff" => Len(chain') = 2
           /\ sending' \in Sending \union {None}
           /\ sending' # None => /\ accepting /\ CheckSendGate = "Execute" /\ Len(chain') = 1
                                 /\ sending'.send = send
           /\ delivered' = Untouched
<1>1. send.pane \in Panes /\ send.cmd \in Commands
  BY DEF Send
<1>2. \A kind \in Kinds : /\ Record(kind, send) \in Event /\ Record(kind, send).kind = kind
                          /\ Record(kind, send).pane = send.pane
                          /\ Record(kind, send).cmd = send.cmd
  BY <1>1 DEF Record, Event
<1>3. Started(send) \in Sending /\ Started(send).send = send
  BY DEF Started, Sending
<1>4. {"Rejected", "Blocked", "Accepted"} \subseteq Kinds
  BY DEF Kinds
<1>5. CASE accepting = FALSE
  <2>1. chain' = <<Record("Rejected", send)>> /\ sending' = None /\ delivered' = Untouched
    BY <1>5 DEF Decide, EventsOf
  <2>. QED BY <1>2, <1>4, <1>5, <2>1
<1>6. CASE accepting = TRUE /\ CheckSendGate = "Blocked"
  <2>1. chain' = <<Record("Blocked", send)>> /\ sending' = None /\ delivered' = Untouched
    BY <1>6 DEF Decide, EventsOf
  <2>. QED BY <1>2, <1>4, <1>6, <2>1
<1>7. CASE accepting = TRUE /\ CheckSendGate = "AutoSendOff"
  <2>1. /\ chain' = <<Record("Accepted", send), Record("Blocked", send)>>
        /\ sending' = None /\ delivered' = Untouched
    BY <1>7 DEF Decide, EventsOf
  <2>. QED BY <1>2, <1>4, <1>7, <2>1
<1>8. CASE accepting = TRUE /\ CheckSendGate = "Execute"
  <2>1. /\ chain' = <<Record("Accepted", send)>>
        /\ sending' = Started(send) /\ delivered' = Untouched
    BY <1>8 DEF Decide, EventsOf
  <2>. QED BY <1>2, <1>3, <1>4, <1>8, <2>1
<1>. QED BY <1>5, <1>6, <1>7, <1>8, GateIsGate DEF Gates

-----------------------------------------------------------------------------
(* The inductive invariant *)

\* The configuration stands still while a modal is open, so the gate it shows is
\* the gate of now.
ModalShowsGate == pending # None => pending.gate = CheckSendGate

\* A send under way has written one event, and it is the one that was promised.
OpenSendIsPromised ==
    sending # None =>
        /\ Len(chain) = 1
        /\ promise # None => /\ promise.accepting /\ promise.gate = "Execute"
                             /\ promise.send = sending.send

\* Everything a step can break, but for the counts of keys.
PromptInv ==
    /\ TypeOK
    /\ ModalShowsGate
    /\ OpenSendIsPromised
    /\ ModalKeepsItsPromise
    /\ SendsOnlyLiveProposals

LEMMA PromptInvInit == Init => PromptInv
<1>. SUFFICES ASSUME Init PROVE PromptInv
  OBVIOUS
<1>1. TypeOK
  BY DEF Init, TypeOK, Untouched
<1>. QED
  BY <1>1 DEF Init, PromptInv, ModalShowsGate, OpenSendIsPromised, ModalKeepsItsPromise,
              SendsOnlyLiveProposals

\* A decision on a proposal of the reports, with the promise it is made under.
LEMMA DecidingKeeps ==
    ASSUME PromptInv, NEW accepting \in BOOLEAN, NEW send \in Send, Decide(accepting, send),
           \E i \in DOMAIN reports : reports[i].pane = send.pane /\ send.cmd \in reports[i].cmds,
           promise' \in Action \union {None},
           promise' # None => /\ promise'.accepting = accepting /\ promise'.send = send
                              /\ promise'.gate = CheckSendGate,
           overlay' = "none", pending' = None, seen' \subseteq {TRUE, FALSE},
           UNCHANGED <<confVars, reports, selected, unsent>>
    PROVE  PromptInv'
<1>1. TypeOK'
  <2>1. chain' \in Seq(Event) /\ Len(chain') <= 2 /\ sending' \in Sending \union {None}
    BY Deciding
  <2>2. delivered' \in [typed : 0..3, submitted : 0..3, lost : BOOLEAN]
    <3>1. delivered' = Untouched
      BY Deciding
    <3>2. Untouched \in [typed : 0..3, submitted : 0..3, lost : BOOLEAN]
      BY DEF Untouched
    <3>. QED BY <3>1, <3>2
  <2>. QED BY <2>1, <2>2 DEF PromptInv, TypeOK, confVars
<1>2. ModalShowsGate'
  BY DEF ModalShowsGate
<1>3. OpenSendIsPromised'
  BY Deciding DEF OpenSendIsPromised
<1>4. ModalKeepsItsPromise'
  BY Deciding, GateIsGate DEF ModalKeepsItsPromise, Gates
<1>5. SendsOnlyLiveProposals'
  BY Deciding DEF SendsOnlyLiveProposals
<1>. QED BY <1>1, <1>2, <1>3, <1>4, <1>5 DEF PromptInv

\* What the operator and the polls do, but for decisions and requests.
LEMMA DashboardKeeps ==
    ASSUME PromptInv,
           \/ \E listing \in Listings : Poll(listing)
           \/ \E row \in 0..Len(reports) : Select(row)
           \/ OpenSettings \/ ChangeSettings \/ CloseSettings
           \/ \E accepting \in BOOLEAN : OpenExplainer(accepting)
           \/ Cancel \/ (Confirm /\ ~Resolves(pending))
    PROVE  PromptInv'
<1>. USE DEF PromptInv
<1>0. sending = None /\ UNCHANGED <<chain, sending, unsent, promise, delivered>>
  BY DEF Poll, Select, OpenSettings, ChangeSettings, CloseSettings, OpenExplainer,
         HasProposal, Cancel, Confirm
<1>1. OpenSendIsPromised' /\ ModalKeepsItsPromise' /\ SendsOnlyLiveProposals'
  BY <1>0 DEF OpenSendIsPromised, ModalKeepsItsPromise, SendsOnlyLiveProposals
<1>2. ASSUME NEW listing \in Listings, Poll(listing) PROVE PromptInv'
  <2>1. listing \in Seq(Report)
    BY ListingsAssumption
  <2>2. selected' \in 0..Len(reports')
    BY <1>2, <2>1, RowsAreReports DEF Poll, SyncSelection, TypeOK
  <2>3. TypeOK'
    BY <1>0, <1>2, <2>2 DEF Poll, TypeOK, confVars, uiVars
  <2>4. ModalShowsGate'
    BY <1>2 DEF Poll, ModalShowsGate, CheckSendGate, confVars, uiVars
  <2>. QED BY <1>1, <2>3, <2>4
<1>3. ASSUME NEW row \in 0..Len(reports), Select(row) PROVE PromptInv'
  BY <1>0, <1>1, <1>3
  DEF Select, TypeOK, ModalShowsGate, CheckSendGate, confVars, uiVars
<1>4. CASE OpenSettings \/ CloseSettings
  BY <1>0, <1>1, <1>4
  DEF OpenSettings, CloseSettings, TypeOK, ModalShowsGate, CheckSendGate, confVars
<1>5. CASE ChangeSettings
  BY <1>0, <1>1, <1>5 DEF ChangeSettings, TypeOK, ModalShowsGate, uiVars
<1>6. ASSUME NEW accepting \in BOOLEAN, OpenExplainer(accepting) PROVE PromptInv'
  <2>1. reports[selected] \in Report /\ reports[selected].cmds # {}
    BY <1>6, RowsAreReports DEF OpenExplainer, HasProposal
  <2>2. pending' \in Action /\ pending'.gate = CheckSendGate
    BY <1>6, <2>1, FirstIsProposed, GateIsGate DEF OpenExplainer, Action
  <2>3. TypeOK'
    <3>1. pending' # None
      BY <2>2, NoneAssumption
    <3>. QED BY <1>0, <1>6, <2>2, <3>1 DEF OpenExplainer, TypeOK, confVars
  <2>4. ModalShowsGate'
    BY <1>6, <2>2 DEF OpenExplainer, ModalShowsGate, CheckSendGate, confVars
  <2>. QED BY <1>1, <2>3, <2>4
<1>7. CASE Cancel
  BY <1>0, <1>1, <1>7 DEF Cancel, TypeOK, ModalShowsGate, confVars
<1>8. CASE Confirm /\ ~Resolves(pending)
  <2>1. seen' \subseteq {TRUE, FALSE}
    BY <1>8 DEF Confirm, TypeOK, Action
  <2>. QED BY <1>0, <1>1, <1>8, <2>1 DEF Confirm, TypeOK, ModalShowsGate, confVars
<1>. QED BY <1>2, <1>3, <1>4, <1>5, <1>6, <1>7, <1>8


\* Decisions, with and without the modal.
LEMMA DecisionsKeep ==
    ASSUME PromptInv,
           \/ \E accepting \in BOOLEAN : ActDirectly(accepting)
           \/ Confirm /\ Resolves(pending)
    PROVE  PromptInv'
<1>. USE DEF PromptInv
<1>1. ASSUME NEW accepting \in BOOLEAN, ActDirectly(accepting) PROVE PromptInv'
  <2>1. reports[selected] \in Report /\ reports[selected].cmds # {} /\ selected \in DOMAIN reports
    BY <1>1, RowsAreReports DEF ActDirectly, HasProposal
  <2>. DEFINE send == FirstProposal(reports[selected])
  <2>2. send \in Send /\ send.pane = reports[selected].pane /\ send.cmd \in reports[selected].cmds
    BY <2>1, FirstIsProposed
  <2>3. /\ Decide(accepting, send) /\ promise' = None /\ overlay' = "none" /\ pending' = None
        /\ seen' \subseteq {TRUE, FALSE} /\ UNCHANGED <<confVars, reports, selected, unsent>>
    BY <1>1 DEF ActDirectly, HasProposal, uiVars, TypeOK
  <2>. HIDE DEF send
  <2>. QED BY <2>1, <2>2, <2>3, DecidingKeeps
<1>2. CASE Confirm /\ Resolves(pending)
  <2>1. pending # None /\ pending \in Action /\ pending.gate = CheckSendGate
    BY <1>2 DEF Confirm, TypeOK, ModalShowsGate
  <2>2. pending.accepting \in BOOLEAN /\ pending.send \in Send
    BY <2>1 DEF Action
  <2>3. /\ Decide(pending.accepting, pending.send) /\ promise' = pending
        /\ overlay' = "none" /\ pending' = None
        /\ UNCHANGED <<confVars, reports, selected, unsent>>
    BY <1>2 DEF Confirm, Confirmed
  <2>4. seen' \subseteq {TRUE, FALSE}
    BY <1>2, <2>2 DEF Confirm, TypeOK
  <2>5. \E i \in DOMAIN reports :
            reports[i].pane = pending.send.pane /\ pending.send.cmd \in reports[i].cmds
    BY <1>2 DEF Resolves
  <2>. QED BY <2>1, <2>2, <2>3, <2>4, <2>5, DecidingKeeps
<1>. QED BY <1>1, <1>2

\* What a status request writes and starts.
LEMMA Requesting ==
    ASSUME TypeOK, RefreshRuntime
    PROVE  \E pane \in Panes, kind \in {"Completed", "Blocked", "Requested"} :
               LET send == [pane |-> pane, cmd |-> Status]
               IN  /\ chain' = <<Record(kind, send)>>
                   /\ Record(kind, send) \in Event
                   /\ kind = "Requested" => sending' = Started(send) /\ mode # ObserveOnly
                   /\ kind # "Requested" => sending' = None
                   /\ kind = "Blocked" => mode = ObserveOnly
                   /\ \E i \in DOMAIN reports :
                          /\ reports[i].pane = pane
                          /\ kind = "Requested" => reports[i].provider = "Codex"
<1>1. selected \in DOMAIN reports /\ reports[selected] \in Report /\ sending = None
  BY RowsAreReports DEF RefreshRuntime
<1>. DEFINE pane == reports[selected].pane
            send == [pane |-> pane, cmd |-> Status]
<1>2. pane \in Panes
  BY <1>1 DEF Report
<1>3. PICK kind \in {"Completed", "Blocked", "Requested"} :
          /\ chain' = <<Record(kind, send)>>
          /\ kind = "Requested" => /\ sending' = Started(send) /\ mode # ObserveOnly
                                   /\ reports[selected].provider = "Codex"
          /\ kind # "Requested" => sending' = None
          /\ kind = "Blocked" => mode = ObserveOnly
  <2>1. CASE reports[selected].provider = "Claude" /\ chain' = <<Record("Completed", send)>>
                /\ UNCHANGED sending
    BY <1>1, <2>1
  <2>2. CASE reports[selected].provider = "Codex" /\ mode = ObserveOnly
    BY <1>1, <2>2 DEF RefreshRuntime
  <2>3. CASE reports[selected].provider = "Codex" /\ mode # ObserveOnly
    BY <1>1, <2>3 DEF RefreshRuntime
  <2>. QED BY <2>1, <2>2, <2>3 DEF RefreshRuntime
<1>4. Record(kind, send) \in Event
  BY <1>2 DEF Record, Event, Kinds
<1>. QED BY <1>1, <1>2, <1>3, <1>4

LEMMA RefreshKeeps ==
    ASSUME PromptInv, RefreshRuntime
    PROVE  PromptInv'
<1>. USE DEF PromptInv
<1>1. PICK pane \in Panes, kind \in {"Completed", "Blocked", "Requested"} :
          /\ chain' = <<Record(kind, [pane |-> pane, cmd |-> Status])>>
          /\ Record(kind, [pane |-> pane, cmd |-> Status]) \in Event
          /\ kind = "Requested" => sending' = Started([pane |-> pane, cmd |-> Status])
          /\ kind # "Requested" => sending' = None
          /\ \E i \in DOMAIN reports :
                 /\ reports[i].pane = pane
                 /\ kind = "Requested" => reports[i].provider = "Codex"
  BY Requesting
<1>. DEFINE send == [pane |-> pane, cmd |-> Status]
<1>2. /\ UNCHANGED <<confVars, reports, selected, uiVars, unsent>>
      /\ promise' = None /\ delivered' = Untouched
  BY DEF RefreshRuntime
<1>3. Started(send) \in Sending /\ Started(send).send = send
  BY DEF Started, Sending, StatusSend
<1>4. chain' \in Seq(Event) /\ Len(chain') = 1 /\ sending' \in Sending \union {None}
  BY <1>1, <1>3
<1>5. Untouched \in [typed : 0..3, submitted : 0..3, lost : BOOLEAN]
  BY DEF Untouched
<1>6. TypeOK'
  <2>1. delivered' \in [typed : 0..3, submitted : 0..3, lost : BOOLEAN]
    BY <1>2, <1>5
  <2>2. Len(chain') <= 2
    BY <1>4
  <2>. QED BY <1>2, <1>4, <2>1, <2>2 DEF TypeOK, confVars, uiVars
<1>7. ModalShowsGate' /\ OpenSendIsPromised' /\ ModalKeepsItsPromise'
  BY <1>2, <1>4
  DEF ModalShowsGate, OpenSendIsPromised, ModalKeepsItsPromise, CheckSendGate, confVars, uiVars
<1>8. SendsOnlyLiveProposals'
  BY <1>1, <1>2, <1>3 DEF SendsOnlyLiveProposals
<1>. QED BY <1>6, <1>7, <1>8

\* A step of the send that leaves it under way.
LEMMA OnTheWay ==
    ASSUME PromptInv, sending # None, sending' \in Sending, sending'.send = sending.send,
           unsent' \subseteq Panes,
           delivered' \in [typed : 0..3, submitted : 0..3, lost : BOOLEAN],
           UNCHANGED <<confVars, reports, selected, uiVars, chain, promise>>
    PROVE  PromptInv'
<1>. USE DEF PromptInv
<1>1. TypeOK'
  BY DEF TypeOK, confVars, uiVars
<1>2. ModalShowsGate' /\ OpenSendIsPromised' /\ ModalKeepsItsPromise'
  BY DEF ModalShowsGate, OpenSendIsPromised, ModalKeepsItsPromise, CheckSendGate, confVars, uiVars
<1>3. SendsOnlyLiveProposals'
  BY DEF SendsOnlyLiveProposals
<1>. QED BY <1>1, <1>2, <1>3

\* A second event leaves the first as it is.
LEMMA AfterTheFirst ==
    ASSUME NEW S, NEW s \in Seq(S), Len(s) = 1, NEW e \in S
    PROVE  /\ Append(s, e) \in Seq(S) /\ Len(Append(s, e)) = 2
           /\ Append(s, e)[1] = s[1] /\ Append(s, e)[2] = e
<1>1. Len(s) + 1 = 2 /\ 1 \in 1..Len(s)
  OBVIOUS
<1>2. PICK t : /\ t = Append(s, e) /\ t \in Seq(S) /\ Len(t) = Len(s) + 1
               /\ \A i \in 1..Len(s) : t[i] = s[i]
               /\ t[Len(s) + 1] = e
  BY AppendProperties, Zenon
<1>3. t[1] = s[1] /\ t[Len(s) + 1] = e /\ Len(t) = 2
  BY <1>1, <1>2
<1>4. t[2] = e
  BY <1>1, <1>3, Zenon
<1>. QED BY <1>2, <1>3, <1>4, Zenon

\* A step of the send that brings its outcome.
LEMMA AtItsEnd ==
    ASSUME PromptInv, sending # None, NEW kind \in {"Completed", "Failed"}, Outcome(kind),
           unsent' \subseteq Panes,
           delivered' \in [typed : 0..3, submitted : 0..3, lost : BOOLEAN],
           UNCHANGED <<confVars, reports, selected, uiVars, promise>>
    PROVE  PromptInv'
<1>. USE DEF PromptInv
<1>1. chain \in Seq(Event) /\ Len(chain) = 1 /\ sending \in Sending
  BY DEF TypeOK, OpenSendIsPromised
<1>. DEFINE event == Record(kind, sending.send)
<1>2. /\ event \in Event /\ event.kind = kind
      /\ event.pane = sending.send.pane /\ event.cmd = sending.send.cmd
  BY <1>1 DEF Record, Event, Kinds, Sending, Send, StatusSend
<1>3. chain' = Append(chain, event) /\ sending' = None
  BY DEF Outcome
<1>. HIDE DEF event
<1>4. chain' \in Seq(Event) /\ Len(chain') = 2 /\ chain'[1] = chain[1] /\ chain'[2] = event
  BY <1>1, <1>2, <1>3, AfterTheFirst
<1>5. TypeOK'
  <2>1. Len(chain') <= 2
    BY <1>4
  <2>. QED BY <1>3, <1>4, <2>1 DEF TypeOK, confVars, uiVars
<1>6. ModalShowsGate' /\ OpenSendIsPromised' /\ SendsOnlyLiveProposals'
  BY <1>3 DEF ModalShowsGate, OpenSendIsPromised, SendsOnlyLiveProposals, CheckSendGate,
              confVars, uiVars
<1>7. ModalKeepsItsPromise'
  <2>. SUFFICES ASSUME promise # None PROVE ModalKeepsItsPromise'
    BY DEF ModalKeepsItsPromise
  <2>1. promise.accepting /\ promise.gate = "Execute" /\ promise.send = sending.send
    BY DEF OpenSendIsPromised
  <2>2. \A i \in DOMAIN chain' : i = 1 \/ i = 2
    BY <1>4
  <2>3. /\ chain[1].pane = promise.send.pane /\ chain[1].cmd = promise.send.cmd
        /\ chain[1].kind = "Accepted"
    BY <1>1, <2>1 DEF ModalKeepsItsPromise
  <2>4. \A i \in DOMAIN chain' :
            chain'[i].pane = promise.send.pane /\ chain'[i].cmd = promise.send.cmd
    BY <1>2, <1>4, <2>1, <2>2, <2>3
  <2>5. chain'[1].kind = "Accepted" /\ chain'[2].kind # "Blocked"
    BY <1>2, <1>4, <2>3
  <2>. QED BY <2>1, <2>4, <2>5 DEF ModalKeepsItsPromise
<1>. QED BY <1>5, <1>6, <1>7

\* What tmux can do to the input lines and the counts of a send.
LEMMA KeysAreTyped ==
    ASSUME TypeOK, sending # None
    PROVE  /\ sending \in Sending /\ InputLines \subseteq Panes
           /\ Delivered \in [typed : 0..3, submitted : 0..3, lost : BOOLEAN]
<1>1. sending \in Sending /\ sending.send.pane \in Panes
  BY DEF TypeOK, Sending, Send, StatusSend
<1>2. InputLines \subseteq Panes
  BY <1>1 DEF InputLines, TypeOK
<1>3. \A n \in 0..3 : Counted(n) \in 0..3
  BY DEF Counted
<1>4. Delivered \in [typed : 0..3, submitted : 0..3, lost : BOOLEAN]
  BY <1>3 DEF Delivered, TypeOK
<1>. QED BY <1>1, <1>2, <1>4

LEMMA TmuxKeeps ==
    ASSUME PromptInv, Tmux
    PROVE  PromptInv'
<1>0. TypeOK
  BY DEF PromptInv
<1>1. CASE SendAnswered
  <2>1. /\ sending # None /\ unsent' = InputLines /\ delivered' = Delivered
        /\ UNCHANGED <<confVars, reports, selected, uiVars, promise>>
    BY <1>1 DEF SendAnswered, Issued
  <2>2. CASE sending.step = "submit"
    <3>1. Outcome("Completed")
      BY <1>1, <2>2 DEF SendAnswered, Remaining
    <3>. QED BY <1>0, <2>1, <3>1, KeysAreTyped, AtItsEnd
  <2>3. CASE sending.step # "submit"
    <3>1. /\ sending' = [sending EXCEPT !.step = "submit", !.retried = FALSE]
          /\ UNCHANGED chain
      BY <1>0, <1>1, <2>1, <2>3, KeysAreTyped DEF SendAnswered, Remaining, Sending
    <3>2. sending' \in Sending /\ sending'.send = sending.send
      BY <1>0, <2>1, <3>1, KeysAreTyped DEF Sending
    <3>. QED BY <1>0, <2>1, <3>1, <3>2, KeysAreTyped, OnTheWay
  <2>. QED BY <2>2, <2>3
<1>2. CASE SendRefused
  <2>1. /\ sending # None /\ Outcome("Failed") /\ UNCHANGED <<unsent, delivered>>
        /\ UNCHANGED <<confVars, reports, selected, uiVars, promise>>
    BY <1>2 DEF SendRefused, Issued
  <2>2. unsent' \subseteq Panes /\ delivered' \in [typed : 0..3, submitted : 0..3, lost : BOOLEAN]
    BY <1>0, <2>1 DEF TypeOK
  <2>. QED BY <2>1, <2>2, AtItsEnd
<1>3. ASSUME NEW executed \in BOOLEAN, SendLost(executed) PROVE PromptInv'
  <2>1. /\ sending # None /\ unsent' = IF executed THEN InputLines ELSE unsent
        /\ delivered' = [IF executed THEN Delivered ELSE delivered EXCEPT !.lost = TRUE]
        /\ UNCHANGED <<confVars, reports, selected, uiVars, promise>>
    BY <1>3 DEF SendLost, Issued
  <2>2. unsent' \subseteq Panes /\ delivered' \in [typed : 0..3, submitted : 0..3, lost : BOOLEAN]
    BY <1>0, <2>1, KeysAreTyped DEF TypeOK
  <2>3. CASE MayReconnect
    <3>1. sending' = [sending EXCEPT !.lost = TRUE] /\ UNCHANGED chain
      BY <1>3, <2>3 DEF SendLost
    <3>2. sending' \in Sending /\ sending'.send = sending.send
      BY <1>0, <2>1, <3>1, KeysAreTyped DEF Sending
    <3>. QED BY <2>1, <2>2, <3>1, <3>2, OnTheWay
  <2>4. CASE ~MayReconnect
    <3>1. Outcome("Failed")
      BY <1>3, <2>4 DEF SendLost
    <3>. QED BY <2>1, <2>2, <3>1, AtItsEnd
  <2>. QED BY <2>3, <2>4
<1>4. ASSUME NEW attached \in BOOLEAN, Reconnect(attached) PROVE PromptInv'
  <2>1. /\ sending # None /\ UNCHANGED <<unsent, delivered>>
        /\ UNCHANGED <<confVars, reports, selected, uiVars, promise>>
    BY <1>4 DEF Reconnect
  <2>2. unsent' \subseteq Panes /\ delivered' \in [typed : 0..3, submitted : 0..3, lost : BOOLEAN]
    BY <1>0, <2>1 DEF TypeOK
  <2>3. CASE attached
    <3>1. sending' = [sending EXCEPT !.lost = FALSE, !.retried = TRUE] /\ UNCHANGED chain
      BY <1>4, <2>3 DEF Reconnect
    <3>2. sending' \in Sending /\ sending'.send = sending.send
      BY <1>0, <2>1, <3>1, KeysAreTyped DEF Sending
    <3>. QED BY <2>1, <2>2, <3>1, <3>2, OnTheWay
  <2>4. CASE ~attached
    <3>1. Outcome("Failed")
      BY <1>4, <2>4 DEF Reconnect
    <3>. QED BY <2>1, <2>2, <3>1, AtItsEnd
  <2>. QED BY <2>3, <2>4
<1>. QED BY <1>1, <1>2, <1>3, <1>4 DEF Tmux

\* What happens around the dashboard.
LEMMA AroundKeeps ==
    ASSUME PromptInv, (\E pane \in Panes : PaneClears(pane)) \/ Crash \/ UNCHANGED vars
    PROVE  PromptInv'
<1>. USE DEF PromptInv
<1>1. CASE \E pane \in Panes : PaneClears(pane)
  <2>1. unsent' \subseteq Panes /\ UNCHANGED <<confVars, reports, selected, uiVars, chain,
                                              sending, promise, delivered>>
    BY <1>1 DEF PaneClears, TypeOK
  <2>2. TypeOK'
    BY <2>1 DEF TypeOK, confVars, uiVars
  <2>. QED BY <2>1, <2>2 DEF ModalShowsGate, OpenSendIsPromised, ModalKeepsItsPromise,
                             SendsOnlyLiveProposals, CheckSendGate, confVars, uiVars
<1>2. CASE Crash
  <2>1. TypeOK'
    BY <1>2 DEF Crash, TypeOK
  <2>. QED BY <1>2, <2>1 DEF Crash, ModalShowsGate, OpenSendIsPromised, ModalKeepsItsPromise,
                             SendsOnlyLiveProposals
<1>3. CASE UNCHANGED vars
  <2>1. TypeOK'
    BY <1>3 DEF vars, TypeOK, confVars, uiVars
  <2>. QED BY <1>3, <2>1
           DEF vars, ModalShowsGate, OpenSendIsPromised, ModalKeepsItsPromise,
               SendsOnlyLiveProposals, CheckSendGate, confVars, uiVars
<1>. QED BY <1>1, <1>2, <1>3

LEMMA PromptInvStep == PromptInv /\ [Next]_vars => PromptInv'
<1>. SUFFICES ASSUME PromptInv, [Next]_vars PROVE PromptInv'
  OBVIOUS
<1>. QED BY DashboardKeeps, DecisionsKeep, RefreshKeeps, TmuxKeeps, AroundKeeps DEF Next

-----------------------------------------------------------------------------
(* Counts of keys *)

\* How far a send under way has come, and what was lost on the way.
SendProgress ==
    sending # None =>
        /\ ~delivered.lost => ~sending.lost /\ ~sending.retried
        /\ sending.step = "literal" =>
               /\ delivered.submitted = 0
               /\ delivered.typed <= IF sending.lost \/ sending.retried THEN 1 ELSE 0
        /\ sending.step = "submit" =>
               /\ delivered.typed \in 1..2
               /\ ~delivered.lost => delivered.typed = 1
               /\ delivered.submitted <= IF sending.lost \/ sending.retried THEN 1 ELSE 0

DeliveryInv == SendProgress /\ OutcomeBoundsDelivery /\ AuditTellsOfAnsweredSends

LEMMA DeliveryInvInit == Init => DeliveryInv
BY DEF Init, DeliveryInv, SendProgress, OutcomeBoundsDelivery, AuditTellsOfAnsweredSends, Untouched

\* A step that sends nothing: the counts stay, and there is no send afterwards,
\* or it is the same.
LEMMA NoKeyIsSent ==
    ASSUME DeliveryInv, UNCHANGED <<chain, delivered>>, sending' = sending \/ sending' = None
    PROVE  DeliveryInv'
BY DEF DeliveryInv, SendProgress, OutcomeBoundsDelivery, AuditTellsOfAnsweredSends

\* A decision or a request: nothing was sent so far.
LEMMA SendBegins ==
    ASSUME delivered' = Untouched, NEW send, sending' = None \/ sending' = Started(send),
           Len(chain') = 2 => chain'[2].kind = "Blocked"
    PROVE  DeliveryInv'
<1>1. delivered'.typed = 0 /\ delivered'.submitted = 0 /\ ~delivered'.lost
  BY DEF Untouched
<1>2. sending' # None =>
          ~sending'.lost /\ ~sending'.retried /\ sending'.step = "literal"
  BY DEF Started
<1>. QED BY <1>1, <1>2
         DEF DeliveryInv, SendProgress, OutcomeBoundsDelivery, AuditTellsOfAnsweredSends

\* An outcome is the second event, and it says what it says.
LEMMA OutcomeIsSecond ==
    ASSUME PromptInv, sending # None, NEW kind \in {"Completed", "Failed"}, Outcome(kind)
    PROVE  /\ sending' = None /\ Len(chain') = 2 /\ chain'[2].kind = kind
<1>1. chain \in Seq(Event) /\ Len(chain) = 1 /\ sending \in Sending
  BY DEF PromptInv, TypeOK, OpenSendIsPromised
<1>2. Record(kind, sending.send) \in Event /\ Record(kind, sending.send).kind = kind
  BY <1>1 DEF Record, Event, Kinds, Sending, Send, StatusSend
<1>. QED BY <1>1, <1>2, AfterTheFirst DEF Outcome

\* A key counts once, as what its step is.
LEMMA KeysCount ==
    ASSUME TypeOK, sending # None, delivered.typed <= 2, delivered.submitted <= 2
    PROVE  /\ delivered \in [typed : 0..3, submitted : 0..3, lost : BOOLEAN]
           /\ sending \in Sending /\ sending.step \in {"literal", "submit"}
           /\ Delivered.lost = delivered.lost
           /\ sending.step = "literal" => /\ Delivered.typed = delivered.typed + 1
                                          /\ Delivered.submitted = delivered.submitted
           /\ sending.step = "submit" => /\ Delivered.typed = delivered.typed
                                         /\ Delivered.submitted = delivered.submitted + 1
<1>1. /\ delivered \in [typed : 0..3, submitted : 0..3, lost : BOOLEAN]
      /\ sending \in Sending /\ sending.step \in {"literal", "submit"}
  BY DEF TypeOK, Sending
<1>2. Counted(delivered.typed) = delivered.typed + 1
      /\ Counted(delivered.submitted) = delivered.submitted + 1
  BY <1>1 DEF Counted
<1>. QED BY <1>1, <1>2 DEF Delivered

LEMMA TmuxDelivers ==
    ASSUME PromptInv, DeliveryInv, Tmux
    PROVE  DeliveryInv'
<1>. USE DEF DeliveryInv
<1>0. TypeOK
  BY DEF PromptInv
<1>. DEFINE Counts == /\ delivered \in [typed : 0..3, submitted : 0..3, lost : BOOLEAN]
                      /\ sending \in Sending /\ sending.step \in {"literal", "submit"}
                      /\ Delivered.lost = delivered.lost
                      /\ sending.step = "literal" => /\ Delivered.typed = delivered.typed + 1
                                                     /\ Delivered.submitted = delivered.submitted
                      /\ sending.step = "submit" => /\ Delivered.typed = delivered.typed
                                                    /\ Delivered.submitted = delivered.submitted + 1
<1>1. sending # None => Counts
  BY <1>0, KeysCount DEF OutcomeBoundsDelivery
<1>2. CASE SendAnswered
  <2>1. sending # None /\ ~sending.lost /\ delivered' = Delivered
    BY <1>2 DEF SendAnswered, Issued
  <2>2. CASE sending.step = "submit"
    <3>1. Outcome("Completed")
      BY <1>2, <2>2 DEF SendAnswered, Remaining
    <3>2. sending' = None /\ Len(chain') = 2 /\ chain'[2].kind = "Completed"
      BY <2>1, <3>1, OutcomeIsSecond
    <3>3. /\ delivered'.submitted = delivered.submitted + 1 /\ delivered'.typed = delivered.typed
          /\ delivered'.lost = delivered.lost
      BY <1>1, <2>1, <2>2
    <3>. QED BY <1>1, <2>1, <2>2, <3>2, <3>3
             DEF SendProgress, OutcomeBoundsDelivery, AuditTellsOfAnsweredSends
  <2>3. CASE sending.step = "literal"
    <3>1. /\ sending' = [sending EXCEPT !.step = "submit", !.retried = FALSE]
          /\ UNCHANGED chain
      BY <1>1, <1>2, <2>1, <2>3 DEF SendAnswered, Remaining, Sending
    <3>2. sending'.step = "submit" /\ ~sending'.lost /\ ~sending'.retried
      BY <1>1, <2>1, <3>1 DEF Sending
    <3>3. /\ delivered'.submitted = 0 /\ delivered'.typed = delivered.typed + 1
          /\ delivered'.lost = delivered.lost
      BY <1>1, <2>1, <2>3 DEF SendProgress
    <3>4. Len(chain') # 2
      BY <2>1, <3>1 DEF PromptInv, OpenSendIsPromised
    <3>. QED BY <1>1, <2>1, <2>3, <3>2, <3>3, <3>4
             DEF SendProgress, OutcomeBoundsDelivery, AuditTellsOfAnsweredSends
  <2>. QED BY <1>1, <2>1, <2>2, <2>3
<1>3. CASE SendRefused
  <2>1. sending # None /\ ~sending.lost /\ Outcome("Failed") /\ UNCHANGED delivered
    BY <1>3 DEF SendRefused, Issued
  <2>2. sending' = None /\ Len(chain') = 2 /\ chain'[2].kind = "Failed"
    BY <2>1, OutcomeIsSecond
  <2>. QED BY <1>1, <2>1, <2>2
           DEF SendProgress, OutcomeBoundsDelivery, AuditTellsOfAnsweredSends
<1>4. ASSUME NEW executed \in BOOLEAN, SendLost(executed) PROVE DeliveryInv'
  <2>1. /\ sending # None /\ ~sending.lost
        /\ delivered' = [IF executed THEN Delivered ELSE delivered EXCEPT !.lost = TRUE]
    BY <1>4 DEF SendLost, Issued
  <2>2. /\ delivered'.lost
        /\ sending.step = "literal" =>
               /\ delivered'.submitted = 0
               /\ delivered'.typed \in {delivered.typed, delivered.typed + 1}
        /\ sending.step = "submit" =>
               /\ delivered'.typed = delivered.typed
               /\ delivered'.submitted \in {delivered.submitted, delivered.submitted + 1}
    <3>1. Delivered \in [typed : 0..3, submitted : 0..3, lost : BOOLEAN]
      BY <1>0, <2>1, KeysAreTyped
    <3>. QED BY <1>1, <2>1, <3>1 DEF SendProgress
  <2>3. CASE MayReconnect
    <3>1. sending' = [sending EXCEPT !.lost = TRUE] /\ UNCHANGED chain
      BY <1>4, <2>3 DEF SendLost
    <3>2. sending'.step = sending.step /\ sending'.lost
      BY <1>1, <2>1, <3>1 DEF Sending
    <3>3. Len(chain') # 2
      BY <2>1, <3>1 DEF PromptInv, OpenSendIsPromised
    <3>. QED BY <1>1, <2>1, <2>2, <2>3, <3>2, <3>3
             DEF SendProgress, OutcomeBoundsDelivery, AuditTellsOfAnsweredSends, MayReconnect
  <2>4. CASE ~MayReconnect
    <3>1. Outcome("Failed")
      BY <1>4, <2>4 DEF SendLost
    <3>2. sending' = None /\ Len(chain') = 2 /\ chain'[2].kind = "Failed"
      BY <2>1, <3>1, OutcomeIsSecond
    <3>. QED BY <1>1, <2>1, <2>2, <3>2
             DEF SendProgress, OutcomeBoundsDelivery, AuditTellsOfAnsweredSends
  <2>. QED BY <2>3, <2>4
<1>5. ASSUME NEW attached \in BOOLEAN, Reconnect(attached) PROVE DeliveryInv'
  <2>1. sending # None /\ sending.lost /\ UNCHANGED delivered
    BY <1>5 DEF Reconnect
  <2>2. CASE attached
    <3>1. sending' = [sending EXCEPT !.lost = FALSE, !.retried = TRUE] /\ UNCHANGED chain
      BY <1>5, <2>2 DEF Reconnect
    <3>2. sending'.step = sending.step /\ ~sending'.lost /\ sending'.retried
      BY <1>1, <2>1, <3>1 DEF Sending
    <3>. QED BY <1>1, <2>1, <3>1, <3>2
             DEF SendProgress, OutcomeBoundsDelivery, AuditTellsOfAnsweredSends
  <2>3. CASE ~attached
    <3>1. Outcome("Failed")
      BY <1>5, <2>3 DEF Reconnect
    <3>2. sending' = None /\ Len(chain') = 2 /\ chain'[2].kind = "Failed"
      BY <2>1, <3>1, OutcomeIsSecond
    <3>. QED BY <1>1, <2>1, <3>2
             DEF SendProgress, OutcomeBoundsDelivery, AuditTellsOfAnsweredSends
  <2>. QED BY <2>2, <2>3
<1>. QED BY <1>2, <1>3, <1>4, <1>5 DEF Tmux

LEMMA DeliveryInvStep == PromptInv /\ DeliveryInv /\ [Next]_vars => DeliveryInv'
<1>. SUFFICES ASSUME PromptInv, DeliveryInv, [Next]_vars PROVE DeliveryInv'
  OBVIOUS
<1>1. ASSUME \/ \E listing \in Listings : Poll(listing)
             \/ \E row \in 0..Len(reports) : Select(row)
             \/ OpenSettings \/ ChangeSettings \/ CloseSettings
             \/ \E accepting \in BOOLEAN : OpenExplainer(accepting)
             \/ Cancel \/ (Confirm /\ ~Resolves(pending))
             \/ (\E pane \in Panes : PaneClears(pane)) \/ Crash \/ UNCHANGED vars
      PROVE  DeliveryInv'
  <2>1. UNCHANGED <<chain, delivered>> /\ (sending' = sending \/ sending' = None)
    BY <1>1 DEF Poll, Select, OpenSettings, ChangeSettings, CloseSettings, OpenExplainer, Cancel,
                Confirm, PaneClears, Crash, vars
  <2>. QED BY <2>1, NoKeyIsSent
<1>2. ASSUME NEW accepting, NEW send, Decide(accepting, send) PROVE DeliveryInv'
  <2>1. delivered' = Untouched /\ (sending' = None \/ sending' = Started(send))
    BY <1>2 DEF Decide
  <2>2. Len(chain') = 2 => chain'[2].kind = "Blocked"
    BY <1>2, GateIsGate DEF Decide, EventsOf, Gates, Record
  <2>. QED BY <2>1, <2>2, SendBegins
<1>3. CASE \E accepting \in BOOLEAN : ActDirectly(accepting)
  BY <1>2, <1>3 DEF ActDirectly
<1>4. CASE Confirm /\ Resolves(pending)
  BY <1>2, <1>4 DEF Confirm
<1>5. CASE RefreshRuntime
  <2>1. PICK send, kind : chain' = <<Record(kind, send)>>
                          /\ (sending' = None \/ sending' = Started(send))
    BY <1>5, Requesting DEF PromptInv
  <2>2. delivered' = Untouched
    BY <1>5 DEF RefreshRuntime
  <2>3. Len(chain') # 2
    BY <2>1
  <2>. QED BY <2>1, <2>2, <2>3, SendBegins
<1>. QED BY <1>1, <1>3, <1>4, <1>5, TmuxDelivers DEF Next

-----------------------------------------------------------------------------
(* The dashboard implements PromptAudit *)

\* The send that PromptAudit sees.
OpenSend == IF sending = None THEN None ELSE sending.send

LEMMA OpenSends ==
    ASSUME TypeOK
    PROVE  /\ sending # None <=> OpenSend # None
           /\ sending # None => OpenSend = sending.send
<1>1. sending # None => sending.send \in Send \union StatusSend
  BY DEF TypeOK, Sending
<1>. QED BY <1>1, NoneAssumption DEF OpenSend

\* Deciding is rejecting, being blocked, or accepting.
LEMMA DecidingIsPromised ==
    ASSUME PromptInv, sending = None, NEW accepting \in BOOLEAN, NEW send \in Send,
           Decide(accepting, send), UNCHANGED <<mode, auto_send, unsent>>
    PROVE  Promise!Next
<1>1. send \in [pane : Panes, cmd : Commands]
  BY DEF Send
<1>2. Started(send) # None /\ Started(send).send = send
  <2>1. Started(send) \in Sending
    BY DEF Started, Sending
  <2>. QED BY <2>1, NoneAssumption DEF Started
<1>3. CASE accepting = FALSE
  <2>1. Promise!Reject(send)
    BY <1>3 DEF Decide, EventsOf, Promise!Reject, Promise!Record, Record
  <2>. QED BY <1>1, <2>1 DEF Promise!Next
<1>4. CASE accepting = TRUE /\ CheckSendGate # "Execute"
  <2>1. CASE mode = ObserveOnly
    <3>1. CheckSendGate = "Blocked"
      BY <2>1 DEF CheckSendGate
    <3>2. chain' = <<Record("Blocked", send)>> /\ sending' = None
      BY <1>4, <3>1 DEF Decide, EventsOf
    <3>3. Promise!Block(send)
      BY <2>1, <3>2 DEF Promise!Block, Promise!Record, Record
    <3>. QED BY <1>1, <3>3 DEF Promise!Next
  <2>2. CASE mode # ObserveOnly
    <3>1. CheckSendGate = "AutoSendOff" /\ ~auto_send
      BY <1>4, <2>2 DEF CheckSendGate
    <3>2. chain' = <<Record("Accepted", send), Record("Blocked", send)>> /\ sending' = None
      BY <1>4, <3>1 DEF Decide, EventsOf
    <3>3. Promise!Block(send)
      BY <2>2, <3>1, <3>2 DEF Promise!Block, Promise!Record, Record
    <3>. QED BY <1>1, <3>3 DEF Promise!Next
  <2>. QED BY <2>1, <2>2
<1>5. CASE accepting = TRUE /\ CheckSendGate = "Execute"
  <2>1. mode # ObserveOnly /\ auto_send
    BY <1>5 DEF CheckSendGate
  <2>2. chain' = <<Record("Accepted", send)>> /\ sending' = Started(send)
    BY <1>5 DEF Decide, EventsOf
  <2>3. Promise!Accept(send)
    BY <1>2, <2>1, <2>2 DEF Promise!Accept, Promise!Record, Record
  <2>. QED BY <1>1, <2>3 DEF Promise!Next
<1>. QED BY <1>3, <1>4, <1>5

\* A step of tmux delivers a key or none, and may bring the outcome.
LEMMA TmuxIsPromised ==
    ASSUME PromptInv, Tmux
    PROVE  Promise!Next
<1>1. sending # None /\ UNCHANGED <<mode, auto_send>>
  BY DEF Tmux, SendAnswered, SendRefused, SendLost, Reconnect, Issued, confVars
<1>2. OpenSend # None /\ OpenSend = sending.send /\ sending \in Sending
  BY <1>1, OpenSends DEF PromptInv, TypeOK
<1>3. unsent' \in {unsent, unsent \union {OpenSend.pane}, unsent \ {OpenSend.pane}}
  BY <1>1, <1>2 DEF Tmux, SendAnswered, SendRefused, SendLost, Reconnect, InputLines
<1>4. \/ \E kind \in {"Completed", "Failed"} : Outcome(kind)
      \/ /\ UNCHANGED chain
         /\ \/ /\ Remaining(sending.step) # "done"
               /\ sending' = [sending EXCEPT !.step = Remaining(@), !.retried = FALSE]
            \/ sending' = [sending EXCEPT !.lost = TRUE]
            \/ sending' = [sending EXCEPT !.lost = FALSE, !.retried = TRUE]
  BY DEF Tmux, SendAnswered, SendRefused, SendLost, Reconnect
<1>5. CASE \E kind \in {"Completed", "Failed"} : Outcome(kind)
  <2>1. PICK kind \in {"Completed", "Failed"} : Outcome(kind)
    BY <1>5
  <2>2. chain' = Append(chain, Promise!Record(kind, OpenSend)) /\ sending' = None
    BY <1>2, <2>1 DEF Outcome, Record, Promise!Record
  <2>. QED BY <1>1, <1>2, <1>3, <2>2 DEF Promise!Next, Promise!Deliver, OpenSend
<1>6. CASE ~\E kind \in {"Completed", "Failed"} : Outcome(kind)
  <2>1. UNCHANGED chain /\ sending' # None /\ sending'.send = sending.send
    <3>1. sending' \in Sending /\ sending'.send = sending.send
      BY <1>2, <1>4, <1>6 DEF Sending, Remaining
    <3>. QED BY <1>4, <1>6, <3>1, NoneAssumption
  <2>. QED BY <1>1, <1>2, <1>3, <2>1 DEF Promise!Next, Promise!Deliver, OpenSend
<1>. QED BY <1>5, <1>6

LEMMA PromisedInit == Init => Promise!Init
BY DEF Init, Promise!Init

LEMMA PromisedStep == PromptInv /\ [Next]_vars => [Promise!Next]_Promise!vars
<1>. SUFFICES ASSUME PromptInv, [Next]_vars
              PROVE  Promise!Next \/ UNCHANGED Promise!vars
  OBVIOUS
<1>0. TypeOK
  BY DEF PromptInv
<1>1. ASSUME \/ \E listing \in Listings : Poll(listing)
             \/ \E row \in 0..Len(reports) : Select(row)
             \/ OpenSettings \/ CloseSettings
             \/ \E accepting \in BOOLEAN : OpenExplainer(accepting)
             \/ Cancel \/ (Confirm /\ ~Resolves(pending)) \/ UNCHANGED vars
      PROVE  UNCHANGED Promise!vars
  BY <1>1 DEF Poll, Select, OpenSettings, CloseSettings, OpenExplainer, Cancel, Confirm, vars,
              confVars, Promise!vars
<1>2. CASE ChangeSettings
  BY <1>2 DEF ChangeSettings, Promise!Next, Promise!Configure
<1>3. ASSUME NEW accepting \in BOOLEAN, ActDirectly(accepting) PROVE Promise!Next
  <2>1. reports[selected] \in Report /\ reports[selected].cmds # {}
    BY <1>0, <1>3, RowsAreReports DEF ActDirectly, HasProposal
  <2>2. FirstProposal(reports[selected]) \in Send
    BY <2>1, FirstIsProposed
  <2>. QED BY <1>3, <2>2, DecidingIsPromised DEF ActDirectly, HasProposal, confVars
<1>4. CASE Confirm /\ Resolves(pending)
  <2>1. pending.accepting \in BOOLEAN /\ pending.send \in Send
    BY <1>0, <1>4 DEF Confirm, TypeOK, Action
  <2>. QED BY <1>4, <2>1, DecidingIsPromised DEF Confirm, Confirmed, confVars
<1>5. CASE RefreshRuntime
  <2>1. PICK pane \in Panes, kind \in {"Completed", "Blocked", "Requested"} :
            LET send == [pane |-> pane, cmd |-> Status]
            IN  /\ chain' = <<Record(kind, send)>>
                /\ kind = "Requested" => sending' = Started(send) /\ mode # ObserveOnly
                /\ kind # "Requested" => sending' = None
                /\ kind = "Blocked" => mode = ObserveOnly
    BY <1>0, <1>5, Requesting
  <2>. DEFINE send == [pane |-> pane, cmd |-> Status]
  <2>2. sending = None /\ UNCHANGED <<mode, auto_send, unsent>>
    BY <1>5 DEF RefreshRuntime, confVars
  <2>3. Started(send) # None /\ Started(send).send = send
    <3>1. Started(send) \in Sending
      BY DEF Started, Sending, StatusSend
    <3>. QED BY <3>1, NoneAssumption DEF Started
  <2>4. Promise!Request(send)
    BY <2>1, <2>2, <2>3 DEF Promise!Request, Promise!Record, Record
  <2>. QED BY <2>4 DEF Promise!Next
<1>6. CASE \E pane \in Panes : PaneClears(pane)
  <2>1. PICK pane \in Panes : PaneClears(pane)
    BY <1>6
  <2>2. Promise!Clear(pane)
    BY <2>1 DEF PaneClears, Promise!Clear, confVars
  <2>. QED BY <2>2 DEF Promise!Next
<1>7. CASE Crash
  BY <1>7 DEF Crash, Promise!Next, Promise!Crash
<1>. QED BY <1>1, <1>2, <1>3, <1>4, <1>5, <1>6, <1>7, TmuxIsPromised DEF Next

-----------------------------------------------------------------------------
(* The theorems *)

\* Every state has the types TypeOK names.
THEOREM PromptTypes == Spec => []TypeOK
<1>1. PromptInv => TypeOK
  BY DEF PromptInv
<1>. QED BY <1>1, PromptInvInit, PromptInvStep, PTL DEF Spec

\* What was confirmed in the modal is what is recorded, whatever polls and
\* settings did meanwhile (ModalKeepsItsPromise).
THEOREM ModalIsKept == Spec => []ModalKeepsItsPromise
<1>1. PromptInv => ModalKeepsItsPromise
  BY DEF PromptInv
<1>. QED BY <1>1, PromptInvInit, PromptInvStep, PTL DEF Spec

\* Keys go only where the latest poll still shows the proposal, or the provider
\* that was asked for its status (SendsOnlyLiveProposals).
THEOREM OnlyLiveProposals == Spec => []SendsOnlyLiveProposals
<1>1. PromptInv => SendsOnlyLiveProposals
  BY DEF PromptInv
<1>. QED BY <1>1, PromptInvInit, PromptInvStep, PTL DEF Spec

\* The retry repeats a key at most once, and a completed send has submitted its
\* command (OutcomeBoundsDelivery).
THEOREM DeliveryIsBounded == Spec => []OutcomeBoundsDelivery
<1>1. DeliveryInv => OutcomeBoundsDelivery
  BY DEF DeliveryInv
<1>. QED
  BY <1>1, PromptInvInit, PromptInvStep, DeliveryInvInit, DeliveryInvStep, PTL DEF Spec

\* The audit log tells what a pane got, unless an answer was lost
\* (AuditTellsOfAnsweredSends).
THEOREM AuditIsTrue == Spec => []AuditTellsOfAnsweredSends
<1>1. DeliveryInv => AuditTellsOfAnsweredSends
  BY DEF DeliveryInv
<1>. QED
  BY <1>1, PromptInvInit, PromptInvStep, DeliveryInvInit, DeliveryInvStep, PTL DEF Spec

\* The dashboard, its modal, its gates and its transport do what PromptAudit
\* promises (ImplementsPromptAudit).
THEOREM AuditIsImplemented == Spec => ImplementsPromptAudit
BY PromptInvInit, PromptInvStep, PromisedInit, PromisedStep, PTL
DEF Spec, ImplementsPromptAudit, Promise!Spec
=============================================================================
