-------------------------- MODULE OffloadRefinement ---------------------------
(***************************************************************************)
(* The offload pipelines implement the contract of a TransferHandle: under *)
(* the refinement mapping Outcome of module Offload, the initial states    *)
(* are initial states of TransferOutcome, and every step of the engine is  *)
(* a step of TransferOutcome or changes nothing of it.  What is proved of  *)
(* the contract then holds of every handle of the engine.                  *)
(***************************************************************************)
EXTENDS OffloadProofs

\* What the handle shows of transfer t.
Submitted(t) == at[t][Root] # "absent"
Holding(t) == Held(t) # {}
Result(t) == IF status[t] \in Terminal THEN status[t] ELSE "none"
IsLive(t) == outstanding_units[t] # 0

\* The step changes nothing of what the handle of transfer u shows.
SameView(u) ==
    /\ Submitted(u)' = Submitted(u) /\ phase'[u] = phase[u]
    /\ cancel_requested'[u] = cancel_requested[u] /\ Holding(u)' = Holding(u)
    /\ faulted'[u] = faulted[u] /\ Retained(u)' = Retained(u) /\ Result(u)' = Result(u)
    /\ IsLive(u)' = IsLive(u)

\* The step changes what the handles show of transfer t alone.
Others(t) == PipelinesInv /\ PipelinesInv' /\ \A u \in Transfers : u # t => SameView(u)

\* A transfer that a step leaves alone shows what it showed.
LEMMA RowView ==
  ASSUME PipelinesInv, NEW u \in Transfers, SameRow(u), Recorded
  PROVE  SameView(u)
<1>1. faulted'[u] = faulted[u]
  BY Zenon, RowFrame
<1>2. Held(u)' = Held(u) /\ Retained(u)' = Retained(u)
  BY DEF SameRow, Held, Guards, Retained
<1> QED
  BY Zenon, <1>1, <1>2, PlaceFacts DEF SameRow, SameView, Submitted, Holding, Result, IsLive

\* What the handles show changes at most for transfer t.
OneView(t) ==
    /\ [u \in Transfers |-> at[u][Root] # "absent"]'
        = [[u \in Transfers |-> at[u][Root] # "absent"] EXCEPT ![t] = Submitted(t)']
    /\ phase' = [phase EXCEPT ![t] = phase'[t]]
    /\ cancel_requested' = [cancel_requested EXCEPT ![t] = cancel_requested'[t]]
    /\ [u \in Transfers |-> Held(u) # {}]'
        = [[u \in Transfers |-> Held(u) # {}] EXCEPT ![t] = Holding(t)']
    /\ faulted' = [faulted EXCEPT ![t] = faulted'[t]]
    /\ [u \in Transfers |-> Retained(u)]'
        = [[u \in Transfers |-> Retained(u)] EXCEPT ![t] = Retained(t)']
    /\ [u \in Transfers |-> IF status[u] \in Terminal THEN status[u] ELSE "none"]'
        = [[u \in Transfers |-> IF status[u] \in Terminal THEN status[u] ELSE "none"]
              EXCEPT ![t] = Result(t)']
    /\ [u \in Transfers |-> outstanding_units[u] # 0]'
        = [[u \in Transfers |-> outstanding_units[u] # 0] EXCEPT ![t] = IsLive(t)']

\* A step that leaves the other transfers alone changes the mapped functions at t only
\* (each TransferHandle has its own TransferState).
LEMMA ViewFrame ==
  ASSUME NEW t \in Transfers, Others(t)
  PROVE  OneView(t)
<1>1. /\ phase \in [Transfers -> {"Open", "Committed", "Cancelled"}]
      /\ phase' \in [Transfers -> {"Open", "Committed", "Cancelled"}]
      /\ cancel_requested \in [Transfers -> BOOLEAN] /\ cancel_requested' \in [Transfers -> BOOLEAN]
      /\ faulted \in [Transfers -> BOOLEAN] /\ faulted' \in [Transfers -> BOOLEAN]
  BY Zenon DEF Others, PipelinesInv, OffloadTypeOK
<1>2. /\ phase' = [phase EXCEPT ![t] = phase'[t]]
      /\ cancel_requested' = [cancel_requested EXCEPT ![t] = cancel_requested'[t]]
      /\ faulted' = [faulted EXCEPT ![t] = faulted'[t]]
  BY <1>1 DEF Others, SameView
<1>3. [u \in Transfers |-> at[u][Root] # "absent"]'
        = [[u \in Transfers |-> at[u][Root] # "absent"] EXCEPT ![t] = Submitted(t)']
  BY Zenon DEF Others, SameView, Submitted
<1>4. [u \in Transfers |-> Held(u) # {}]'
        = [[u \in Transfers |-> Held(u) # {}] EXCEPT ![t] = Holding(t)']
  BY Zenon DEF Others, SameView, Holding
<1>5. [u \in Transfers |-> Retained(u)]'
        = [[u \in Transfers |-> Retained(u)] EXCEPT ![t] = Retained(t)']
  BY Zenon DEF Others, SameView
<1>6. [u \in Transfers |-> IF status[u] \in Terminal THEN status[u] ELSE "none"]'
        = [[u \in Transfers |-> IF status[u] \in Terminal THEN status[u] ELSE "none"]
              EXCEPT ![t] = Result(t)']
  BY Zenon DEF Others, SameView, Result
<1>7. [u \in Transfers |-> outstanding_units[u] # 0]'
        = [[u \in Transfers |-> outstanding_units[u] # 0] EXCEPT ![t] = IsLive(t)']
  BY Zenon DEF Others, SameView, IsLive
<1> QED
  BY Zenon, <1>2, <1>3, <1>4, <1>5, <1>6, <1>7 DEF OneView

\* What such a step leaves of transfer t, it leaves of the mapped function (TransferState).
LEMMA ViewStays ==
  ASSUME NEW t \in Transfers, Others(t)
  PROVE  /\ Submitted(t)' = Submitted(t) => UNCHANGED [u \in Transfers |-> at[u][Root] # "absent"]
         /\ phase'[t] = phase[t] => UNCHANGED phase
         /\ cancel_requested'[t] = cancel_requested[t] => UNCHANGED cancel_requested
         /\ Holding(t)' = Holding(t) => UNCHANGED [u \in Transfers |-> Held(u) # {}]
         /\ faulted'[t] = faulted[t] => UNCHANGED faulted
         /\ Retained(t)' = Retained(t) => UNCHANGED [u \in Transfers |-> Retained(u)]
         /\ Result(t)' = Result(t)
              => UNCHANGED [u \in Transfers |-> IF status[u] \in Terminal THEN status[u] ELSE "none"]
         /\ IsLive(t)' = IsLive(t) => UNCHANGED [u \in Transfers |-> outstanding_units[u] # 0]
<1>1. /\ phase \in [Transfers -> {"Open", "Committed", "Cancelled"}]
      /\ phase' \in [Transfers -> {"Open", "Committed", "Cancelled"}]
      /\ cancel_requested \in [Transfers -> BOOLEAN] /\ cancel_requested' \in [Transfers -> BOOLEAN]
      /\ faulted \in [Transfers -> BOOLEAN] /\ faulted' \in [Transfers -> BOOLEAN]
  BY Zenon DEF Others, PipelinesInv, OffloadTypeOK
<1>2. phase'[t] = phase[t] => UNCHANGED phase
  BY <1>1 DEF Others, SameView
<1>3. cancel_requested'[t] = cancel_requested[t] => UNCHANGED cancel_requested
  BY <1>1 DEF Others, SameView
<1>4. faulted'[t] = faulted[t] => UNCHANGED faulted
  BY <1>1 DEF Others, SameView
<1>5. Submitted(t)' = Submitted(t) => UNCHANGED [u \in Transfers |-> at[u][Root] # "absent"]
  BY Zenon DEF Others, SameView, Submitted
<1>6. Holding(t)' = Holding(t) => UNCHANGED [u \in Transfers |-> Held(u) # {}]
  BY Zenon DEF Others, SameView, Holding
<1>7. Retained(t)' = Retained(t) => UNCHANGED [u \in Transfers |-> Retained(u)]
  BY Zenon DEF Others, SameView
<1>8. Result(t)' = Result(t)
        => UNCHANGED [u \in Transfers |-> IF status[u] \in Terminal THEN status[u] ELSE "none"]
  BY Zenon DEF Others, SameView, Result
<1>9. IsLive(t)' = IsLive(t) => UNCHANGED [u \in Transfers |-> outstanding_units[u] # 0]
  BY Zenon DEF Others, SameView, IsLive
<1> QED
  BY Zenon, <1>2, <1>3, <1>4, <1>5, <1>6, <1>7, <1>8, <1>9

\* The mapped functions at transfer t, as its TransferHandle shows them.
LEMMA ViewAt ==
  ASSUME NEW t \in Transfers
  PROVE  /\ [u \in Transfers |-> at[u][Root] # "absent"][t] = Submitted(t)
         /\ [u \in Transfers |-> Held(u) # {}][t] = Holding(t)
         /\ [u \in Transfers |-> Retained(u)][t] = Retained(t)
         /\ [u \in Transfers |-> IF status[u] \in Terminal THEN status[u] ELSE "none"][t] = Result(t)
         /\ [u \in Transfers |-> outstanding_units[u] # 0][t] = IsLive(t)
         /\ Submitted(t)' \in BOOLEAN /\ Holding(t)' \in BOOLEAN
BY Zenon DEF Submitted, Holding, Result, IsLive

\* A step after which every handle shows what it showed is a stutter of the contract.
LEMMA StutterStep ==
  ASSUME PipelinesInv, PipelinesInv', \A u \in Transfers : SameView(u)
  PROVE  UNCHANGED Outcome!outcomeVars
<1>1. /\ phase \in [Transfers -> {"Open", "Committed", "Cancelled"}]
      /\ phase' \in [Transfers -> {"Open", "Committed", "Cancelled"}]
      /\ cancel_requested \in [Transfers -> BOOLEAN] /\ cancel_requested' \in [Transfers -> BOOLEAN]
      /\ faulted \in [Transfers -> BOOLEAN] /\ faulted' \in [Transfers -> BOOLEAN]
  BY Zenon DEF PipelinesInv, OffloadTypeOK
<1>2. phase' = phase /\ cancel_requested' = cancel_requested /\ faulted' = faulted
  BY <1>1 DEF SameView
<1> QED
  BY Zenon, <1>2 DEF SameView, Submitted, Holding, Result, IsLive, Outcome!outcomeVars

\* enqueue, as the handle shows it: the transfer appears with a live unit.
LEMMA SubmitStep ==
  ASSUME NEW t \in Transfers, Others(t), ~ Submitted(t), Submitted(t)', IsLive(t)',
         phase'[t] = phase[t], cancel_requested'[t] = cancel_requested[t],
         faulted'[t] = faulted[t], Retained(t)' = Retained(t), Result(t)' = Result(t)
  PROVE  Outcome!Submit(t)
BY Zenon, ViewFrame, ViewStays, ViewAt DEF OneView, Outcome!Submit

\* CommitmentGate::request, as the handle shows it: the request, and the decision if none
\* was taken.
LEMMA CancelStep ==
  ASSUME NEW t \in Transfers, Others(t), Submitted(t), Submitted(t)',
         ~ cancel_requested[t], cancel_requested'[t],
         phase'[t] = IF phase[t] = "Open" THEN "Cancelled" ELSE phase[t],
         Holding(t)' = Holding(t), faulted'[t] = faulted[t], Retained(t)' = Retained(t),
         Result(t)' = Result(t), IsLive(t)' = IsLive(t)
  PROVE  Outcome!Cancel(t)
BY Zenon, ViewFrame, ViewStays, ViewAt DEF OneView, Outcome!Cancel

\* upgrade_batch, as the handle shows it: the gate commits, and guards may go but
\* none is taken.
LEMMA CommitStep ==
  ASSUME NEW t \in Transfers, Others(t), Submitted(t), Submitted(t)',
         phase[t] = "Open", phase'[t] = "Committed", Result(t) = "none", Result(t)' = "none",
         cancel_requested'[t] = cancel_requested[t], Holding(t),
         faulted'[t] = faulted[t], Retained(t)' = Retained(t), IsLive(t)' = IsLive(t)
  PROVE  Outcome!Commit(t)
<1>1. [u \in Transfers |-> Held(u) # {}][t]
  BY Zenon DEF Holding
<1>2. \E held \in BOOLEAN :
        /\ held => [u \in Transfers |-> Held(u) # {}][t]
        /\ [u \in Transfers |-> Held(u) # {}]' = [[u \in Transfers |-> Held(u) # {}] EXCEPT ![t] = held]
  BY Zenon, <1>1, ViewFrame, ViewAt DEF OneView
<1> QED
  BY Zenon, <1>2, ViewFrame, ViewStays, ViewAt DEF OneView, Outcome!Commit

\* Guards that a container drops, or that a route of a committed transfer takes, as the
\* handle shows it.
LEMMA HoldStep ==
  ASSUME NEW t \in Transfers, Others(t), Submitted(t), Submitted(t)',
         Result(t) = "none", Result(t)' = "none", phase'[t] = phase[t],
         cancel_requested'[t] = cancel_requested[t], faulted'[t] = faulted[t],
         Retained(t)' = Retained(t), IsLive(t)' = IsLive(t),
         Holding(t)' => phase[t] = "Committed", Retained(t) => Holding(t)'
  PROVE  Outcome!Hold(t)
BY Zenon, ViewFrame, ViewStays, ViewAt DEF OneView, Outcome!Hold

\* A committed container that fails (record_error follows), as the handle shows it.
LEMMA FaultStep ==
  ASSUME NEW t \in Transfers, Others(t), Submitted(t), Submitted(t)', phase[t] = "Committed",
         Result(t) = "none", Result(t)' = "none", phase'[t] = phase[t], faulted'[t],
         cancel_requested'[t] = cancel_requested[t], Retained(t)' = Retained(t),
         IsLive(t)' = IsLive(t), Retained(t) => Holding(t)'
  PROVE  Outcome!Fault(t)
BY Zenon, ViewFrame, ViewStays, ViewAt DEF OneView, Outcome!Fault

\* retain_unproven, as the handle shows it: the fault is known and the guards stay.
LEMMA RetainStep ==
  ASSUME NEW t \in Transfers, Others(t), Submitted(t), Submitted(t)', phase[t] = "Committed",
         Result(t) = "none", Result(t)' = "none", phase'[t] = phase[t], faulted'[t],
         cancel_requested'[t] = cancel_requested[t], Retained(t)', IsLive(t)' = IsLive(t),
         Holding(t), Holding(t)'
  PROVE  Outcome!Retain(t)
BY Zenon, ViewFrame, ViewStays, ViewAt DEF OneView, Outcome!Retain

\* A terminal status, as the handle shows it: it agrees with the decision and the faults,
\* and nothing is held.
LEMMA PublishStep ==
  ASSUME NEW t \in Transfers, Others(t), Submitted(t), Submitted(t)', Result(t) = "none",
         Result(t)' \in Terminal, Result(t)' = "Cancelled" => phase[t] = "Cancelled",
         phase[t] = "Committed" => Result(t)' = IF faulted[t] THEN "Failed" ELSE "Complete",
         ~ Holding(t), Holding(t)' = Holding(t), ~ Retained(t), Retained(t)' = Retained(t),
         phase'[t] = phase[t], cancel_requested'[t] = cancel_requested[t], faulted'[t] = faulted[t],
         IsLive(t)' = IsLive(t)
  PROVE  Outcome!Publish(t)
<1>1. Result(t)' \in Outcome!Results(t)
  <2>1. phase[t] \in {"Open", "Committed", "Cancelled"}
    BY Zenon DEF Others, PipelinesInv, OffloadTypeOK
  <2> QED
    BY <2>1 DEF Outcome!Results, Terminal
<1> QED
  BY Zenon, <1>1, ViewFrame, ViewStays, ViewAt DEF OneView, Outcome!Publish

\* The last unit of the gate, as the handle shows it: the result is already out.
LEMMA CloseStep ==
  ASSUME NEW t \in Transfers, Others(t), Submitted(t)' = Submitted(t),
         IsLive(t), IsLive(t)' = FALSE,
         Result(t) # "none", Result(t)' = Result(t), phase'[t] = phase[t],
         cancel_requested'[t] = cancel_requested[t], Holding(t)' = Holding(t),
         faulted'[t] = faulted[t], Retained(t)' = Retained(t)
  PROVE  Outcome!Close(t)
BY Zenon, ViewFrame, ViewStays, ViewAt DEF OneView, Outcome!Close

(***************************************************************************)
(* The steps of the engine                                                 *)
(***************************************************************************)

\* The step is one of the contract's, or none.
Refined == Outcome!OutcomeNext \/ UNCHANGED Outcome!outcomeVars

\* A step that leaves every transfer but t alone leaves what their handles show.
LEMMA OthersShow ==
  ASSUME PipelinesInv, PipelinesInv', NEW t \in Transfers, Recorded,
         \A u \in Transfers : u # t => SameRow(u)
  PROVE  Others(t)
BY Zenon, RowView DEF Others

\* Retained physical work holds its guards (LocalPhysicalOwnership).
LEMMA RetainedHolds == PipelinesInv => \A u \in Transfers : Retained(u) => Holding(u)
<1> SUFFICES ASSUME PipelinesInv, NEW u \in Transfers, NEW p \in Places, at[u][p] = "retained"
             PROVE  Held(u) # {}
  BY Zenon DEF Retained, Holding
<1>1. Guards(u, p) # {}
  BY Zenon, PipelinesImply DEF UnprovenStaysOpen
<1> QED
  BY <1>1 DEF Held

\* A transfer with a container owns a unit (CancellationUnit).
LEMMA LiveShows == PipelinesInv => \A u \in Transfers : Live(u) # {} => IsLive(u)
BY Zenon, LiveFacts DEF IsLive

\* Only a committed transfer comes to hold guards that it did not hold: the root container
\* never takes any, and the routes start after the commitment.
LEMMA HoldGrows ==
  ASSUME PipelinesInv, NEW t \in Transfers, NEW p \in Places, Works(t, p), Holding(t)', ~ Holding(t)
  PROVE  phase[t] = "Committed"
<1>1. \A q \in Places : Guards(t, q) = {}
  BY DEF Holding, Held
<1>2. PICK q \in Places : Guards(t, q)' # {}
  BY DEF Holding, Held
<1>3. q = p
  BY Zenon, <1>1, <1>2 DEF Works, Elsewhere, Guards
<1>4. p # Root
  <2>1. Root \notin Locals
    BY Zenon, OffloadConstants
  <2> QED
    BY <1>1, <1>2, <1>3, <2>1 DEF Works, Guards
<1> QED
  BY Zenon, <1>4 DEF Works, PipelinesInv, TransferOK, RootFirst

\* A container at work commits its transfer, retains unproven work, records a fault, or
\* lets guards go and take; for the handle the rest of its work is nothing.
LEMMA AdvanceRefines ==
  ASSUME PipelinesInv, PipelinesInv', NEW t \in Transfers, NEW p \in Places, Advances(t, p)
  PROVE  Refined
<1> DEFINE a == at[t][p]
           s == at'[t][p]
<1>1. Works(t, p) /\ Recorded
  BY Zenon DEF Advances, Works
<1>2. Others(t)
  BY Zenon, <1>1, WorkOthers, OthersShow
<1>3. /\ TransferOK(t) /\ StageOK(t, p) /\ StageOK(t, p)'
      /\ faulted[t] \in BOOLEAN /\ faulted'[t] \in BOOLEAN
  BY Zenon DEF PipelinesInv, TransferOK, OffloadTypeOK
<1>4. Submitted(t) /\ Submitted(t)'
  BY <1>1, <1>3, PlaceFacts DEF Works, Elsewhere, TransferOK, RootFirst, Submitted
<1>5. Result(t) = "none" /\ Result(t)' = "none"
  BY Zenon, <1>1 DEF Works, Result, Terminal
<1>6. cancel_requested'[t] = cancel_requested[t] /\ IsLive(t)' = IsLive(t)
  BY Zenon, <1>1 DEF Works, IsLive
<1>7. s # "retained" => Retained(t)' = Retained(t)
  BY <1>1 DEF Works, Elsewhere, Retained
<1>8. s \notin {"fault", "retained"} => faulted'[t] = faulted[t]
  BY Zenon, <1>1, <1>3 DEF Works, Elsewhere, Recorded, TransferOK, StageOK, ResultOK
<1>9. (\A u \in Transfers : Retained(u) => Holding(u))'
  BY RetainedHolds, PTL
<1>10. CASE phase' = phase /\ s = "retained"
  <2>1. phase[t] = "Committed" /\ faulted'[t] /\ Retained(t)'
    BY Zenon, <1>3, <1>10 DEF StageOK, VerdictOK, ResultOK, CommittedStages, Retained
  <2>2. Guards(t, p) # {}
    BY Zenon, <1>1, <1>10, PipelinesImply DEF Works, UnprovenStaysOpen
  <2>3. Holding(t) /\ Holding(t)'
    BY <1>9, <2>1, <2>2 DEF Holding, Held
  <2> QED
    BY Zenon, <1>2, <1>4, <1>5, <1>6, <1>10, <2>1, <2>3, RetainStep DEF Refined, Outcome!OutcomeNext
<1>11. CASE phase' = phase /\ s = "fault"
  <2>1. phase[t] = "Committed" /\ faulted'[t]
    BY Zenon, <1>3, <1>11 DEF StageOK, VerdictOK, ResultOK, CommittedStages, SettleStages
  <2> QED
    BY Zenon, <1>2, <1>4, <1>5, <1>6, <1>7, <1>9, <1>11, <2>1, FaultStep DEF Refined,
       Outcome!OutcomeNext
<1>12. CASE phase' = phase /\ s \notin {"fault", "retained"}
  <2>1. CASE Holding(t)' = Holding(t)
    <3>1. Submitted(t)' = Submitted(t)
      BY Zenon, <1>4 DEF Submitted
    <3>2. SameView(t)
      BY Zenon, <1>5, <1>6, <1>7, <1>8, <1>12, <2>1, <3>1 DEF SameView
    <3> QED
      BY Zenon, <1>2, <3>2, StutterStep DEF Refined, Others
  <2>2. CASE Holding(t)' # Holding(t)
    <3>1. Holding(t)' => phase[t] = "Committed"
      BY Zenon, <1>1, <2>2, HoldGrows DEF Holding
    <3> QED
      BY Zenon, <1>2, <1>4, <1>5, <1>6, <1>7, <1>8, <1>9, <1>12, <3>1, HoldStep DEF Refined,
         Outcome!OutcomeNext
  <2> QED
    BY Zenon, <2>1, <2>2
<1>13. CASE phase' # phase
  <2>1. /\ p = Root /\ a = "received" /\ s \in {"committed", "settle"} /\ phase[t] = "Open"
        /\ phase' = [phase EXCEPT ![t] = "Committed"]
        /\ phase \in [Transfers -> {"Open", "Committed", "Cancelled"}]
    BY Zenon, <1>1, <1>13 DEF Works, PipelinesInv, OffloadTypeOK
  <2>2. claims[t][p] # {}
    BY Zenon, <1>3, <2>1, PlaceFacts DEF StageOK, PayloadOK, Claimed
  <2>3. Holding(t)
    BY <2>2 DEF Holding, Held, Guards
  <2>4. phase'[t] = "Committed"
    BY Zenon, <2>1
  <2> QED
    BY Zenon, <1>2, <1>4, <1>5, <1>6, <1>7, <1>8, <2>1, <2>3, <2>4, CommitStep DEF Refined,
       Outcome!OutcomeNext
<1> QED
  BY Zenon, <1>10, <1>11, <1>12, <1>13

\* Publishing: finish_logical_operation, or the publication by the only container, when no
\* payload is left.
LEMMA AnnounceRefines ==
  ASSUME PipelinesInv, PipelinesInv', NEW t \in Transfers, NEW p \in Places,
         Announces(t, p), Recorded
  PROVE  Refined
<1>1. Others(t)
  BY Zenon, AnnouncesInv, OthersShow
<1>2. TransferOK(t) /\ at \in [Transfers -> [Places -> Stages]] /\ faulted[t] \in BOOLEAN
  BY Zenon DEF PipelinesInv, OffloadTypeOK
<1>3. /\ at'[t][p] = "published" /\ Elsewhere(at, at', t, p)
      /\ at[t][p] \in {"publish", "last"}
      /\ \A q \in Places : q # p => at[t][q] \in {"absent", "done"}
  <2>1. "published" \in Stages
    BY Zenon DEF Stages
  <2> QED
    BY Zenon, <2>1, MoveEffect DEF Announces
<1>4. /\ phase' = phase /\ cancel_requested' = cancel_requested
      /\ outstanding_units' = outstanding_units /\ blocks' = blocks /\ claims' = claims
  BY Zenon DEF Announces, gateVars, payloadVars
<1>5. Submitted(t) /\ Submitted(t)'
  BY <1>2, <1>3, PlaceFacts DEF Elsewhere, TransferOK, RootFirst, Submitted
<1>6. Result(t) = "none" /\ Result(t)' = status'[t]
  BY Zenon DEF Announces, Result
<1>7. ~ Retained(t) /\ Retained(t)' = Retained(t)
  BY Zenon, <1>3 DEF Elsewhere, Retained
<1>8. \A q \in Places : blocks[t][q] = {} /\ claims[t][q] = {}
  BY Zenon, <1>2, <1>3 DEF TransferOK, StageOK, PayloadOK, PayloadGone, SettleStages
<1>9. ~ Holding(t) /\ Holding(t)' = Holding(t)
  BY <1>4, <1>8 DEF Holding, Held, Guards
<1>10. faulted'[t] = faulted[t]
  BY Zenon, <1>2, <1>3 DEF Elsewhere, Recorded, TransferOK, StageOK, ResultOK
<1>11. Outcome!Publish(t)
  BY Zenon, <1>1, <1>4, <1>5, <1>6, <1>7, <1>9, <1>10, PublishStep DEF Announces, IsLive
<1> QED
  BY Zenon, <1>11 DEF Refined, Outcome!OutcomeNext

\* Giving a unit back is nothing to the handle, unless it is the last one.
LEMMA RetireRefines ==
  ASSUME PipelinesInv, PipelinesInv', NEW t \in Transfers, NEW p \in Places,
         Retires(t, p), Recorded
  PROVE  Refined
<1>1. Others(t)
  BY Zenon, RetiresInv, OthersShow
<1>2. TransferOK(t) /\ TransferOK(t)' /\ faulted[t] \in BOOLEAN
  BY Zenon DEF PipelinesInv, OffloadTypeOK
<1>3. at'[t][p] = "done" /\ Elsewhere(at, at', t, p) /\ at[t][p] \in {"settle", "published"}
  <2>1. "done" \in Stages
    BY Zenon DEF Stages
  <2> QED
    BY Zenon, <2>1, MoveEffect DEF Retires
<1>4. /\ phase' = phase /\ cancel_requested' = cancel_requested /\ status' = status
      /\ blocks' = blocks /\ claims' = claims
  BY Zenon DEF Retires, payloadVars, stateVars
<1>5. Submitted(t) /\ Submitted(t)' = Submitted(t)
  BY <1>2, <1>3, PlaceFacts DEF Elsewhere, TransferOK, RootFirst, Submitted
<1>6. Result(t)' = Result(t) /\ Holding(t)' = Holding(t)
  BY Zenon, <1>4 DEF Result, Holding, Held, Guards
<1>7. Retained(t)' = Retained(t)
  BY <1>3 DEF Elsewhere, Retained
<1>8. faulted'[t] = faulted[t]
  BY Zenon, <1>2, <1>3 DEF Elsewhere, Recorded, TransferOK, StageOK, ResultOK
<1>9. IsLive(t)
  BY Zenon, <1>3, LiveFacts DEF Live, IsLive
<1>10. CASE IsLive(t)'
  <2>1. IsLive(t)' = IsLive(t)
    BY Zenon, <1>9, <1>10 DEF IsLive
  <2>2. SameView(t)
    BY Zenon, <1>4, <1>5, <1>6, <1>7, <1>8, <2>1 DEF SameView
  <2> QED
    BY Zenon, <1>1, <2>2, StutterStep DEF Refined, Others
<1>11. CASE ~ IsLive(t)'
  <2>1. IsLive(t)' = FALSE
    BY Zenon, <1>11 DEF IsLive
  <2>2. Result(t) # "none"
    BY Zenon, <1>2, <1>4, <1>5, <1>11 DEF TransferOK, Told, Submitted, IsLive, Result, Terminal
  <2>3. Outcome!Close(t)
    BY Zenon, <1>1, <1>4, <1>5, <1>6, <1>7, <1>8, <1>9, <2>1, <2>2, CloseStep
  <2> QED
    BY Zenon, <2>3 DEF Refined, Outcome!OutcomeNext
<1> QED
  BY Zenon, <1>10, <1>11

\* enqueue submits the transfer.
LEMMA EnqueueRefines ==
  ASSUME PipelinesInv, PipelinesInv', NEW t \in Transfers, enqueue(t), Recorded
  PROVE  Refined
<1>1. Others(t)
  BY Zenon, EnqueueInv, OthersShow
<1>2. /\ TransferOK(t) /\ TransferOK(t)' /\ at \in [Transfers -> [Places -> Stages]]
      /\ faulted[t] \in BOOLEAN
      /\ outstanding_units \in [Transfers -> Nat]
  BY Zenon DEF PipelinesInv, OffloadTypeOK
<1>3. /\ at[t][Root] = "absent" /\ Move(t, Root, at'[t][Root])
      /\ at'[t][Root] \in {"fail", "eval_queue"}
      /\ outstanding_units' = [outstanding_units EXCEPT ![t] = 1]
      /\ UNCHANGED <<phase, cancel_requested, status>>
  BY Zenon, <1>2, PlaceFacts DEF enqueue, Move, Pushed, stateVars
<1>4. \A q \in Places : q # Root => at[t][q] = "absent" /\ at'[t][q] = "absent"
  BY Zenon, <1>2, <1>3, PlaceFacts DEF TransferOK, RootFirst, Move
<1>5. ~ Submitted(t) /\ Submitted(t)' /\ Result(t)' = Result(t)
  BY Zenon, <1>3 DEF Submitted, Result
<1>6. IsLive(t)'
  BY <1>2, <1>3 DEF IsLive
<1>7. Retained(t)' = Retained(t) /\ faulted'[t] = faulted[t]
  BY Zenon, <1>2, <1>3, <1>4 DEF Retained, Recorded
<1>8. Outcome!Submit(t)
  BY Zenon, <1>1, <1>3, <1>5, <1>6, <1>7, SubmitStep
<1> QED
  BY Zenon, <1>8 DEF Refined, Outcome!OutcomeNext

\* CommitmentGate::request is the cancellation of the handle.
LEMMA RequestRefines ==
  ASSUME PipelinesInv, PipelinesInv', NEW t \in Transfers, request(t), Recorded
  PROVE  Refined
<1>1. Others(t)
  BY Zenon, RequestInv, OthersShow
<1>2. /\ TransferOK(t) /\ faulted[t] \in BOOLEAN /\ cancel_requested \in [Transfers -> BOOLEAN]
      /\ phase \in [Transfers -> {"Open", "Committed", "Cancelled"}]
  BY Zenon DEF PipelinesInv, OffloadTypeOK
<1>3. /\ at[t][Root] # "absent" /\ ~ cancel_requested[t] /\ cancel_requested'[t]
      /\ phase'[t] = IF phase[t] = "Open" THEN "Cancelled" ELSE phase[t]
      /\ UNCHANGED <<outstanding_units, status, at, blocks, claims>>
  BY Zenon, <1>2 DEF request, stateVars, payloadVars
<1>4. Submitted(t) /\ Submitted(t)' /\ Result(t)' = Result(t) /\ IsLive(t)' = IsLive(t)
  BY Zenon, <1>3 DEF Submitted, Result, IsLive
<1>5. Holding(t)' = Holding(t) /\ Retained(t)' = Retained(t)
  BY Zenon, <1>3 DEF Holding, Held, Guards, Retained
<1>6. faulted'[t] = faulted[t]
  BY Zenon, <1>2, <1>3 DEF Recorded, TransferOK, StageOK, ResultOK
<1>7. Outcome!Cancel(t)
  BY Zenon, <1>1, <1>3, <1>4, <1>5, <1>6, CancelStep
<1> QED
  BY Zenon, <1>7 DEF Refined, Outcome!OutcomeNext

\* The fan-out of a committed transfer: the routes take guards of their own.
LEMMA FanOutRefines ==
  ASSUME PipelinesInv, PipelinesInv', NEW t \in Transfers, FanOut(t), Recorded
  PROVE  Refined
<1>1. Others(t)
  BY Zenon, FanOutInv, OthersShow
<1>2. /\ TransferOK(t) /\ StageOK(t, Root) /\ faulted[t] \in BOOLEAN
      /\ at \in [Transfers -> [Places -> Stages]]
  BY Zenon, PlaceFacts DEF PipelinesInv, OffloadTypeOK, TransferOK
<1>3. /\ at[t][Root] = "chained" /\ UNCHANGED <<phase, cancel_requested, status>>
      /\ at' = [at EXCEPT ![t] = [p \in Places |-> IF p \in Routes THEN "routed"
                                                   ELSE IF p = Root THEN "done" ELSE at[t][p]]]
  BY Zenon DEF FanOut, stateVars
<1>4. \A q \in Places : q # Root => at[t][q] = "absent"
  BY Zenon, <1>2, <1>3 DEF TransferOK, RootFirst
<1>5. at'[t][Root] = "done" /\ \A q \in Places : at'[t][q] \in {"routed", "done", "absent"}
  BY Zenon, <1>2, <1>3, <1>4, PlaceFacts
<1>6. Submitted(t) /\ Submitted(t)'
  BY Zenon, <1>3, <1>5 DEF Submitted
<1>7. phase[t] = "Committed" /\ Result(t) = "none" /\ Result(t)' = "none"
  BY Zenon, <1>2, <1>3 DEF StageOK, VerdictOK, ResultOK, CommittedStages, Result
<1>8. ~ Retained(t) /\ Retained(t)' = Retained(t) /\ faulted'[t] = faulted[t]
  BY Zenon, <1>2, <1>3, <1>4, <1>5 DEF Retained, Recorded
<1>9. IsLive(t)' = IsLive(t)
  <2>1. PICK q \in Routes : at'[t][q] = "routed"
    BY Zenon, <1>2, <1>3, PlaceFacts DEF StageOK, PayloadOK
  <2>2. Live(t) # {} /\ Live(t)' # {}
    BY Zenon, <1>3, <2>1, PlaceFacts DEF Live
  <2>3. IsLive(t)
    BY Zenon, <2>2, LiveShows
  <2>4. (\A u \in Transfers : Live(u) # {} => IsLive(u))'
    BY LiveShows, PTL
  <2>5. IsLive(t)'
    BY Zenon, <2>2, <2>4
  <2> QED
    BY Zenon, <2>3, <2>5 DEF IsLive
<1>10. Outcome!Hold(t)
  BY Zenon, <1>1, <1>3, <1>6, <1>7, <1>8, <1>9, HoldStep
<1> QED
  BY Zenon, <1>10 DEF Refined, Outcome!OutcomeNext

\* Shutdown moves queued containers to their failure path, which the handles do not show.
LEMMA ShutdownRefines ==
  ASSUME PipelinesInv, PipelinesInv', NEW p \in Pipelines, shutdown(p), Recorded
  PROVE  Refined
<1>1. UNCHANGED <<phase, cancel_requested, outstanding_units, status, blocks, claims>>
  BY Zenon DEF shutdown, gateVars, stateVars, payloadVars
<1>2. \A u \in Transfers, q \in Places :
           \/ at'[u][q] = at[u][q]
           \/ at[u][q] \in QueueStages /\ at'[u][q] = "fail"
  BY Zenon, ShutdownEffect
<1>3. \A u \in Transfers, q \in Places : \A s \in {"absent", "fault", "retained"} :
           at'[u][q] = s <=> at[u][q] = s
  BY Zenon, <1>2 DEF QueueStages
<1>4. ASSUME NEW u \in Transfers PROVE SameView(u)
  <2>1. TransferOK(u) /\ faulted[u] \in BOOLEAN
    BY Zenon DEF PipelinesInv, OffloadTypeOK
  <2>2. Submitted(u)' = Submitted(u) /\ Retained(u)' = Retained(u)
    BY Zenon, <1>3, PlaceFacts DEF Submitted, Retained
  <2>3. Holding(u)' = Holding(u) /\ Result(u)' = Result(u) /\ IsLive(u)' = IsLive(u)
    BY Zenon, <1>1 DEF Holding, Held, Guards, Result, IsLive
  <2>4. faulted'[u] = faulted[u]
    BY Zenon, <1>3, <2>1 DEF Recorded, TransferOK, StageOK, ResultOK
  <2> QED
    BY Zenon, <1>1, <2>2, <2>3, <2>4 DEF SameView
<1> QED
  BY Zenon, <1>4, StutterStep DEF Refined

\* A step that changes no transfer changes no handle.
LEMMA QuietRefines ==
  ASSUME PipelinesInv, PipelinesInv', Quiet, Recorded
  PROVE  Refined
BY Zenon, QuietInv, RowView, StutterStep DEF Refined

\* Every step of the engine is a step of the contract, or none.
LEMMA StepRefines ==
  PipelinesInv /\ PipelinesInv' /\ [OffloadNext]_<<offloadVars, faulted>>
      => [Outcome!OutcomeNext]_Outcome!outcomeVars
<1> SUFFICES ASSUME PipelinesInv, PipelinesInv', [OffloadNext]_<<offloadVars, faulted>>
             PROVE  Refined
  BY Zenon DEF Refined
<1>1. CASE UNCHANGED <<offloadVars, faulted>>
  BY Zenon, <1>1, StutterQuiet, QuietRefines
<1>2. CASE OffloadNext
  <2>1. CASE ContainerStep
    BY Zenon, <1>2, <2>1, StepKinds, AdvanceRefines, AnnounceRefines,
       RetireRefines DEF ContainerStep
  <2>2. CASE \E t \in Transfers : enqueue(t) \/ request(t) \/ FanOut(t)
    BY Zenon, <1>2, <2>2, StepKinds, EnqueueRefines, RequestRefines, FanOutRefines
  <2>3. CASE \E p \in Pipelines : shutdown(p)
    BY Zenon, <1>2, <2>3, StepKinds, ShutdownRefines
  <2>4. CASE Quiet
    BY Zenon, <1>2, <2>4, StepKinds, QuietRefines
  <2> QED
    BY Zenon, <1>2, <2>1, <2>2, <2>3, <2>4, StepKinds
<1> QED
  BY Zenon, <1>1, <1>2

\* Before anything is enqueued every handle shows what the contract starts with.
LEMMA InitRefines == OffloadInit => Outcome!OutcomeInit
<1> SUFFICES ASSUME OffloadInit PROVE Outcome!OutcomeInit
  OBVIOUS
<1>1. ASSUME NEW t \in Transfers
      PROVE  /\ \A p \in Places : at[t][p] = "absent" /\ blocks[t][p] = {} /\ claims[t][p] = {}
             /\ status[t] = "Evaluating" /\ outstanding_units[t] = 0
  BY DEF OffloadInit
<1>2. ASSUME NEW t \in Transfers
      PROVE  /\ (at[t][Root] # "absent") = FALSE /\ (Held(t) # {}) = FALSE
             /\ Retained(t) = FALSE /\ (outstanding_units[t] # 0) = FALSE
             /\ (IF status[t] \in Terminal THEN status[t] ELSE "none") = "none"
  <2>1. Held(t) = {}
    BY <1>1 DEF Held, Guards
  <2> QED
    BY Zenon, <1>1, <2>1, PlaceFacts DEF Retained, Terminal
<1>3. /\ phase = [t \in Transfers |-> "Open"] /\ cancel_requested = [t \in Transfers |-> FALSE]
      /\ faulted = [t \in Transfers |-> FALSE]
  BY Zenon DEF OffloadInit
<1> QED
  BY Zenon, <1>2, <1>3 DEF Outcome!OutcomeInit

\* The engine implements the contract of a handle: whatever pipelines, routes and queues a
\* transfer passes through, its handle shows one decision and one result that agrees with it.
THEOREM OffloadImplementsOutcome == OffloadSpec => ImplementsOutcome
<1>1. OffloadInit => Outcome!OutcomeInit
  BY InitRefines
<1>2. PipelinesInv /\ PipelinesInv' /\ [OffloadNext]_<<offloadVars, faulted>>
         => [Outcome!OutcomeNext]_Outcome!outcomeVars
  BY StepRefines
<1> QED
  BY <1>1, <1>2, OffloadInduction, PTL DEF OffloadSpec, ImplementsOutcome, Outcome!OutcomeSpec
(***************************************************************************)
(* What the contract promises holds of the engine                          *)
(***************************************************************************)

\* The contract under the same mapping, with what is proved of it.
Contract == INSTANCE TransferOutcomeProofs WITH
    submitted <- [t \in Transfers |-> at[t][Root] # "absent"],
    decision <- phase,
    requested <- cancel_requested,
    holding <- [t \in Transfers |-> Held(t) # {}],
    fault <- faulted,
    unproven <- [t \in Transfers |-> Retained(t)],
    result <- [t \in Transfers |-> IF status[t] \in Terminal THEN status[t] ELSE "none"],
    live <- [t \in Transfers |-> outstanding_units[t] # 0]

\* The two instances of the contract (TransferHandle) start and step alike.
LEMMA SameContract ==
  /\ Outcome!OutcomeInit => Contract!OutcomeInit
  /\ [Outcome!OutcomeNext]_Outcome!outcomeVars => [Contract!OutcomeNext]_Contract!outcomeVars
<1>1. Outcome!OutcomeInit => Contract!OutcomeInit
  BY Zenon DEF Contract!OutcomeInit, Outcome!OutcomeInit
<1>2. ASSUME NEW t \in Transfers
      PROVE  /\ Outcome!Submit(t) => Contract!Submit(t)
             /\ Outcome!Cancel(t) => Contract!Cancel(t)
             /\ Outcome!Commit(t) => Contract!Commit(t)
             /\ Outcome!Hold(t) => Contract!Hold(t)
  BY Zenon DEF Outcome!Submit, Contract!Submit, Outcome!Cancel, Contract!Cancel,
     Outcome!Commit, Contract!Commit, Outcome!Hold, Contract!Hold
<1>3. ASSUME NEW t \in Transfers
      PROVE  /\ Outcome!Fault(t) => Contract!Fault(t)
             /\ Outcome!Retain(t) => Contract!Retain(t)
             /\ Outcome!Publish(t) => Contract!Publish(t)
             /\ Outcome!Close(t) => Contract!Close(t)
  BY Zenon DEF Outcome!Fault, Contract!Fault, Outcome!Retain, Contract!Retain,
     Outcome!Publish, Contract!Publish, Outcome!Results, Contract!Results,
     Outcome!Close, Contract!Close
<1>4. [Outcome!OutcomeNext]_Outcome!outcomeVars => [Contract!OutcomeNext]_Contract!outcomeVars
  BY Zenon, <1>2, <1>3 DEF Outcome!OutcomeNext, Contract!OutcomeNext, Outcome!outcomeVars,
     Contract!outcomeVars
<1> QED
  BY Zenon, <1>1, <1>4

\* The two instances of the contract (TransferHandle) promise the same.
LEMMA SamePromises == Contract!OutcomeInv => Outcome!OutcomeInv
BY DEF Contract!OutcomeInv, Outcome!OutcomeInv, Contract!OutcomeTypeOK, Outcome!OutcomeTypeOK,
   Contract!ResultIsTrue, Outcome!ResultIsTrue, Contract!Results, Outcome!Results,
   Contract!FaultsAreCommitted, Outcome!FaultsAreCommitted, Contract!ConfirmedIsSettled,
   Outcome!ConfirmedIsSettled, Contract!NothingBeforeSubmit, Outcome!NothingBeforeSubmit

\* Every handle of the engine keeps the promises of the contract: a published result never
\* tells of a guard still held, of a fault as of a success or of a committed transfer as
\* cancelled, and a cancellation is confirmed only behind it (TransferState::finalize,
\* CancelConfirmation).
THEOREM HandlesKeepPromises == OffloadSpec => []Outcome!OutcomeInv
BY OffloadImplementsOutcome, SameContract, SamePromises, Contract!OutcomeSafety, PTL
   DEF ImplementsOutcome, Outcome!OutcomeSpec, Contract!OutcomeSpec
==============================================================================
