---------------------------- MODULE OffloadProofs -----------------------------
(***************************************************************************)
(* The steps of the offload engine on whole transfers and pipelines, and   *)
(* the theorems: every reachable state of the pipelines satisfies          *)
(* PipelinesInv, hence OffloadInv, CancelledNeverCommits and               *)
(* UnprovenStaysOpen, for every set of transfers, hashes and routes and    *)
(* every limit.                                                            *)
(***************************************************************************)
EXTENDS OffloadStageProofs

\* An accepted transfer starts with one container and one unit; a closed queue gives the
\* container back to fail (enqueue).
LEMMA EnqueueInv ==
  ASSUME PipelinesInv, NEW t \in Transfers, enqueue(t), Recorded
  PROVE  PipelinesInv' /\ \A u \in Transfers : u # t => SameRow(u)
<1>1. /\ TransferOK(t) /\ QueueOK
      /\ at \in [Transfers -> [Places -> Stages]] /\ faulted \in [Transfers -> BOOLEAN]
      /\ outstanding_units \in [Transfers -> Nat]
      /\ blocks \in [Transfers -> [Places -> SUBSET Hashes]]
  BY Zenon DEF PipelinesInv, OffloadTypeOK, QueueOK
<1>2. /\ at[t][Root] = "absent" /\ Move(t, Root, at'[t][Root])
      /\ at'[t][Root] \in {"fail", "eval_queue"}
      /\ outstanding_units' = [outstanding_units EXCEPT ![t] = 1]
      /\ blocks' = [blocks EXCEPT ![t][Root] = Input[t]]
      /\ UNCHANGED <<phase, cancel_requested, stateVars, verdict, claims, pending>>
      /\ UNCHANGED <<cancelled, closed>> /\ Accept(t, Root)
  BY Zenon, <1>1, PlaceFacts DEF enqueue, Move, Pushed
<1>3. \A q \in Places : at[t][q] = "absent"
  BY Zenon, <1>1, <1>2 DEF TransferOK, RootFirst
<1>4. at' \in [Transfers -> [Places -> Stages]] /\ Elsewhere(at, at', t, Root)
  <2>1. {"fail", "eval_queue"} \subseteq Stages
    BY Zenon DEF Stages, QueueStages
  <2> QED
    BY Zenon, <1>2, <2>1, MoveEffect, PlaceFacts
<1>5. /\ blocks' \in [Transfers -> [Places -> SUBSET Hashes]] /\ Elsewhere(blocks, blocks', t, Root)
      /\ outstanding_units' \in [Transfers -> Nat] /\ outstanding_units'[t] = 1
      /\ \A u \in Transfers : u # t => outstanding_units'[u] = outstanding_units[u]
  BY Zenon, <1>1, <1>2, OffloadConstants, PlaceFacts DEF Elsewhere
<1>6. \A u \in Transfers : u # t => SameRow(u)
  BY <1>2, <1>4, <1>5 DEF SameRow, Elsewhere, stateVars
<1>7. QueueOK'
  BY Zenon, <1>2, PlaceFacts, AcceptKeepsMarkers
<1>8. \A q \in Places : q # Root => at'[t][q] = "absent" /\ blocks'[t][q] = blocks[t][q]
  BY Zenon, <1>3, <1>4, <1>5 DEF Elsewhere
<1>9. faulted'[t] = faulted[t]
  BY Zenon, <1>1, <1>2, <1>8 DEF Recorded
<1>10. \A q \in Places : StageOK(t, q)'
  <2>1. StageOK(t, Root)'
    BY Zenon, <1>1, <1>2, PlaceFacts DEF TransferOK, Untouched, StageOK, PayloadOK, VerdictOK,
       ResultOK, PayloadGone, Claimed, CommittedStages, SettleStages, Terminal, stateVars
  <2>2. ASSUME NEW q \in Places, q # Root PROVE StageOK(t, q)'
    BY <1>1, <1>2, <1>3, <1>8, <1>9, <2>2 DEF TransferOK, StageOK, PayloadOK, VerdictOK, ResultOK,
       stateVars
  <2> QED
    BY Zenon, <2>1, <2>2
<1>11. RootFirst(t)' /\ Alone(t)' /\ Untouched(t)'
  BY Zenon, <1>2, <1>8 DEF RootFirst, Alone, Untouched
<1>12. Told(t)'
  <2>1. outstanding_units'[t] # 0
    BY <1>5
  <2> QED
    BY Zenon, <1>1, <1>2, <1>9, <2>1 DEF TransferOK, Untouched, Told, stateVars
<1>13. TransferOK(t)' /\ outstanding_units'[t] = Cardinality(Live(t)')
  <2>1. Live(t)' = {Root}
    BY Zenon, <1>2, <1>8, PlaceFacts DEF Live
  <2>2. outstanding_units'[t] = Cardinality(Live(t)')
    BY Zenon, <1>5, <2>1, FS_Singleton
  <2> QED
    BY Zenon, <1>10, <1>11, <1>12, <2>2 DEF TransferOK, StageOK
<1>14. CarryOK'
  <2>1. PendingExact'
    BY Zenon, <1>2 DEF PipelinesInv, PendingExact
  <2> QED
    BY Zenon, <1>2, <1>5, <2>1 DEF PipelinesInv, OffloadTypeOK, CarryOK
<1>15. ControlTypes'
  BY Zenon, <1>2, <1>4, <1>5 DEF PipelinesInv, OffloadTypeOK, ControlTypes, stateVars
<1> QED
  BY Zenon, <1>6, <1>7, <1>13, <1>14, <1>15, OneRow

\* A request cancels an uncommitted transfer and leaves a committed one to settle
\* (CommitmentGate::request).
LEMMA RequestInv ==
  ASSUME PipelinesInv, NEW t \in Transfers, request(t), Recorded
  PROVE  PipelinesInv' /\ \A u \in Transfers : u # t => SameRow(u)
<1>1. /\ TransferOK(t) /\ QueueOK /\ faulted \in [Transfers -> BOOLEAN]
      /\ phase \in [Transfers -> {"Open", "Committed", "Cancelled"}]
      /\ cancel_requested \in [Transfers -> BOOLEAN]
  BY Zenon DEF PipelinesInv, OffloadTypeOK, QueueOK
<1>2. /\ at[t][Root] # "absent" /\ cancel_requested' = [cancel_requested EXCEPT ![t] = TRUE]
      /\ phase' = [phase EXCEPT ![t] = IF @ = "Open" THEN "Cancelled" ELSE @]
      /\ UNCHANGED <<outstanding_units, stateVars, at, verdict, payloadVars, queueVars>>
  BY Zenon DEF request
<1>3. /\ phase' \in [Transfers -> {"Open", "Committed", "Cancelled"}]
      /\ cancel_requested' \in [Transfers -> BOOLEAN]
      /\ \A u \in Transfers : u # t =>
           phase'[u] = phase[u] /\ cancel_requested'[u] = cancel_requested[u]
      /\ phase'[t] = IF phase[t] = "Open" THEN "Cancelled" ELSE phase[t]
  BY Zenon, <1>1, <1>2
<1>4. \A u \in Transfers : u # t => SameRow(u)
  BY Zenon, <1>2, <1>3 DEF SameRow, stateVars, payloadVars
<1>5. faulted'[t] = faulted[t]
  BY Zenon, <1>1, <1>2 DEF Recorded, TransferOK, StageOK, ResultOK
<1>6. \A q \in Places : StageOK(t, q)'
  BY <1>1, <1>2, <1>3, <1>5 DEF TransferOK, StageOK, PayloadOK, VerdictOK, ResultOK, stateVars,
     payloadVars
<1>7. RootFirst(t)' /\ Alone(t)' /\ Untouched(t)'
  BY Zenon, <1>1, <1>2, <1>3 DEF TransferOK, RootFirst, Alone, Untouched
<1>8. Told(t)'
  BY Zenon, <1>1, <1>2, <1>3, <1>5 DEF TransferOK, Told, stateVars
<1>9. outstanding_units'[t] = Cardinality(Live(t)')
  BY Zenon, <1>2 DEF PipelinesInv, UnitsExact, Live
<1>10. QueueOK'
  BY <1>1, <1>2, <1>3 DEF QueueOK, MarkersSound, is_precommit_cancelled, queueVars
<1>11. CarryOK' /\ ControlTypes'
  BY Zenon, <1>2, <1>3, CarryFrame DEF PipelinesInv, OffloadTypeOK, ControlTypes, stateVars
<1> QED
  BY Zenon, <1>4, <1>6, <1>7, <1>8, <1>9, <1>10, <1>11, OneRow DEF TransferOK, StageOK

\* fan_out: the unit of the chain output becomes one unit per route, each with the
\* registered blocks.
LEMMA FanOutInv ==
  ASSUME PipelinesInv, NEW t \in Transfers, FanOut(t), Recorded
  PROVE  PipelinesInv' /\ \A u \in Transfers : u # t => SameRow(u)
<1>1. /\ TransferOK(t) /\ StageOK(t, Root)
      /\ at \in [Transfers -> [Places -> Stages]] /\ faulted \in [Transfers -> BOOLEAN]
      /\ outstanding_units \in [Transfers -> Nat]
      /\ blocks \in [Transfers -> [Places -> SUBSET Hashes]]
  BY Zenon, PlaceFacts DEF PipelinesInv, OffloadTypeOK, TransferOK, StageOK
<1>2. /\ at[t][Root] = "chained"
      /\ UNCHANGED <<phase, cancel_requested, stateVars, verdict, claims, pending, queueVars>>
      /\ outstanding_units' = [outstanding_units EXCEPT ![t] = @ - 1 + Cardinality(Routes)]
  BY Zenon DEF FanOut
<1>3. /\ \A q \in Places : q # Root => at[t][q] = "absent"
      /\ blocks[t][Root] # {} /\ Routes # {} /\ phase[t] = "Committed" /\ status[t] \notin Terminal
  BY Zenon, <1>1, <1>2 DEF TransferOK, RootFirst, StageOK, PayloadOK, VerdictOK, ResultOK,
     CommittedStages
<1>4. /\ at' = [at EXCEPT ![t] = [p \in Places |-> IF p \in Routes THEN "routed"
                                                   ELSE IF p = Root THEN "done" ELSE at[t][p]]]
      /\ blocks' = [blocks EXCEPT ![t] = [p \in Places |->
                      IF p \in Routes THEN blocks[t][Root] ELSE IF p = Root THEN {} ELSE blocks[t][p]]]
  BY Zenon DEF FanOut
<1>5. /\ at' \in [Transfers -> [Places -> Stages]] /\ \A u \in Transfers : u # t => at'[u] = at[u]
      /\ at'[t][Root] = "done"
      /\ \A q \in Places : q # Root => at'[t][q] = IF q \in Routes THEN "routed" ELSE "absent"
  <2>1. "routed" \in Stages /\ "done" \in Stages
    BY Zenon DEF Stages
  <2> QED
    BY Zenon, <1>1, <1>3, <1>4, <2>1, PlaceFacts
<1>6. /\ blocks' \in [Transfers -> [Places -> SUBSET Hashes]]
      /\ \A u \in Transfers : u # t => blocks'[u] = blocks[u]
      /\ blocks'[t][Root] = {}
      /\ \A q \in Places : q # Root => blocks'[t][q] = IF q \in Routes THEN blocks[t][Root] ELSE blocks[t][q]
  BY <1>1, <1>4, PlaceFacts
<1>7. Live(t)' = Routes /\ Live(t) = {Root}
  BY Zenon, <1>2, <1>3, <1>5, PlaceFacts DEF Live
<1>8. /\ outstanding_units[t] = 1 /\ Cardinality(Routes) \in Nat \ {0}
      /\ outstanding_units' \in [Transfers -> Nat] /\ outstanding_units'[t] = Cardinality(Routes)
      /\ \A u \in Transfers : u # t => outstanding_units'[u] = outstanding_units[u]
  <2>1. outstanding_units[t] = 1
    BY Zenon, <1>7, LiveFacts, FS_Singleton
  <2>2. Cardinality(Routes) \in Nat /\ Cardinality(Routes) # 0
    BY Zenon, <1>3, PlacesFinite, FS_CardinalityType, FS_EmptySet
  <2> QED
    BY <1>1, <1>2, <2>1, <2>2
<1>9. \A u \in Transfers : u # t => SameRow(u)
  BY Zenon, <1>2, <1>5, <1>6, <1>8 DEF SameRow, stateVars
<1>10. faulted'[t] = faulted[t]
  BY Zenon, <1>1, <1>5 DEF Recorded
<1>11. \A q \in Places : StageOK(t, q)'
  <2>1. StageOK(t, Root)'
    BY Zenon, <1>1, <1>2, <1>5, <1>6, PlaceFacts DEF StageOK, PayloadOK, VerdictOK, ResultOK,
       PayloadGone, Claimed, CommittedStages, SettleStages, stateVars
  <2>2. ASSUME NEW q \in Routes PROVE StageOK(t, q)'
    <3>1. q \in Places /\ q # Root /\ at'[t][q] = "routed" /\ blocks'[t][q] # {}
      BY Zenon, <1>3, <1>5, <1>6, PlaceFacts
    <3>2. claims'[t][q] = {} /\ phase'[t] = "Committed" /\ status'[t] \notin Terminal
      BY Zenon, <1>1, <1>2, <1>3, <3>1 DEF TransferOK, StageOK, PayloadOK, PayloadGone, stateVars
    <3> QED
      BY Zenon, <3>1, <3>2 DEF StageOK, PayloadOK, VerdictOK, ResultOK, PayloadGone, Claimed,
         RemoteStages, SettleStages
  <2>3. ASSUME NEW q \in Places, q # Root, q \notin Routes PROVE StageOK(t, q)'
    <3>1. at'[t][q] = "absent" /\ at[t][q] = "absent" /\ blocks'[t][q] = blocks[t][q]
      BY Zenon, <1>3, <1>5, <1>6, <2>3
    <3> QED
      BY Zenon, <1>1, <1>2, <1>10, <3>1 DEF TransferOK, StageOK, PayloadOK, VerdictOK, ResultOK,
         stateVars
  <2> QED
    BY Zenon, <2>1, <2>2, <2>3
<1>12. RootFirst(t)' /\ Alone(t)' /\ Untouched(t)'
  BY Zenon, <1>2, <1>3, <1>5 DEF RootFirst, Alone, Untouched
<1>13. Told(t)'
  <2>1. outstanding_units'[t] # 0
    BY Zenon, <1>8
  <2>2. \A q \in Places : at[t][q] # "fault"
    BY Zenon, <1>2, <1>3
  <2> QED
    BY Zenon, <1>1, <1>2, <1>10, <2>1, <2>2 DEF TransferOK, Told, stateVars
<1>14. QueueOK'
  BY Zenon, <1>2, QueueFrame
<1>15. CarryOK'
  <2>1. PendingExact'
    BY Zenon, <1>2 DEF PipelinesInv, PendingExact
  <2> QED
    BY Zenon, <1>2, <1>6, <2>1 DEF PipelinesInv, OffloadTypeOK, CarryOK
<1>16. ControlTypes'
  BY Zenon, <1>2, <1>5, <1>8 DEF PipelinesInv, OffloadTypeOK, ControlTypes, stateVars
<1> QED
  BY Zenon, <1>7, <1>8, <1>9, <1>11, <1>12, <1>13, <1>14, <1>15, <1>16, OneRow DEF TransferOK,
     StageOK

\* PipelineRuntime::drop returns the queued containers of a pipeline to their owners, and
\* moves no other.
LEMMA ShutdownEffect ==
  ASSUME PipelinesInv, NEW p \in Pipelines, shutdown(p)
  PROVE  /\ at' \in [Transfers -> [Places -> Stages]]
         /\ \A u \in Transfers, q \in Places :
              \/ at'[u][q] = at[u][q]
              \/ q = p /\ at[u][q] \in QueueStages /\ at'[u][q] = "fail"
<1>1. at \in [Transfers -> [Places -> Stages]] /\ "fail" \in Stages
  BY Zenon DEF PipelinesInv, OffloadTypeOK, Stages
<1>2. at' = [u \in Transfers |-> [at[u] EXCEPT ![p] = IF @ \in QueueStages THEN "fail" ELSE @]]
  BY Zenon DEF shutdown
<1> QED
  BY <1>1, <1>2, PlaceFacts

\* Shutdown preserves the invariant: a queued container is not committed, and keeps its
\* payload and its unit until it fails.
LEMMA ShutdownInv ==
  ASSUME PipelinesInv, NEW p \in Pipelines, shutdown(p), Recorded
  PROVE  PipelinesInv'
<1>1. /\ at \in [Transfers -> [Places -> Stages]] /\ faulted \in [Transfers -> BOOLEAN] /\ QueueOK
      /\ p \in Places /\ p # Remote
  BY Zenon, PlaceFacts DEF PipelinesInv, OffloadTypeOK, QueueOK
<1>2. /\ closed' = [closed EXCEPT ![p] = TRUE]
      /\ UNCHANGED <<gateVars, stateVars, verdict, payloadVars, cancelled, watcher>>
  BY Zenon DEF shutdown
<1>3. /\ at' \in [Transfers -> [Places -> Stages]]
      /\ \A u \in Transfers, q \in Places :
           \/ at'[u][q] = at[u][q]
           \/ q = p /\ at[u][q] \in QueueStages /\ at'[u][q] = "fail"
  BY Zenon, ShutdownEffect
<1>4. QueueOK'
  BY Zenon, <1>1, <1>2 DEF QueueOK, MarkersSound, is_precommit_cancelled, gateVars
<1>5. CarryOK'
  BY Zenon, <1>2, CarryFrame
<1>6. ControlTypes'
  BY Zenon, <1>2, <1>3 DEF PipelinesInv, OffloadTypeOK, ControlTypes, gateVars, stateVars
<1>7. ASSUME NEW u \in Transfers PROVE TransferOK(u)' /\ Live(u)' = Live(u)
  <2>1. TransferOK(u)
    BY Zenon DEF PipelinesInv
  <2>3. faulted'[u] = faulted[u]
    BY Zenon, <1>1, <1>3, <2>1 DEF Recorded, TransferOK, StageOK, ResultOK
  <2>4. ASSUME NEW q \in Places PROVE StageOK(u, q)'
    <3>1. StageOK(u, q)
      BY Zenon, <2>1 DEF TransferOK, StageOK
    <3>2. CASE at'[u][q] = at[u][q]
      BY <1>2, <2>3, <3>1, <3>2 DEF StageOK, PayloadOK, VerdictOK, ResultOK, gateVars, stateVars,
         payloadVars
    <3>3. CASE q = p /\ at[u][q] \in QueueStages /\ at'[u][q] = "fail"
      BY Zenon, <1>1, <1>2, <3>1, <3>3 DEF StageOK, PayloadOK, VerdictOK, ResultOK, PayloadGone,
         Claimed, CommittedStages, SettleStages, QueueStages, stateVars
    <3> QED
      BY Zenon, <1>3, <3>2, <3>3
  <2>5. \A q \in Places : \A s \in {"absent", "done", "last", "published", "fault"} :
           at'[u][q] = s <=> at[u][q] = s
    BY Zenon, <1>3 DEF QueueStages
  <2>6. RootFirst(u)' /\ Alone(u)' /\ Untouched(u)'
    BY Zenon, <1>2, <2>1, <2>3, <2>5, PlaceFacts DEF TransferOK, RootFirst, Alone, Untouched,
       gateVars, stateVars
  <2>7. Told(u)'
    BY Zenon, <1>2, <2>1, <2>3, <2>5, PlaceFacts DEF TransferOK, Told, gateVars, stateVars
  <2>8. Live(u)' = Live(u)
    BY Zenon, <2>5 DEF Live
  <2> QED
    BY Zenon, <2>4, <2>6, <2>7, <2>8 DEF TransferOK, StageOK
<1>8. UnitsExact'
  BY Zenon, <1>2, <1>7 DEF PipelinesInv, UnitsExact, Live, gateVars
<1>9. OffloadTypeOK'
  <2>1. faulted' \in [Transfers -> BOOLEAN]
    BY Zenon, <1>1 DEF Recorded
  <2> QED
    BY Zenon, <1>4, <1>5, <1>6, <2>1 DEF OffloadTypeOK, QueueOK, CarryOK, ControlTypes
<1> QED
  BY Zenon, <1>4, <1>5, <1>7, <1>8, <1>9 DEF PipelinesInv, QueueOK, CarryOK

\* A step that changes no transfer.
Quiet == UNCHANGED <<gateVars, stateVars, at, verdict, payloadVars>> /\ QueueOK'

\* A step of a watcher, or none, preserves the invariant if the markers stay sound.
LEMMA QuietInv ==
  ASSUME PipelinesInv, Quiet, Recorded
  PROVE  PipelinesInv' /\ \A u \in Transfers : SameRow(u)
<1>1. \A u \in Transfers : SameRow(u)
  BY Zenon DEF Quiet, SameRow, gateVars, stateVars, payloadVars
<1>2. \A u \in Transfers : TransferOK(u)' /\ Live(u)' = Live(u)
  BY Zenon, <1>1, RowFrame
<1>3. UnitsExact'
  <2>1. \A u \in Transfers : outstanding_units'[u] = Cardinality(Live(u)')
    BY Zenon, <1>1, <1>2, UnitsLive DEF SameRow
  <2> QED
    BY Zenon, <2>1 DEF UnitsExact, Live
<1>4. CarryOK' /\ QueueOK'
  BY Zenon, CarryFrame DEF Quiet
<1>5. OffloadTypeOK'
  <2>1. faulted' \in [Transfers -> BOOLEAN]
    BY Zenon DEF Recorded, PipelinesInv, OffloadTypeOK
  <2> QED
    BY Zenon, <1>4, <2>1 DEF Quiet, PipelinesInv, OffloadTypeOK, QueueOK, CarryOK, gateVars,
       stateVars
<1> QED
  BY Zenon, <1>1, <1>2, <1>3, <1>4, <1>5 DEF PipelinesInv, QueueOK, CarryOK

\* A watcher marks the queues only for a cancellation that won, and clears its own marker
\* (the cancellation watcher spawned by enqueue_container).
LEMMA WatcherQuiet ==
  ASSUME PipelinesInv, NEW t \in Transfers, NEW p \in Pipelines,
         WatcherWakes(t, p) \/ WatcherClears(t, p)
  PROVE  Quiet
<1>1. QueueOK /\ phase' = phase
  BY Zenon DEF PipelinesInv, OffloadTypeOK, QueueOK, WatcherWakes, WatcherClears, gateVars
<1>2. CASE WatcherWakes(t, p)
  <2>1. /\ watcher[t][p] = "armed" /\ watcher' = [watcher EXCEPT ![t][p] = "waiting"]
        /\ closed' = closed
        /\ \/ is_precommit_cancelled(t) /\ cancelled' = [cancelled EXCEPT ![p] = @ \cup {t}]
           \/ UNCHANGED cancelled
    BY Zenon, <1>2 DEF WatcherWakes
  <2>2. /\ watcher' \in [Transfers -> [Pipelines -> {"none", "armed", "waiting", "gone"}]]
        /\ watcher'[t][p] = "waiting"
        /\ \A u \in Transfers, q \in Pipelines : u # t \/ q # p => watcher'[u][q] = watcher[u][q]
    BY Zenon, <1>1, <2>1 DEF QueueOK
  <2>3. /\ cancelled' \in [Pipelines -> SUBSET Transfers]
        /\ \A q \in Pipelines : \A u \in cancelled'[q] :
             u \in cancelled[q] \/ (u = t /\ q = p /\ is_precommit_cancelled(t))
    BY <1>1, <2>1 DEF QueueOK
  <2>4. MarkersSound'
    BY <1>1, <2>2, <2>3 DEF QueueOK, MarkersSound, is_precommit_cancelled
  <2> QED
    BY Zenon, <1>1, <1>2, <2>1, <2>2, <2>3, <2>4 DEF Quiet, QueueOK, WatcherWakes
<1>3. CASE WatcherClears(t, p)
  <2>1. /\ watcher' = [watcher EXCEPT ![t][p] = "gone"] /\ closed' = closed
        /\ cancelled' = [cancelled EXCEPT ![p] = @ \ {t}]
    BY Zenon, <1>3 DEF WatcherClears
  <2>2. /\ watcher' \in [Transfers -> [Pipelines -> {"none", "armed", "waiting", "gone"}]]
        /\ \A u \in Transfers, q \in Pipelines : u # t \/ q # p => watcher'[u][q] = watcher[u][q]
    BY Zenon, <1>1, <2>1 DEF QueueOK
  <2>3. /\ cancelled' \in [Pipelines -> SUBSET Transfers]
        /\ \A q \in Pipelines : \A u \in cancelled'[q] : u \in cancelled[q] /\ (u # t \/ q # p)
    BY Zenon, <1>1, <2>1 DEF QueueOK
  <2>4. MarkersSound'
    BY <1>1, <2>2, <2>3 DEF QueueOK, MarkersSound, is_precommit_cancelled
  <2> QED
    BY Zenon, <1>1, <1>3, <2>1, <2>2, <2>3, <2>4 DEF Quiet, QueueOK, WatcherClears
<1> QED
  BY Zenon, <1>2, <1>3

(***************************************************************************)
(* The kinds of steps, and the theorems                                    *)
(***************************************************************************)

\* One container of one transfer takes the step.
ContainerStep ==
    \E t \in Transfers, p \in Places : Advances(t, p) \/ Announces(t, p) \/ Retires(t, p)

\* A step of fail, finish, the drop of a container or the settlement of a unit.
LEMMA SettlementKinds ==
  ASSUME PipelinesInv, NEW t \in Transfers, NEW p \in Places, SettlementStep(t, p), Recorded
  PROVE  Advances(t, p) \/ Announces(t, p) \/ Retires(t, p)
<1>1. CASE ReleasePayload(t, p) \/ DropRelease(t, p)
  BY Zenon, <1>1, DropSteps, DropsAdvances
<1>2. CASE Resolve(t, p) \/ DropContainer(t, p)
  BY Zenon, <1>2, VerdictAdvances
<1>3. CASE Publish(t, p) \/ finish_logical_operation(t, p)
  BY Zenon, <1>3, AnnounceSteps
<1>4. CASE RecordError(t, p)
  BY Zenon, <1>4, ErrorAdvances
<1>5. CASE Settle(t, p)
  BY Zenon, <1>5, SettleSteps
<1>6. CASE release_unit(t, p)
  BY Zenon, <1>6 DEF release_unit, Retires
<1> QED
  BY Zenon, <1>1, <1>2, <1>3, <1>4, <1>5, <1>6 DEF SettlementStep

\* A step of a pipeline: its watchers, queues, evaluator, batcher and executor.
LEMMA PipelineKinds ==
  ASSUME PipelinesInv, NEW t \in Transfers, NEW p \in Pipelines, PipelineStep(t, p), Recorded
  PROVE  Advances(t, p) \/ Quiet
<1>1. p \in Places
  BY Zenon, PlaceFacts
<1>2. CASE WatcherWakes(t, p) \/ WatcherClears(t, p)
  BY Zenon, <1>2, WatcherQuiet
<1>3. CASE \/ sweep(t, p) \/ EvaluatorPops(t, p) \/ PushEvaluated(t, p) \/ AwaiterPops(t, p)
           \/ await_container(t, p) \/ handle_container(t, p) \/ flush(t, p)
           \/ receive_batch(t, p) \/ acquire_committed_permit(t, p)
  BY Zenon, <1>1, <1>3, PlainSteps, PlainAdvances
<1>4. CASE EvaluateBlock(t, p)
  BY Zenon, <1>4, EvaluateBlockAdvances
<1>5. CASE FinishEvaluation(t, p) \/ Dispatch(t, p)
  BY Zenon, <1>5, StatusAdvances
<1>6. CASE upgrade_batch(t, p)
  BY Zenon, <1>6, UpgradeAdvances
<1>7. CASE Drained(t, p)
  BY Zenon, <1>1, <1>7, DrainedAdvances
<1>8. CASE enqueue_chained(t, p)
  BY Zenon, <1>8, EnqueueChainedAdvances
<1> QED
  BY Zenon, <1>2, <1>3, <1>4, <1>5, <1>6, <1>7, <1>8 DEF PipelineStep

\* A step of the chain router after the fan-out, or of the remote task.
LEMMA RouterKinds ==
  ASSUME PipelinesInv, NEW t \in Transfers, RouterStep(t), Recorded
  PROVE  FanOut(t) \/ Advances(t, Remote)
<1>1. CASE RemoteSend(t)
  BY Zenon, <1>1, RemoteSendPlain, PlainAdvances, PlaceFacts
<1>2. CASE RemoteDispatch(t)
  BY Zenon, <1>2, RemoteDispatchStep, PlainAdvances, DropsAdvances, PlaceFacts
<1>3. CASE RemoteDrained(t)
  BY Zenon, <1>3, DropSteps, DropsAdvances, PlaceFacts
<1> QED
  BY Zenon, <1>1, <1>2, <1>3 DEF RouterStep

\* Every step of the engine is one of nine kinds: it lets one container work, publish or
\* give its unit back, it concerns one whole transfer (enqueue, request, fan_out) or one
\* pipeline (shutdown), or it changes no transfer.
LEMMA StepKinds ==
  ASSUME PipelinesInv, OffloadNext
  PROVE  /\ Recorded
         /\ \/ ContainerStep
            \/ \E t \in Transfers : enqueue(t) \/ request(t) \/ FanOut(t)
            \/ \E p \in Pipelines : shutdown(p)
            \/ Quiet
<1>1. Recorded /\ OffloadStep
  BY Zenon DEF OffloadNext, Recorded
<1>2. ASSUME NEW t \in Transfers, NEW p \in Places, TaskStep(t, p)
      PROVE  ContainerStep \/ FanOut(t) \/ Quiet
  <2>1. CASE SettlementStep(t, p)
    BY Zenon, <1>1, <2>1, SettlementKinds DEF ContainerStep
  <2>2. CASE p \in Pipelines /\ PipelineStep(t, p)
    BY Zenon, <1>1, <2>2, PipelineKinds DEF ContainerStep
  <2>3. CASE p = Root /\ RouterStep(t)
    BY Zenon, <1>1, <2>3, RouterKinds, PlaceFacts DEF ContainerStep
  <2>4. CASE DrainFails(t, p) \/ ChannelClosed(t, p)
    BY Zenon, <1>1, <2>4, DropSteps, DropsAdvances DEF ContainerStep
  <2>5. CASE retain_unproven(t, p)
    BY Zenon, <1>1, <2>5, ErrorAdvances DEF ContainerStep
  <2> QED
    BY Zenon, <1>2, <2>1, <2>2, <2>3, <2>4, <2>5 DEF TaskStep
<1> QED
  BY Zenon, <1>1, <1>2 DEF OffloadStep

\* A step that changes nothing is quiet, and the history variable agrees with it.
LEMMA StutterQuiet ==
  ASSUME PipelinesInv, UNCHANGED <<offloadVars, faulted>>
  PROVE  Quiet /\ Recorded
<1>1. Quiet
  BY Zenon, QueueFrame DEF Quiet, offloadVars, gateVars
<1>2. Recorded
  BY DEF Recorded, PipelinesInv, OffloadTypeOK, TransferOK, StageOK, ResultOK, offloadVars
<1> QED
  BY Zenon, <1>1, <1>2

\* The inductive step: no step of the engine breaks the invariant.
LEMMA OffloadStepInv == PipelinesInv /\ [OffloadNext]_<<offloadVars, faulted>> => PipelinesInv'
<1> SUFFICES ASSUME PipelinesInv, [OffloadNext]_<<offloadVars, faulted>> PROVE PipelinesInv'
  OBVIOUS
<1>1. CASE UNCHANGED <<offloadVars, faulted>>
  BY Zenon, <1>1, StutterQuiet, QuietInv
<1>2. CASE OffloadNext
  <2>1. CASE ContainerStep
    BY Zenon, <1>2, <2>1, StepKinds, AdvanceInv, AnnouncesInv, RetiresInv DEF ContainerStep
  <2>2. CASE \E t \in Transfers : enqueue(t) \/ request(t) \/ FanOut(t)
    BY Zenon, <1>2, <2>2, StepKinds, EnqueueInv, RequestInv, FanOutInv
  <2>3. CASE \E p \in Pipelines : shutdown(p)
    BY Zenon, <1>2, <2>3, StepKinds, ShutdownInv
  <2>4. CASE Quiet
    BY Zenon, <1>2, <2>4, StepKinds, QuietInv
  <2> QED
    BY Zenon, <1>2, <2>1, <2>2, <2>3, <2>4, StepKinds
<1> QED
  BY Zenon, <1>1, <1>2

\* The invariant holds before anything is enqueued (OffloadEngineBuilder::build).
LEMMA OffloadInitInv == OffloadInit => PipelinesInv
<1> SUFFICES ASSUME OffloadInit PROVE PipelinesInv
  OBVIOUS
<1>1. OffloadTypeOK
  <2>1. "absent" \in Stages
    BY DEF Stages
  <2> QED
    BY <2>1 DEF OffloadInit, OffloadTypeOK, Terminal
<1>2. UnitsExact
  <2>1. ASSUME NEW t \in Transfers
        PROVE  {p \in Places : at[t][p] \notin {"absent", "done"}} = {} /\ outstanding_units[t] = 0
    BY DEF OffloadInit
  <2> QED
    BY Zenon, <2>1, FS_EmptySet DEF UnitsExact
<1>3. PendingExact
  <2>1. ASSUME NEW p \in Pipelines
        PROVE  /\ pending[p] = UNION {claims[t][p] : t \in Transfers}
               /\ \A t \in Transfers : claims[t][p] = {}
    BY PlaceFacts DEF OffloadInit
  <2> QED
    BY <2>1 DEF PendingExact
<1>4. MarkersSound
  BY DEF OffloadInit, MarkersSound
<1>5. ASSUME NEW t \in Transfers PROVE TransferOK(t)
  <2>1. \A p \in Places : at[t][p] = "absent" /\ blocks[t][p] = {} /\ claims[t][p] = {}
    BY DEF OffloadInit
  <2>2. /\ phase[t] = "Open" /\ cancel_requested[t] = FALSE /\ status[t] = "Evaluating"
        /\ error[t] = FALSE /\ faulted[t] = FALSE
    BY DEF OffloadInit
  <2> QED
    BY Zenon, <2>1, <2>2, PlaceFacts DEF TransferOK, StageOK, PayloadOK, VerdictOK, ResultOK,
       RootFirst, Alone, Untouched, Told,
       Claimed, CommittedStages, SettleStages, RemoteStages, Terminal
<1> QED
  BY Zenon, <1>1, <1>2, <1>3, <1>4, <1>5 DEF PipelinesInv

\* The inductive invariant implies what the runs check of the pipelines.
LEMMA PipelinesImply == PipelinesInv => OffloadInv /\ CancelledNeverCommits /\ UnprovenStaysOpen
<1> SUFFICES ASSUME PipelinesInv PROVE OffloadInv /\ CancelledNeverCommits /\ UnprovenStaysOpen
  OBVIOUS
<1>1. ASSUME NEW t \in Transfers, Confirmed(t) PROVE status[t] \in Terminal /\ Held(t) = {}
  <2>1. TransferOK(t) /\ cancel_requested[t] /\ outstanding_units[t] = 0
    BY Zenon, <1>1 DEF PipelinesInv, Confirmed
  <2>2. status[t] \in Terminal
    BY Zenon, <2>1 DEF TransferOK, Untouched, Told
  <2>3. \A p \in Places : at[t][p] \in {"absent", "done"}
    <3>1. Live(t) = {}
      BY Zenon, <2>1, LiveFacts
    <3> QED
      BY <3>1 DEF Live
  <2>4. \A p \in Places : blocks[t][p] = {} /\ claims[t][p] = {}
    BY <2>1, <2>3 DEF TransferOK, StageOK, PayloadOK, PayloadGone
  <2> QED
    BY <2>2, <2>4 DEF Held, Guards
<1>2. OffloadInv
  BY Zenon, <1>1 DEF PipelinesInv, OffloadInv, ConfirmedIsOver
<1>3. CancelledNeverCommits
  <2> SUFFICES ASSUME NEW t \in Transfers, status[t] = "Cancelled" \/ phase[t] = "Cancelled",
                      NEW p \in Places, at[t][p] \in CommittedStages
               PROVE  FALSE
    BY Zenon DEF CancelledNeverCommits, CommittedStages
  <2>1. TransferOK(t)
    BY Zenon DEF PipelinesInv
  <2> QED
    BY <2>1 DEF TransferOK, StageOK, Told, VerdictOK
<1>4. UnprovenStaysOpen
  <2> SUFFICES ASSUME NEW t \in Transfers, NEW p \in Places, at[t][p] \in {"draining", "retained"}
               PROVE  Guards(t, p) # {} /\ status[t] \notin Terminal /\ ~ Confirmed(t)
    BY Zenon DEF UnprovenStaysOpen
  <2>1. PayloadOK(t, p) /\ ResultOK(t, p)
    BY Zenon DEF PipelinesInv, TransferOK, StageOK
  <2>2. status[t] \notin Terminal
    BY Zenon, <2>1 DEF ResultOK
  <2>3. outstanding_units[t] # 0
    <3>1. Live(t) # {}
      BY Zenon DEF Live
    <3> QED
      BY Zenon, <3>1, LiveFacts
  <2>4. claims[t][p] # {} \/ (p = Remote /\ blocks[t][p] # {})
    BY Zenon, <2>1, PlaceFacts DEF PayloadOK, Claimed
  <2>5. Guards(t, p) # {}
    BY <2>4, PlaceFacts DEF Guards
  <2> QED
    BY Zenon, <2>2, <2>3, <2>5 DEF Confirmed
<1> QED
  BY Zenon, <1>2, <1>3, <1>4

\* In every reachable state of the offload engine, each container carries what its stage
\* says, under the decision and the status that its stage says.
THEOREM OffloadInduction == OffloadSpec => []PipelinesInv
BY OffloadInitInv, OffloadStepInv, PTL DEF OffloadSpec

\* The units of the commitment gate count the live containers, the pending trackers hold
\* exactly the live claims, every marker has its watcher, and wait_confirmed returns only
\* when the status is terminal and no guard is held.
THEOREM OffloadSafety == OffloadSpec => []OffloadInv
BY OffloadInduction, PipelinesImply, PTL

\* A transfer that is reported Cancelled, or whose CommitmentGate cancelled it, has no
\* container in the executor, in the router or on its way to settle.
THEOREM CancellationExcludesCommitment == OffloadSpec => []CancelledNeverCommits
BY OffloadInduction, PipelinesImply, PTL

\* Physical work whose end is not proved keeps its source guards, its unit and its transfer
\* open (LocalPhysicalOwnership).
THEOREM UnprovenKeepsGuards == OffloadSpec => []UnprovenStaysOpen
BY OffloadInduction, PipelinesImply, PTL
==============================================================================
