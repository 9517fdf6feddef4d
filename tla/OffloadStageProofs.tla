----------------------- MODULE OffloadStageProofs -----------------------------
(***************************************************************************)
(* The inductive invariant of module Offload, and its preservation by the  *)
(* steps of one container of one transfer: first what such a step leaves   *)
(* of the others, and the moves between queues; then the steps that decide *)
(* something: what a settling container publishes, the evaluation of a     *)
(* block, the commitment of a batch, the dispatch and the drain of a copy, *)
(* and the hand-over to a local route.                                     *)
(*                                                                         *)
(* What OffloadInv, CancelledNeverCommits and UnprovenStaysOpen say is not *)
(* inductive: it follows from what a container may carry at each stage     *)
(* (PayloadOK), from what the commitment gate and the status must show at  *)
(* that stage (VerdictOK, ResultOK), and from the order in which the       *)
(* containers of a transfer come and go (RootFirst, Alone, Untouched,      *)
(* Told).                                                                  *)
(***************************************************************************)
EXTENDS Offload, FiniteSetTheorems, TLAPS

(***************************************************************************)
(* The inductive invariant                                                 *)
(***************************************************************************)

\* The payload of the container is dropped, or was never there.
PayloadGone ==
    {"absent", "failing", "finishing", "publish", "published", "done"} \cup SettleStages

\* The policies passed some block of the container, and all were evaluated.
Claimed ==
    {"evaluated", "precondition_queue", "awaiting", "batch_queue", "collecting", "channel",
     "received", "committed", "executing", "draining", "retained"}

\* The stages at and after the commitment.
CommittedStages ==
    {"committed", "executing", "draining", "retained", "chained", "routed", "remote_queue"}
        \cup SettleStages

RemoteStages ==
    {"absent", "routed", "remote_queue", "draining", "retained", "published", "done"}
        \cup SettleStages

\* What container (t, p) carries at its stage.
PayloadOK(t, p) ==
    /\ at[t][p] \in PayloadGone => blocks[t][p] = {} /\ claims[t][p] = {}
    /\ at[t][p] \in Claimed /\ p \in Pipelines => blocks[t][p] = {} /\ claims[t][p] # {}
    /\ at[t][p] \in {"chained", "routed", "remote_queue"} => blocks[t][p] # {} /\ claims[t][p] = {}
    /\ at[t][p] = "chained" => p = Root /\ Routes # {}
    /\ p = Remote => at[t][p] \in RemoteStages /\ claims[t][p] = {}
    /\ p = Remote /\ at[t][p] \in {"draining", "retained"} => blocks[t][p] # {}

\* How far the decision of the gate is when container (t, p) is at its stage.
VerdictOK(t, p) ==
    /\ at[t][p] \in CommittedStages => phase[t] = "Committed"
    /\ at[t][p] \in {"publish", "dropping"} /\ verdict[t][p] # "none" => phase[t] # "Committed"
    /\ at[t][p] = "dropping" /\ verdict[t][p] = "none" => phase[t] = "Committed"
    /\ at[t][p] = "publish" => verdict[t][p] # "none"
    /\ at[t][p] \in {"publish", "dropping"} /\ verdict[t][p] = "Cancelled" => phase[t] = "Cancelled"

\* What the handle shows when container (t, p) is at its stage.
ResultOK(t, p) ==
    /\ at[t][p] \in {"fault", "retained"} => faulted[t]
    /\ at[t][p] = "published" => status[t] \in Terminal
    /\ status[t] \in Terminal => at[t][p] \in {"absent", "published", "done"}

StageOK(t, p) == PayloadOK(t, p) /\ VerdictOK(t, p) /\ ResultOK(t, p)

\* The routes of a transfer start when its root container is committed and done.
RootFirst(t) ==
    \A p \in Places \ {Root} : at[t][p] # "absent" =>
        at[t][Root] = "done" /\ p \in Routes /\ phase[t] = "Committed"

\* The container that publishes the result is the last one.
Alone(t) ==
    \A p, q \in Places :
        p # q /\ at[t][p] \in {"last", "published"} => at[t][q] \in {"absent", "done"}

\* Nothing happens to a transfer before it is enqueued.
Untouched(t) ==
    at[t][Root] = "absent" =>
        /\ phase[t] = "Open" /\ ~ cancel_requested[t] /\ status[t] = "Evaluating"
        /\ ~ error[t] /\ ~ faulted[t]

\* The result is out before the last unit goes, and it agrees with the decision; error
\* tells of every fault that was recorded.
Told(t) ==
    /\ at[t][Root] # "absent" /\ outstanding_units[t] = 0 => status[t] \in Terminal
    /\ status[t] = "Cancelled" => phase[t] = "Cancelled"
    /\ faulted[t] => phase[t] = "Committed"
    /\ error[t] /\ status[t] \notin Terminal => faulted[t]
    /\ faulted[t] => error[t] \/ \E p \in Places : at[t][p] = "fault"

TransferOK(t) ==
    /\ \A p \in Places : StageOK(t, p)
    /\ RootFirst(t) /\ Alone(t) /\ Untouched(t) /\ Told(t)

PipelinesInv ==
    /\ OffloadTypeOK /\ UnitsExact /\ PendingExact /\ MarkersSound
    /\ \A t \in Transfers : TransferOK(t)

(***************************************************************************)
(* Its parts, and what a step has to leave alone for them to survive       *)
(***************************************************************************)

\* Where the containers are and what the handles show: types.
ControlTypes ==
    /\ phase \in [Transfers -> {"Open", "Committed", "Cancelled"}]
    /\ cancel_requested \in [Transfers -> BOOLEAN]
    /\ outstanding_units \in [Transfers -> Nat]
    /\ status \in [Transfers -> {"Evaluating", "Queued", "Transferring"} \cup Terminal]
    /\ error \in [Transfers -> BOOLEAN]
    /\ at \in [Transfers -> [Places -> Stages]]

\* The queues of the pipelines: types, and markers of cancelled transfers only.
QueueOK ==
    /\ cancelled \in [Pipelines -> SUBSET Transfers]
    /\ closed \in [Pipelines -> BOOLEAN]
    /\ watcher \in [Transfers -> [Pipelines -> {"none", "armed", "waiting", "gone"}]]
    /\ MarkersSound

\* What the containers carry: types, and claims that the trackers agree with.
CarryOK ==
    /\ verdict \in [Transfers -> [Places -> {"none"} \cup Terminal]]
    /\ blocks \in [Transfers -> [Places -> SUBSET Hashes]]
    /\ claims \in [Transfers -> [Places -> SUBSET Hashes]]
    /\ pending \in [Pipelines -> SUBSET Hashes]
    /\ PendingExact

\* The places of a transfer that own a cancellation unit.
Live(t) == {p \in Places : at[t][p] \notin {"absent", "done"}}

\* g differs from f at most in container (t, p).
Elsewhere(f, g, t, p) == \A u \in Transfers, q \in Places : u # t \/ q # p => g[u][q] = f[u][q]

\* The history variable follows the step.
Recorded == faulted' = [t \in Transfers |->
                faulted[t] \/ \E p \in Places : at'[t][p] \in {"fault", "retained"}]

\* The step changes nothing of transfer u.
SameRow(u) ==
    /\ phase'[u] = phase[u] /\ cancel_requested'[u] = cancel_requested[u]
    /\ outstanding_units'[u] = outstanding_units[u]
    /\ status'[u] = status[u] /\ error'[u] = error[u]
    /\ \A q \in Places : /\ at'[u][q] = at[u][q] /\ verdict'[u][q] = verdict[u][q]
                         /\ blocks'[u][q] = blocks[u][q] /\ claims'[u][q] = claims[u][q]

\* The root pipeline, its local routes and the remote one are different places (the
\* chain router of the engine).
LEMMA PlaceFacts ==
  /\ Root \in Pipelines /\ Root \in Places /\ Remote \in Places /\ Remote \notin Pipelines
  /\ Places = Pipelines \cup {Remote} /\ Root # Remote
  /\ Root \notin Routes /\ Routes \subseteq Places /\ Locals \subseteq Pipelines
BY Zenon, OffloadConstants DEF Places, Pipelines, Routes

\* A router has finitely many routes.
LEMMA PlacesFinite == IsFiniteSet(Places) /\ IsFiniteSet(Routes)
<1>1. IsFiniteSet(Locals \cup {Root})
  BY Zenon, OffloadConstants, FS_AddElement
<1>2. IsFiniteSet(Pipelines \cup {Remote})
  BY Zenon, <1>1, FS_AddElement DEF Pipelines
<1> QED
  BY Zenon, <1>2, FS_Subset, PlaceFacts DEF Places

\* The commitment gate counts the places that own a unit.
LEMMA UnitsLive ==
  ASSUME PipelinesInv
  PROVE  \A t \in Transfers : outstanding_units[t] = Cardinality(Live(t))
BY Zenon DEF PipelinesInv, UnitsExact, Live

\* Moving a container changes the stage of that container alone.
LEMMA MoveEffect ==
  ASSUME PipelinesInv, NEW t \in Transfers, NEW p \in Places, NEW s \in Stages, Move(t, p, s)
  PROVE  at' \in [Transfers -> [Places -> Stages]] /\ at'[t][p] = s /\ Elsewhere(at, at', t, p)
<1>1. at \in [Transfers -> [Places -> Stages]]
  BY Zenon DEF PipelinesInv, OffloadTypeOK
<1> QED
  BY Zenon, <1>1 DEF Move, Elsewhere

\* A transfer that a step leaves alone keeps its part of the invariant.
LEMMA RowFrame ==
  ASSUME PipelinesInv, NEW u \in Transfers, SameRow(u), Recorded
  PROVE  TransferOK(u)' /\ Live(u)' = Live(u) /\ faulted'[u] = faulted[u]
<1>1. TransferOK(u) /\ faulted[u] \in BOOLEAN
  BY Zenon DEF PipelinesInv, OffloadTypeOK
<1>2. faulted'[u] = faulted[u]
  BY Zenon, <1>1 DEF SameRow, Recorded, TransferOK, StageOK, ResultOK
<1>3. \A q \in Places : StageOK(u, q)'
  BY <1>1, <1>2 DEF TransferOK, StageOK, PayloadOK, VerdictOK, ResultOK, SameRow
<1>4. RootFirst(u)' /\ Alone(u)'
  BY <1>1, PlaceFacts DEF TransferOK, RootFirst, Alone, SameRow
<1>5. Untouched(u)' /\ Told(u)'
  BY Zenon, <1>1, <1>2, PlaceFacts DEF TransferOK, Untouched, Told, SameRow
<1>6. Live(u)' = Live(u)
  BY Zenon DEF Live, SameRow
<1> QED
  BY Zenon, <1>2, <1>3, <1>4, <1>5, <1>6 DEF TransferOK

\* A step that changes transfer t alone preserves the invariant if it does so for t.
LEMMA OneRow ==
  ASSUME PipelinesInv, NEW t \in Transfers, \A u \in Transfers : u # t => SameRow(u), Recorded,
         TransferOK(t)', outstanding_units'[t] = Cardinality(Live(t)'),
         QueueOK', CarryOK', ControlTypes'
  PROVE  PipelinesInv'
<1>1. \A u \in Transfers : u # t => TransferOK(u)' /\ Live(u)' = Live(u)
  BY Zenon, RowFrame
<1>2. UnitsExact'
  <2>1. \A u \in Transfers : u # t => outstanding_units'[u] = Cardinality(Live(u)')
    BY Zenon, <1>1, UnitsLive DEF SameRow
  <2>2. \A u \in Transfers : outstanding_units'[u] = Cardinality(Live(u)')
    BY Zenon, <2>1
  <2> QED
    BY Zenon, <2>2 DEF UnitsExact, Live
<1>3. faulted' \in [Transfers -> BOOLEAN]
  BY Zenon DEF Recorded, PipelinesInv, OffloadTypeOK
<1>4. OffloadTypeOK'
  BY Zenon, <1>3 DEF OffloadTypeOK, QueueOK, CarryOK, ControlTypes
<1> QED
  BY Zenon, <1>1, <1>2, <1>4 DEF PipelinesInv, QueueOK, CarryOK

\* A step that leaves the queues and the gate alone keeps the markers sound.
LEMMA QueueFrame ==
  ASSUME PipelinesInv, UNCHANGED <<phase, queueVars>>
  PROVE  QueueOK'
BY Zenon DEF PipelinesInv, OffloadTypeOK, QueueOK, MarkersSound, is_precommit_cancelled, queueVars

\* A step that leaves the payloads alone keeps the pending trackers exact.
LEMMA CarryFrame ==
  ASSUME PipelinesInv, UNCHANGED <<verdict, payloadVars>>
  PROVE  CarryOK'
BY DEF PipelinesInv, OffloadTypeOK, CarryOK, PendingExact, payloadVars

(***************************************************************************)
(* A container at work                                                     *)
(***************************************************************************)

\* Container (t, p) goes to another stage and keeps its unit.
Works(t, p) ==
    /\ at[t][p] \notin {"absent", "done", "retained"}
    /\ at'[t][p] \in Stages \ {"absent", "done", "published"}
    /\ at'[t][p] = "last" => \A q \in Places : q # p => at[t][q] \in {"absent", "done"}
    /\ at'[t][p] = "retained" => at[t][p] = "draining"
    /\ at' \in [Transfers -> [Places -> Stages]] /\ Elsewhere(at, at', t, p)
    /\ Elsewhere(verdict, verdict', t, p)
    /\ Elsewhere(blocks, blocks', t, p) /\ Elsewhere(claims, claims', t, p)
    /\ p = Root => blocks'[t][p] \cup claims'[t][p] \subseteq blocks[t][p] \cup claims[t][p]
    /\ \A u \in Transfers : u # t => status'[u] = status[u] /\ error'[u] = error[u]
    /\ error'[t] => error[t] \/ at'[t][p] = "retained" \/ at[t][p] = "fault"
    /\ error[t] \/ at'[t][p] = "retained" \/ at[t][p] = "fault" => error'[t]
    /\ status'[t] = status[t] \/ status'[t] \in {"Queued", "Transferring"}
    /\ status[t] \notin Terminal
    /\ UNCHANGED <<cancel_requested, outstanding_units>> /\ Recorded
    /\ \/ phase' = phase
       \/ /\ p = Root /\ at[t][p] = "received" /\ at'[t][p] \in {"committed", "settle"}
          /\ phase[t] = "Open" /\ phase' = [phase EXCEPT ![t] = "Committed"]

\* ... and what the invariant says of it, of the queues and of the payloads holds there.
Advances(t, p) ==
    /\ Works(t, p) /\ StageOK(t, p)' /\ QueueOK' /\ CarryOK'
    /\ status' \in [Transfers -> {"Evaluating", "Queued", "Transferring"} \cup Terminal]
    /\ error' \in [Transfers -> BOOLEAN]

\* A container at work leaves the other transfers alone.
LEMMA WorkOthers ==
  ASSUME PipelinesInv, NEW t \in Transfers, NEW p \in Places, Works(t, p),
         NEW u \in Transfers, u # t
  PROVE  SameRow(u)
<1>1. \A q \in Places : /\ at'[u][q] = at[u][q] /\ verdict'[u][q] = verdict[u][q]
                        /\ blocks'[u][q] = blocks[u][q] /\ claims'[u][q] = claims[u][q]
  BY Zenon DEF Works, Elsewhere
<1>2. phase'[u] = phase[u]
  BY Zenon DEF Works, PipelinesInv, OffloadTypeOK
<1> QED
  BY Zenon, <1>1, <1>2 DEF Works, SameRow

\* A container at work keeps what the invariant says of its transfer, if it keeps what it
\* says of its own stage: the decision it may take (upgrade_batch) and the error it may
\* record (record_error) concern the other containers too.
LEMMA WorkRow ==
  ASSUME PipelinesInv, NEW t \in Transfers, NEW p \in Places, Works(t, p), StageOK(t, p)'
  PROVE  TransferOK(t)' /\ Live(t)' = Live(t)
<1> DEFINE a == at[t][p]
           s == at'[t][p]
<1>1. /\ a \notin {"absent", "done"} /\ s \notin {"absent", "done", "published"}
      /\ cancel_requested'[t] = cancel_requested[t]
      /\ outstanding_units'[t] = outstanding_units[t]
      /\ \A q \in Places : q # p => at'[t][q] = at[t][q]
      /\ \A q \in Places : q # p => /\ verdict'[t][q] = verdict[t][q]
                                    /\ blocks'[t][q] = blocks[t][q]
                                    /\ claims'[t][q] = claims[t][q]
  BY DEF Works, Elsewhere
<1>2. TransferOK(t) /\ outstanding_units[t] = Cardinality(Live(t))
  BY Zenon, UnitsLive DEF PipelinesInv
<1>3. faulted[t] => faulted'[t]
  BY Zenon DEF Works, Recorded
<1>4. status[t] \notin Terminal /\ status'[t] \notin Terminal
  BY Zenon DEF Works, Terminal
<1>5. \/ phase'[t] = phase[t]
      \/ p = Root /\ phase'[t] = "Committed" /\ phase[t] = "Open"
  BY Zenon DEF Works, PipelinesInv, OffloadTypeOK
<1>6. ASSUME NEW q \in Places, q # p, at[t][q] # "absent" PROVE phase'[t] = phase[t]
  BY Zenon, <1>1, <1>2, <1>5, <1>6 DEF TransferOK, RootFirst
<1>7. \A q \in Places : StageOK(t, q)'
  <2> SUFFICES ASSUME NEW q \in Places, q # p PROVE StageOK(t, q)'
    OBVIOUS
  <2>1. PayloadOK(t, q) /\ VerdictOK(t, q) /\ ResultOK(t, q)
    BY Zenon, <1>2 DEF TransferOK, StageOK
  <2>2. PayloadOK(t, q)' /\ VerdictOK(t, q)'
    BY Zenon, <1>1, <1>6, <2>1 DEF PayloadOK, VerdictOK, CommittedStages, SettleStages
  <2>3. ResultOK(t, q)'
    BY Zenon, <1>1, <1>3, <1>4, <2>1 DEF ResultOK
  <2> QED
    BY Zenon, <2>2, <2>3 DEF StageOK
<1>8. Alone(t)'
  <2>1. s = "last" => \A q \in Places : q # p => at[t][q] \in {"absent", "done"}
    BY Zenon DEF Works
  <2> QED
    BY Zenon, <1>1, <1>2, <2>1 DEF TransferOK, Alone
<1>9. RootFirst(t)' /\ Untouched(t)'
  BY Zenon, <1>1, <1>2, <1>5, PlaceFacts DEF TransferOK, RootFirst, Untouched
<1>10. Live(t)' = Live(t)
  BY Zenon, <1>1 DEF Live
<1>11. outstanding_units[t] # 0
  BY Zenon, <1>1, <1>2, PlacesFinite, FS_Subset, FS_EmptySet DEF Live
<1>12. faulted'[t] => faulted[t] \/ s \in {"fault", "retained"}
  BY Zenon, <1>1, <1>2 DEF Works, Recorded, TransferOK, StageOK, ResultOK
<1>13. /\ error'[t] => error[t] \/ s = "retained" \/ a = "fault"
       /\ error[t] \/ s = "retained" \/ a = "fault" => error'[t]
  BY Zenon DEF Works
<1>14. /\ faulted'[t] => phase'[t] = "Committed"
       /\ error'[t] => faulted'[t]
  <2>1. s \in {"fault", "retained"} => faulted'[t] /\ phase'[t] = "Committed"
    BY Zenon DEF StageOK, VerdictOK, ResultOK, CommittedStages, SettleStages
  <2>2. a = "fault" => faulted[t]
    BY Zenon, <1>2 DEF TransferOK, StageOK, ResultOK
  <2> QED
    BY Zenon, <1>2, <1>3, <1>4, <1>5, <1>12, <1>13, <2>1, <2>2 DEF TransferOK, Told
<1>15. faulted'[t] => error'[t] \/ \E q \in Places : at'[t][q] = "fault"
  BY Zenon, <1>1, <1>2, <1>12, <1>13 DEF TransferOK, Told
<1>16. Told(t)'
  BY Zenon, <1>1, <1>4, <1>11, <1>14, <1>15 DEF Told, Terminal
<1> QED
  BY Zenon, <1>7, <1>8, <1>9, <1>10, <1>16 DEF TransferOK

\* A container at work preserves the invariant.
LEMMA AdvanceInv ==
  ASSUME PipelinesInv, NEW t \in Transfers, NEW p \in Places, Advances(t, p)
  PROVE  PipelinesInv'
<1>1. TransferOK(t)' /\ Live(t)' = Live(t)
  BY Zenon, WorkRow DEF Advances
<1>2. \A u \in Transfers : u # t => SameRow(u)
  BY Zenon, WorkOthers DEF Advances
<1>3. phase' \in [Transfers -> {"Open", "Committed", "Cancelled"}]
  BY Zenon DEF Advances, Works, PipelinesInv, OffloadTypeOK
<1>4. ControlTypes' /\ Recorded
  BY Zenon, <1>3 DEF PipelinesInv, OffloadTypeOK, ControlTypes, Works, Advances
<1>5. outstanding_units'[t] = Cardinality(Live(t)')
  BY Zenon, <1>1, UnitsLive DEF Advances, Works
<1> QED
  BY Zenon, <1>1, <1>2, <1>4, <1>5, OneRow DEF Advances

(***************************************************************************)
(* The moves between queues and tasks                                      *)
(***************************************************************************)

Free == {"eval_queue", "evaluating", "fail", "drop", "finish"}

\* A container may go from stage a to stage s with its payload as it is.
Follows(a, s, p) ==
    \/ p # Remote /\ a \in Free \cup (Claimed \ {"retained"}) \cup {"routed"} /\ s \in Free
    \/ /\ p # Remote /\ a \in Claimed \ {"retained"} /\ s \in Claimed \ {"retained"}
       /\ s \in CommittedStages => a \in CommittedStages
    \/ p = Remote /\ a = "routed" /\ s = "remote_queue"
    \/ p = Remote /\ a = "remote_queue" /\ s = "draining"

\* Container (t, p) moves on and nothing else changes.
Plain(t, p) ==
    /\ Follows(at[t][p], at'[t][p], p) /\ Move(t, p, at'[t][p])
    /\ UNCHANGED <<gateVars, stateVars, verdict, payloadVars, queueVars>>

\* A container that moves on with its payload is a container at work.
LEMMA PlainMove ==
  ASSUME PipelinesInv, NEW t \in Transfers, NEW p \in Places, NEW s, Move(t, p, s),
         Follows(at[t][p], s, p), QueueOK', Recorded,
         UNCHANGED <<gateVars, stateVars, verdict, payloadVars>>
  PROVE  Advances(t, p)
<1>1. StageOK(t, p) /\ (p # Remote => p \in Pipelines)
  BY Zenon, PlaceFacts DEF PipelinesInv, TransferOK
<1>2. /\ s \in Stages /\ s \notin {"absent", "done", "last", "published", "retained"}
      /\ at[t][p] \notin {"absent", "published", "done", "fault", "retained"}
  BY Zenon DEF Follows, Free, Claimed, CommittedStages, SettleStages, Stages, QueueStages
<1>3. at' \in [Transfers -> [Places -> Stages]] /\ at'[t][p] = s /\ Elsewhere(at, at', t, p)
  BY Zenon, <1>2, MoveEffect
<1>4. status[t] \notin Terminal
  BY Zenon, <1>1, <1>2 DEF StageOK, ResultOK
<1>5. Works(t, p)
  BY Zenon, <1>2, <1>3, <1>4 DEF Works, Elsewhere, gateVars, payloadVars, stateVars
<1>6. PayloadOK(t, p)'
  BY Zenon, <1>1, <1>3, PlaceFacts DEF StageOK, PayloadOK, Follows, Free, Claimed, PayloadGone,
     RemoteStages, CommittedStages, SettleStages, payloadVars
<1>7. VerdictOK(t, p)' /\ ResultOK(t, p)'
  BY Zenon, <1>1, <1>3, <1>4 DEF StageOK, VerdictOK, ResultOK, Follows, Free, Claimed,
     CommittedStages, SettleStages, gateVars, stateVars
<1>8. /\ status' \in [Transfers -> {"Evaluating", "Queued", "Transferring"} \cup Terminal]
      /\ error' \in [Transfers -> BOOLEAN] /\ CarryOK'
  BY Zenon, CarryFrame DEF PipelinesInv, OffloadTypeOK, stateVars
<1> QED
  BY Zenon, <1>5, <1>6, <1>7, <1>8 DEF Advances, StageOK

\* ... also when nothing else changes.
LEMMA PlainAdvances ==
  ASSUME PipelinesInv, NEW t \in Transfers, NEW p \in Places, Plain(t, p), Recorded
  PROVE  Advances(t, p)
BY Zenon, PlainMove, QueueFrame DEF Plain, gateVars

\* The queues, the precondition awaiter, the batcher and the permit of the executor move a
\* container on and change nothing else.
LEMMA PlainSteps ==
  ASSUME PipelinesInv, NEW t \in Transfers, NEW p \in Pipelines,
         \/ sweep(t, p) \/ EvaluatorPops(t, p) \/ PushEvaluated(t, p) \/ AwaiterPops(t, p)
         \/ await_container(t, p) \/ handle_container(t, p) \/ flush(t, p)
         \/ receive_batch(t, p) \/ acquire_committed_permit(t, p)
  PROVE  Plain(t, p)
<1>1. p # Remote /\ p \in Places /\ at \in [Transfers -> [Places -> Stages]]
  BY Zenon, PlaceFacts DEF PipelinesInv, OffloadTypeOK
<1> USE <1>1 DEF Plain, Move, Follows, Free, Claimed, CommittedStages, SettleStages
<1>2. CASE sweep(t, p)
  BY Zenon, <1>2 DEF sweep, QueueStages
<1>3. CASE EvaluatorPops(t, p)
  BY Zenon, <1>3 DEF EvaluatorPops, Pops
<1>4. CASE PushEvaluated(t, p)
  BY Zenon, <1>4 DEF PushEvaluated, Pushed
<1>5. CASE AwaiterPops(t, p)
  BY Zenon, <1>5 DEF AwaiterPops, Pops
<1>6. CASE await_container(t, p)
  BY <1>6 DEF await_container, Pushed
<1>7. CASE handle_container(t, p)
  BY Zenon, <1>7 DEF handle_container, Pops
<1>8. CASE flush(t, p)
  BY <1>8 DEF flush
<1>9. CASE receive_batch(t, p)
  BY <1>9 DEF receive_batch
<1>10. CASE acquire_committed_permit(t, p)
  BY Zenon, <1>10 DEF acquire_committed_permit
<1> QED
  BY Zenon, <1>2, <1>3, <1>4, <1>5, <1>6, <1>7, <1>8, <1>9, <1>10

\* The send to the remote task (RemoteSend) only moves the container on.
LEMMA RemoteSendPlain ==
  ASSUME PipelinesInv, NEW t \in Transfers, RemoteSend(t)
  PROVE  Plain(t, Remote)
<1>1. Remote \in Places /\ at \in [Transfers -> [Places -> Stages]]
  BY Zenon, PlaceFacts DEF PipelinesInv, OffloadTypeOK
<1> QED
  BY Zenon, <1>1 DEF Plain, Move, Follows, RemoteSend

(***************************************************************************)
(* The release of a payload                                                *)
(***************************************************************************)

\* The hashes that a container claims are pending in its pipeline (PendingGuard).
LEMMA ClaimsPending ==
  ASSUME PipelinesInv, NEW t \in Transfers, NEW p \in Pipelines
  PROVE  claims[t][p] \subseteq pending[p]
BY DEF PipelinesInv, PendingExact

\* When container (t, p) alone changes its claims, and the PendingTracker of its pipeline
\* with them, the trackers stay exact.
LEMMA PendingUpdate ==
  ASSUME PipelinesInv, NEW t \in Transfers, NEW p \in Places, Elsewhere(claims, claims', t, p),
         \A q \in Pipelines : q # p => pending'[q] = pending[q],
         p \in Pipelines => /\ pending'[p] = (pending[p] \ claims[t][p]) \cup claims'[t][p]
                            /\ claims'[t][p] \cap (pending[p] \ claims[t][p]) = {}
  PROVE  PendingExact'
<1> SUFFICES ASSUME NEW q \in Pipelines
             PROVE  /\ pending'[q] = UNION {claims'[u][q] : u \in Transfers}
                    /\ \A u, w \in Transfers : u # w => claims'[u][q] \cap claims'[w][q] = {}
  BY Zenon DEF PendingExact
<1>1. /\ pending[q] = UNION {claims[u][q] : u \in Transfers} /\ q \in Places
      /\ \A u, w \in Transfers : u # w => claims[u][q] \cap claims[w][q] = {}
  BY Zenon, PlaceFacts DEF PipelinesInv, PendingExact
<1>2. CASE q # p
  BY <1>1, <1>2 DEF Elsewhere
<1>3. CASE q = p
  <2>1. pending'[q] = UNION {claims'[u][q] : u \in Transfers}
    BY <1>1, <1>3 DEF Elsewhere
  <2>2. \A u, w \in Transfers : u # w => claims'[u][q] \cap claims'[w][q] = {}
    BY <1>1, <1>3 DEF Elsewhere
  <2> QED
    BY Zenon, <2>1, <2>2
<1> QED
  BY Zenon, <1>2, <1>3

\* Dropping a payload takes the claims of that container, and no others, out of the
\* PendingTracker.
LEMMA DropPayloadEffect ==
  ASSUME PipelinesInv, NEW t \in Transfers, NEW p \in Places, DropPayload(t, p)
  PROVE  /\ blocks' \in [Transfers -> [Places -> SUBSET Hashes]] /\ blocks'[t][p] = {}
         /\ claims' \in [Transfers -> [Places -> SUBSET Hashes]] /\ claims'[t][p] = {}
         /\ Elsewhere(blocks, blocks', t, p) /\ Elsewhere(claims, claims', t, p)
         /\ pending' \in [Pipelines -> SUBSET Hashes] /\ PendingExact'
<1>1. /\ blocks \in [Transfers -> [Places -> SUBSET Hashes]]
      /\ claims \in [Transfers -> [Places -> SUBSET Hashes]]
      /\ pending \in [Pipelines -> SUBSET Hashes] /\ PendingExact
  BY Zenon DEF PipelinesInv, OffloadTypeOK
<1>2. /\ blocks' \in [Transfers -> [Places -> SUBSET Hashes]] /\ blocks'[t][p] = {}
      /\ Elsewhere(blocks, blocks', t, p)
  BY Zenon, <1>1 DEF DropPayload, Elsewhere
<1>3. /\ claims' \in [Transfers -> [Places -> SUBSET Hashes]] /\ claims'[t][p] = {}
      /\ Elsewhere(claims, claims', t, p)
  BY Zenon, <1>1 DEF DropPayload, Elsewhere
<1>4. /\ pending' \in [Pipelines -> SUBSET Hashes]
      /\ \A q \in Pipelines : pending'[q] = IF q = p THEN pending[q] \ claims[t][p] ELSE pending[q]
  BY Zenon, <1>1 DEF DropPayload
<1>5. PendingExact'
  BY Zenon, <1>1, <1>3, <1>4, PendingUpdate
<1> QED
  BY Zenon, <1>2, <1>3, <1>4, <1>5

\* Container (t, p) drops its payload and moves on.
Drops(t, p) ==
    /\ at[t][p] \notin {"absent", "published", "done", "fault", "retained"}
    /\ at'[t][p] \in {"failing", "finishing", "publish", "fault", "settle"}
    /\ p = Remote => at'[t][p] \in {"fault", "settle"}
    /\ at'[t][p] \in {"fault", "settle"} => phase[t] = "Committed"
    /\ at'[t][p] = "publish" => at[t][p] = "dropping" /\ verdict[t][p] # "none"
    /\ Move(t, p, at'[t][p]) /\ DropPayload(t, p)
    /\ UNCHANGED <<gateVars, stateVars, verdict, queueVars>>

\* A container that drops its payload is a container at work.
LEMMA DropsAdvances ==
  ASSUME PipelinesInv, NEW t \in Transfers, NEW p \in Places, Drops(t, p), Recorded
  PROVE  Advances(t, p)
<1> DEFINE s == at'[t][p]
<1>1. StageOK(t, p) /\ faulted[t] \in BOOLEAN
  BY Zenon DEF PipelinesInv, TransferOK, OffloadTypeOK
<1>2. s \in Stages /\ s \notin {"absent", "done", "last", "published", "retained"}
  BY Zenon DEF Drops, Stages, SettleStages
<1>3. at' \in [Transfers -> [Places -> Stages]] /\ Elsewhere(at, at', t, p)
  BY Zenon, <1>2, MoveEffect DEF Drops
<1>4. status[t] \notin Terminal
  BY Zenon, <1>1 DEF StageOK, ResultOK, Drops
<1>5. /\ CarryOK' /\ blocks'[t][p] = {} /\ claims'[t][p] = {}
      /\ Elsewhere(blocks, blocks', t, p) /\ Elsewhere(claims, claims', t, p)
  BY Zenon, DropPayloadEffect DEF Drops, PipelinesInv, OffloadTypeOK, CarryOK
<1>6. Works(t, p)
  <2>1. blocks'[t][p] \cup claims'[t][p] \subseteq blocks[t][p] \cup claims[t][p]
    BY Zenon, <1>5
  <2> QED
    BY Zenon, <1>2, <1>3, <1>4, <1>5, <2>1 DEF Works, Drops, Elsewhere, gateVars, stateVars
<1>7. StageOK(t, p)'
  <2>1. PayloadOK(t, p)'
    BY Zenon, <1>1, <1>5, PlaceFacts DEF StageOK, PayloadOK, Drops, Claimed, RemoteStages,
       SettleStages
  <2>2. VerdictOK(t, p)'
    BY Zenon, <1>1 DEF StageOK, VerdictOK, Drops, CommittedStages, SettleStages, gateVars
  <2>3. ResultOK(t, p)'
    BY Zenon, <1>2, <1>4 DEF ResultOK, Drops, stateVars, Recorded
  <2> QED
    BY Zenon, <2>1, <2>2, <2>3 DEF StageOK
<1>8. /\ status' \in [Transfers -> {"Evaluating", "Queued", "Transferring"} \cup Terminal]
      /\ error' \in [Transfers -> BOOLEAN] /\ QueueOK'
  BY Zenon, QueueFrame DEF PipelinesInv, OffloadTypeOK, stateVars, Drops, gateVars
<1> QED
  BY Zenon, <1>5, <1>6, <1>7, <1>8 DEF Advances

\* fail, finish, the drop of a container, a failed drain and a closed channel release the
\* payload; what was committed faults or settles.
LEMMA DropSteps ==
  ASSUME PipelinesInv, NEW t \in Transfers, NEW p \in Places,
         \/ ReleasePayload(t, p) \/ DropRelease(t, p) \/ DrainFails(t, p) \/ ChannelClosed(t, p)
         \/ p = Remote /\ RemoteDrained(t)
  PROVE  Drops(t, p)
<1>1. at \in [Transfers -> [Places -> Stages]] /\ StageOK(t, p)
  BY Zenon DEF PipelinesInv, OffloadTypeOK, TransferOK
<1> USE <1>1 DEF Drops, Move, StageOK, PayloadOK, VerdictOK, RemoteStages, CommittedStages,
                 SettleStages
<1>2. CASE ReleasePayload(t, p)
  BY Zenon, <1>2 DEF ReleasePayload
<1>3. CASE DropRelease(t, p)
  BY Zenon, <1>3 DEF DropRelease
<1>4. CASE DrainFails(t, p)
  BY Zenon, <1>4 DEF DrainFails
<1>5. CASE ChannelClosed(t, p)
  BY Zenon, <1>5 DEF ChannelClosed
<1>6. CASE p = Remote /\ RemoteDrained(t)
  BY Zenon, <1>6 DEF RemoteDrained
<1> QED
  BY Zenon, <1>2, <1>3, <1>4, <1>5, <1>6

\* The remote task dispatches the upload, or fails and releases the payload.
LEMMA RemoteDispatchStep ==
  ASSUME PipelinesInv, NEW t \in Transfers, RemoteDispatch(t)
  PROVE  Drops(t, Remote) \/ Plain(t, Remote)
<1>1. at \in [Transfers -> [Places -> Stages]] /\ StageOK(t, Remote) /\ Remote \in Places
  BY Zenon, PlaceFacts DEF PipelinesInv, OffloadTypeOK, TransferOK
<1> USE <1>1 DEF Move, StageOK, PayloadOK, VerdictOK, RemoteStages, CommittedStages, SettleStages
<1>2. CASE Move(t, Remote, "draining") /\ UNCHANGED payloadVars
  BY Zenon, <1>2 DEF RemoteDispatch, Plain, Follows
<1>3. CASE Move(t, Remote, "fault") /\ DropPayload(t, Remote)
  BY Zenon, <1>3 DEF RemoteDispatch, Drops
<1> QED
  BY Zenon, <1>2, <1>3 DEF RemoteDispatch

(***************************************************************************)
(* The settlement of a cancellation unit                                   *)
(***************************************************************************)

\* While a container owns a unit the count is not zero, and a count of one means that it is
\* the only one (release_nonfinal_unit).
LEMMA LiveFacts ==
  ASSUME PipelinesInv, NEW t \in Transfers
  PROVE  /\ IsFiniteSet(Live(t)) /\ outstanding_units[t] = Cardinality(Live(t))
         /\ Cardinality(Live(t)) \in Nat
         /\ Live(t) # {} => outstanding_units[t] > 0 /\ outstanding_units[t] # 0
         /\ \A p \in Live(t) : outstanding_units[t] = 1 => Live(t) = {p}
<1>1. IsFiniteSet(Live(t)) /\ outstanding_units[t] = Cardinality(Live(t))
  BY Zenon, PlacesFinite, UnitsLive, FS_Subset DEF Live
<1> QED
  BY <1>1, FS_CardinalityType, FS_EmptySet, FS_Singleton

\* The last container publishes the result that agrees with the decision and the faults.
Announces(t, p) ==
    /\ at[t][p] \in {"publish", "last"}
    /\ \A q \in Places : q # p => at[t][q] \in {"absent", "done"}
    /\ Move(t, p, "published") /\ status[t] \notin Terminal /\ status'[t] \in Terminal
    /\ \A u \in Transfers : u # t => status'[u] = status[u] /\ error'[u] = error[u]
    /\ status'[t] = "Cancelled" => phase[t] = "Cancelled"
    /\ phase[t] = "Committed" => status'[t] = IF faulted[t] THEN "Failed" ELSE "Complete"
    /\ error[t] => error'[t]
    /\ status' \in [Transfers -> {"Evaluating", "Queued", "Transferring"} \cup Terminal]
    /\ error' \in [Transfers -> BOOLEAN]
    /\ UNCHANGED <<gateVars, verdict, payloadVars, queueVars>>

\* Publishing the result preserves the invariant: nothing else of the transfer is left.
LEMMA AnnouncesInv ==
  ASSUME PipelinesInv, NEW t \in Transfers, NEW p \in Places, Announces(t, p), Recorded
  PROVE  PipelinesInv' /\ \A u \in Transfers : u # t => SameRow(u)
<1>1. TransferOK(t) /\ StageOK(t, p) /\ faulted \in [Transfers -> BOOLEAN]
  BY Zenon DEF PipelinesInv, TransferOK, OffloadTypeOK
<1>2. /\ at' \in [Transfers -> [Places -> Stages]] /\ at'[t][p] = "published"
      /\ Elsewhere(at, at', t, p)
  <2>1. "published" \in Stages
    BY Zenon DEF Stages
  <2> QED
    BY Zenon, <2>1, MoveEffect DEF Announces
<1>3. \A u \in Transfers : u # t => SameRow(u)
  BY Zenon, <1>2 DEF Announces, SameRow, Elsewhere, gateVars, payloadVars
<1>4. /\ \A q \in Places : q # p => at'[t][q] = at[t][q] /\ at[t][q] \in {"absent", "done"}
      /\ Live(t)' = Live(t)
  BY Zenon, <1>2 DEF Announces, Elsewhere, Live
<1>5. faulted'[t] = faulted[t]
  BY Zenon, <1>1, <1>2, <1>4 DEF Recorded
<1>6. \A q \in Places : StageOK(t, q)'
  <2>1. ASSUME NEW q \in Places, q # p PROVE StageOK(t, q)'
    BY Zenon, <1>1, <1>4, <2>1 DEF TransferOK, StageOK, PayloadOK, VerdictOK, ResultOK, Announces,
       CommittedStages, SettleStages, gateVars, payloadVars
  <2>2. StageOK(t, p)'
    BY Zenon, <1>1, <1>2 DEF StageOK, PayloadOK, VerdictOK, ResultOK, Announces, PayloadGone,
       Claimed, RemoteStages, CommittedStages, SettleStages, payloadVars
  <2> QED
    BY Zenon, <2>1, <2>2
<1>7. Alone(t)'
  BY Zenon, <1>2, <1>4 DEF Alone
<1>8. RootFirst(t)' /\ Untouched(t)'
  <2>1. at[t][p] \notin {"absent", "done"} /\ phase' = phase
    BY Zenon DEF Announces, gateVars
  <2> QED
    BY Zenon, <1>1, <1>2, <1>4, <2>1, PlaceFacts DEF TransferOK, RootFirst, Untouched
<1>9. Told(t)'
  BY Zenon, <1>1, <1>2, <1>4, <1>5 DEF TransferOK, Told, Announces, gateVars
<1>10. TransferOK(t)'
  BY Zenon, <1>6, <1>7, <1>8, <1>9 DEF TransferOK
<1>11. outstanding_units'[t] = Cardinality(Live(t)')
  BY Zenon, <1>4, UnitsLive DEF Announces, gateVars
<1>12. QueueOK' /\ CarryOK'
  BY Zenon, QueueFrame, CarryFrame DEF Announces, gateVars
<1>13. ControlTypes'
  BY Zenon, <1>2 DEF PipelinesInv, OffloadTypeOK, ControlTypes, Announces, gateVars
<1> QED
  BY Zenon, <1>3, <1>10, <1>11, <1>12, <1>13, OneRow

\* set_cancelled, set_error and set_complete of an uncommitted transfer, and
\* finish_logical_operation of a committed one: both publish the first terminal status, and
\* error tells of exactly the faults.
LEMMA AnnounceSteps ==
  ASSUME PipelinesInv, NEW t \in Transfers, NEW p \in Places,
         Publish(t, p) \/ finish_logical_operation(t, p)
  PROVE  Announces(t, p)
<1>1. /\ TransferOK(t) /\ StageOK(t, p) /\ error \in [Transfers -> BOOLEAN]
      /\ status \in [Transfers -> {"Evaluating", "Queued", "Transferring"} \cup Terminal]
      /\ verdict[t][p] \in {"none"} \cup Terminal
  BY Zenon DEF PipelinesInv, TransferOK, OffloadTypeOK
<1>2. CASE Publish(t, p)
  <2>1. /\ at[t][p] = "publish" /\ Move(t, p, "published")
        /\ status' = [status EXCEPT ![t] = IF @ \in Terminal THEN @ ELSE verdict[t][p]]
        /\ error' = [error EXCEPT ![t] =
               @ \/ (status[t] \notin Terminal /\ verdict[t][p] = "Failed")]
        /\ UNCHANGED <<gateVars, verdict, payloadVars, queueVars>>
    BY Zenon, <1>2 DEF Publish
  <2>2. /\ status[t] \notin Terminal /\ verdict[t][p] \in Terminal /\ phase[t] # "Committed"
        /\ verdict[t][p] = "Cancelled" => phase[t] = "Cancelled"
    BY Zenon, <1>1, <2>1 DEF StageOK, ResultOK, VerdictOK
  <2>3. \A q \in Places : q # p => at[t][q] \in {"absent", "done"}
    BY Zenon, <1>1, <2>1, <2>2, PlaceFacts DEF TransferOK, RootFirst
  <2>4. /\ status' \in [Transfers -> {"Evaluating", "Queued", "Transferring"} \cup Terminal]
        /\ status'[t] = verdict[t][p] /\ \A u \in Transfers : u # t => status'[u] = status[u]
    BY Zenon, <1>1, <2>1, <2>2
  <2>5. /\ error' \in [Transfers -> BOOLEAN]
        /\ error[t] => error'[t]
        /\ \A u \in Transfers : u # t => error'[u] = error[u]
    BY Zenon, <1>1, <2>1
  <2> QED
    BY Zenon, <2>1, <2>2, <2>3, <2>4, <2>5 DEF Announces
<1>3. CASE finish_logical_operation(t, p)
  <2>1. /\ at[t][p] = "last" /\ Move(t, p, "published")
        /\ status' = [status EXCEPT ![t] = IF @ \in Terminal THEN @
                                           ELSE IF error[t] THEN "Failed" ELSE "Complete"]
        /\ UNCHANGED <<gateVars, error, verdict, payloadVars, queueVars>>
    BY Zenon, <1>3 DEF finish_logical_operation
  <2>2. status[t] \notin Terminal
    BY Zenon, <1>1, <2>1 DEF StageOK, ResultOK
  <2>3. \A q \in Places : q # p => at[t][q] \in {"absent", "done"}
    BY Zenon, <1>1, <2>1 DEF TransferOK, Alone
  <2>4. error[t] <=> faulted[t]
    BY Zenon, <1>1, <2>1, <2>2, <2>3 DEF TransferOK, Told
  <2>5. /\ status' \in [Transfers -> {"Evaluating", "Queued", "Transferring"} \cup Terminal]
        /\ status'[t] = IF error[t] THEN "Failed" ELSE "Complete"
        /\ \A u \in Transfers : u # t => status'[u] = status[u]
    BY Zenon, <1>1, <2>1, <2>2 DEF Terminal
  <2>6. status'[t] \in Terminal /\ status'[t] = IF faulted[t] THEN "Failed" ELSE "Complete"
    BY Zenon, <2>4, <2>5 DEF Terminal
  <2> QED
    BY Zenon, <1>1, <2>1, <2>2, <2>3, <2>5, <2>6 DEF Announces
<1> QED
  BY Zenon, <1>2, <1>3

\* A container gives its unit back: not the last one, or after the result is out.
Retires(t, p) ==
    /\ at[t][p] \in {"settle", "published"}
    /\ at[t][p] = "settle" => outstanding_units[t] # 1
    /\ Move(t, p, "done") /\ outstanding_units' = [outstanding_units EXCEPT ![t] = @ - 1]
    /\ UNCHANGED <<phase, cancel_requested, stateVars, verdict, payloadVars, queueVars>>

\* Giving a unit back preserves the invariant: the count of the gate does not underflow,
\* and reaches zero only behind a terminal status.
LEMMA RetiresInv ==
  ASSUME PipelinesInv, NEW t \in Transfers, NEW p \in Places, Retires(t, p), Recorded
  PROVE  PipelinesInv' /\ \A u \in Transfers : u # t => SameRow(u)
<1>1. /\ TransferOK(t) /\ StageOK(t, p) /\ faulted \in [Transfers -> BOOLEAN]
      /\ outstanding_units \in [Transfers -> Nat]
  BY Zenon DEF PipelinesInv, TransferOK, OffloadTypeOK
<1>2. at' \in [Transfers -> [Places -> Stages]] /\ at'[t][p] = "done" /\ Elsewhere(at, at', t, p)
  <2>1. "done" \in Stages
    BY Zenon DEF Stages
  <2> QED
    BY Zenon, <2>1, MoveEffect DEF Retires
<1>3. p \in Live(t) /\ outstanding_units[t] > 0
  BY Zenon, LiveFacts DEF Retires, Live
<1>4. /\ outstanding_units' \in [Transfers -> Nat]
      /\ outstanding_units'[t] = outstanding_units[t] - 1
      /\ \A u \in Transfers : u # t => outstanding_units'[u] = outstanding_units[u]
  BY <1>1, <1>3 DEF Retires
<1>5. \A u \in Transfers : u # t => SameRow(u)
  BY Zenon, <1>2, <1>4 DEF Retires, SameRow, Elsewhere, stateVars, payloadVars
<1>6. /\ \A q \in Places : q # p => at'[t][q] = at[t][q]
      /\ Live(t)' = Live(t) \ {p}
  BY Zenon, <1>2 DEF Elsewhere, Live
<1>7. faulted'[t] = faulted[t]
  <2>1. \A q \in Places : at[t][q] \in {"fault", "retained"} => faulted[t]
    BY Zenon, <1>1 DEF TransferOK, StageOK, ResultOK
  <2> QED
    BY Zenon, <1>1, <1>2, <1>6, <2>1 DEF Recorded
<1>8. \A q \in Places : StageOK(t, q)'
  <2>1. ASSUME NEW q \in Places, q # p PROVE StageOK(t, q)'
    BY <1>1, <1>6, <1>7, <2>1 DEF TransferOK, StageOK, PayloadOK, VerdictOK, ResultOK, Retires,
       stateVars, payloadVars
  <2>2. StageOK(t, p)'
    BY Zenon, <1>1, <1>2 DEF StageOK, PayloadOK, VerdictOK, ResultOK, Retires, PayloadGone,
       Claimed, RemoteStages, CommittedStages, SettleStages, payloadVars
  <2> QED
    BY Zenon, <2>1, <2>2
<1>9. Alone(t)'
  BY Zenon, <1>1, <1>2, <1>6 DEF TransferOK, Alone
<1>10. RootFirst(t)' /\ Untouched(t)'
  <2>1. at[t][p] \notin {"absent", "done"} /\ phase' = phase
    BY Zenon DEF Retires
  <2> QED
    BY Zenon, <1>1, <1>2, <1>6, <2>1, PlaceFacts DEF TransferOK, RootFirst, Untouched
<1>11. Told(t)'
  <2>1. outstanding_units'[t] = 0 => status'[t] \in Terminal
    BY <1>1, <1>3, <1>4 DEF Retires, StageOK, ResultOK, stateVars
  <2>2. \A q \in Places : at[t][q] = "fault" => at'[t][q] = "fault"
    BY Zenon, <1>6 DEF Retires
  <2> QED
    BY Zenon, <1>1, <1>7, <2>1, <2>2 DEF TransferOK, Told, Retires, stateVars
<1>12. TransferOK(t)'
  BY Zenon, <1>8, <1>9, <1>10, <1>11 DEF TransferOK
<1>13. outstanding_units'[t] = Cardinality(Live(t)')
  BY Zenon, <1>3, <1>4, <1>6, LiveFacts, FS_RemoveElement
<1>14. QueueOK' /\ CarryOK'
  BY Zenon, QueueFrame, CarryFrame DEF Retires
<1>15. ControlTypes'
  BY Zenon, <1>2, <1>4 DEF PipelinesInv, OffloadTypeOK, ControlTypes, Retires, stateVars
<1> QED
  BY Zenon, <1>5, <1>12, <1>13, <1>14, <1>15, OneRow

\* release_nonfinal_unit: a unit that is not the last one goes, the last one stays with its
\* container to publish the result.
LEMMA SettleSteps ==
  ASSUME PipelinesInv, NEW t \in Transfers, NEW p \in Places, Settle(t, p), Recorded
  PROVE  Retires(t, p) \/ Advances(t, p)
<1>1. CASE outstanding_units[t] # 1
  BY Zenon, <1>1 DEF Settle, Retires
<1>2. CASE outstanding_units[t] = 1
  <2>1. StageOK(t, p)
    BY Zenon DEF PipelinesInv, TransferOK
  <2>2. /\ at[t][p] = "settle" /\ Move(t, p, "last")
        /\ UNCHANGED <<gateVars, stateVars, verdict, payloadVars, queueVars>>
    BY Zenon, <1>2 DEF Settle, gateVars
  <2>3. "last" \in Stages
    BY Zenon DEF Stages, SettleStages
  <2>4. at' \in [Transfers -> [Places -> Stages]] /\ at'[t][p] = "last" /\ Elsewhere(at, at', t, p)
    BY Zenon, <2>2, <2>3, MoveEffect
  <2>5. \A q \in Places : q # p => at[t][q] \in {"absent", "done"}
    <3>1. p \in Live(t)
      BY Zenon, <2>2 DEF Live
    <3>2. Live(t) = {p}
      BY Zenon, <1>2, <3>1, LiveFacts
    <3> QED
      BY Zenon, <3>2 DEF Live
  <2>6. status[t] \notin Terminal
    BY Zenon, <2>1, <2>2 DEF StageOK, ResultOK
  <2>7. Works(t, p)
    BY Zenon, <2>2, <2>3, <2>4, <2>5, <2>6 DEF Works, Elsewhere, gateVars, stateVars, payloadVars
  <2>8. PayloadOK(t, p)'
    BY Zenon, <2>1, <2>2, <2>4 DEF StageOK, PayloadOK, PayloadGone, Claimed, RemoteStages,
       SettleStages, payloadVars
  <2>9. VerdictOK(t, p)' /\ ResultOK(t, p)'
    BY Zenon, <2>1, <2>2, <2>4 DEF StageOK, VerdictOK, ResultOK, CommittedStages, SettleStages,
       gateVars,
       stateVars
  <2>10. QueueOK' /\ CarryOK'
    BY Zenon, <2>2, QueueFrame, CarryFrame DEF gateVars
  <2> QED
    BY Zenon, <2>2, <2>7, <2>8, <2>9, <2>10 DEF Advances, StageOK, PipelinesInv, OffloadTypeOK,
       stateVars
<1> QED
  BY Zenon, <1>1, <1>2

(***************************************************************************)
(* The steps that decide something                                         *)
(***************************************************************************)

\* A settling container looks at the commitment gate and resolves what it will publish: a
\* committed one goes on to settle, an uncommitted one to publish what the gate allows.
LEMMA VerdictAdvances ==
  ASSUME PipelinesInv, NEW t \in Transfers, NEW p \in Places,
         Resolve(t, p) \/ DropContainer(t, p), Recorded
  PROVE  Advances(t, p)
<1> DEFINE s == at'[t][p]
<1>1. /\ StageOK(t, p) /\ faulted[t] \in BOOLEAN /\ at \in [Transfers -> [Places -> Stages]]
      /\ verdict \in [Transfers -> [Places -> {"none"} \cup Terminal]]
  BY Zenon DEF PipelinesInv, TransferOK, OffloadTypeOK
<1>2. /\ at[t][p] \in {"failing", "finishing", "drop"}
      /\ UNCHANGED <<gateVars, stateVars, payloadVars, queueVars>>
  BY Zenon DEF Resolve, DropContainer
<1>3. /\ Move(t, p, s) /\ s \in {"fault", "settle", "publish", "dropping"}
      /\ s \in {"fault", "settle"} => /\ at[t][p] \in {"failing", "finishing"}
                                      /\ phase[t] = "Committed"
      /\ s = "publish" => /\ at[t][p] \in {"failing", "finishing"} /\ phase[t] # "Committed"
                          /\ verdict'[t][p] # "none"
      /\ verdict' \in [Transfers -> [Places -> {"none"} \cup Terminal]]
      /\ Elsewhere(verdict, verdict', t, p)
      /\ s \in {"publish", "dropping"} => /\ verdict'[t][p] = "none" <=> phase[t] = "Committed"
                                          /\ verdict'[t][p] = "Cancelled" => phase[t] = "Cancelled"
  <2>1. CASE Resolve(t, p) /\ is_committed(t)
    BY <1>1, <2>1 DEF Resolve, Move, is_committed, Elsewhere
  <2>2. CASE Resolve(t, p) /\ ~ is_committed(t)
    <3>1. PICK o \in {"Failed", "Complete"} :
             /\ at' = [at EXCEPT ![t][p] = "publish"]
             /\ verdict' = [verdict EXCEPT ![t][p] = IF phase[t] = "Cancelled" THEN "Cancelled"
                                                     ELSE o]
      BY Zenon, <2>2 DEF Resolve, Move, Verdict, is_precommit_cancelled
    <3> QED
      BY Zenon, <1>1, <1>2, <2>2, <3>1 DEF Resolve, Move, is_committed, Terminal, Elsewhere
  <2>3. CASE DropContainer(t, p)
    BY Zenon, <1>1, <2>3 DEF DropContainer, Move, is_committed, Verdict, is_precommit_cancelled,
       Terminal, Elsewhere
  <2> QED
    BY Zenon, <2>1, <2>2, <2>3
<1>4. s \in Stages /\ s \notin {"absent", "done", "last", "published", "retained"}
  BY Zenon, <1>3 DEF Stages, SettleStages
<1>5. at' \in [Transfers -> [Places -> Stages]] /\ Elsewhere(at, at', t, p)
  BY Zenon, <1>3, <1>4, MoveEffect
<1>6. status[t] \notin Terminal
  BY Zenon, <1>1, <1>2 DEF StageOK, ResultOK
<1>7. Works(t, p)
  BY Zenon, <1>2, <1>3, <1>4, <1>5, <1>6 DEF Works, Elsewhere, gateVars, stateVars, payloadVars
<1>8. StageOK(t, p)'
  <2>1. PayloadOK(t, p)'
    BY Zenon, <1>1, <1>2, <1>3 DEF StageOK, PayloadOK, PayloadGone, Claimed, RemoteStages,
       SettleStages, payloadVars
  <2>2. VerdictOK(t, p)'
    BY Zenon, <1>2, <1>3 DEF VerdictOK, CommittedStages, SettleStages, gateVars
  <2>3. ResultOK(t, p)'
    BY Zenon, <1>2, <1>3, <1>6 DEF ResultOK, stateVars, Recorded
  <2> QED
    BY Zenon, <2>1, <2>2, <2>3 DEF StageOK
<1>9. /\ status' \in [Transfers -> {"Evaluating", "Queued", "Transferring"} \cup Terminal]
      /\ error' \in [Transfers -> BOOLEAN] /\ QueueOK'
  BY Zenon, <1>2, QueueFrame DEF PipelinesInv, OffloadTypeOK, stateVars, gateVars
<1>10. CarryOK'
  BY <1>2, <1>3 DEF PipelinesInv, OffloadTypeOK, CarryOK, PendingExact, payloadVars
<1> QED
  BY Zenon, <1>7, <1>8, <1>9, <1>10 DEF Advances

\* record_error of a failed route, and the retention of physical work whose end nothing
\* proves (retain_unproven): the error is on record before the unit settles.
LEMMA ErrorAdvances ==
  ASSUME PipelinesInv, NEW t \in Transfers, NEW p \in Places,
         RecordError(t, p) \/ retain_unproven(t, p), Recorded
  PROVE  Advances(t, p)
<1> DEFINE s == at'[t][p]
<1>1. /\ StageOK(t, p) /\ faulted[t] \in BOOLEAN /\ at \in [Transfers -> [Places -> Stages]]
      /\ error \in [Transfers -> BOOLEAN]
  BY Zenon DEF PipelinesInv, TransferOK, OffloadTypeOK
<1>2. /\ \/ at[t][p] = "fault" /\ s = "settle"
         \/ at[t][p] = "draining" /\ s = "retained"
      /\ Move(t, p, s) /\ error' = [error EXCEPT ![t] = error[t] \/ status[t] \notin Terminal]
      /\ UNCHANGED <<gateVars, status, verdict, payloadVars, queueVars>>
  <2>1. CASE RecordError(t, p)
    BY Zenon, <1>1, <2>1 DEF RecordError, Move
  <2>2. CASE retain_unproven(t, p)
    BY Zenon, <1>1, <2>2 DEF retain_unproven, Move
  <2> QED
    BY Zenon, <2>1, <2>2
<1>3. s \in Stages /\ s \notin {"absent", "done", "last", "published"}
  BY Zenon, <1>2 DEF Stages, SettleStages
<1>4. at' \in [Transfers -> [Places -> Stages]] /\ Elsewhere(at, at', t, p)
  BY Zenon, <1>2, <1>3, MoveEffect
<1>5. status[t] \notin Terminal
  BY Zenon, <1>1, <1>2 DEF StageOK, ResultOK
<1>6. /\ error' \in [Transfers -> BOOLEAN] /\ error'[t]
      /\ \A u \in Transfers : u # t => error'[u] = error[u]
  BY Zenon, <1>1, <1>2, <1>5
<1>7. Works(t, p)
  BY Zenon, <1>2, <1>3, <1>4, <1>5, <1>6 DEF Works, Elsewhere, gateVars, payloadVars
<1>8. StageOK(t, p)'
  <2>1. PayloadOK(t, p)'
    BY Zenon, <1>1, <1>2 DEF StageOK, PayloadOK, PayloadGone, Claimed, RemoteStages,
       SettleStages, payloadVars
  <2>2. VerdictOK(t, p)'
    BY Zenon, <1>1, <1>2 DEF StageOK, VerdictOK, CommittedStages, SettleStages, gateVars
  <2>3. ResultOK(t, p)'
    BY Zenon, <1>2, <1>5 DEF ResultOK, Recorded
  <2> QED
    BY Zenon, <2>1, <2>2, <2>3 DEF StageOK
<1>9. /\ status' \in [Transfers -> {"Evaluating", "Queued", "Transferring"} \cup Terminal]
      /\ QueueOK' /\ CarryOK'
  BY Zenon, <1>2, QueueFrame, CarryFrame DEF PipelinesInv, OffloadTypeOK, gateVars
<1> QED
  BY Zenon, <1>6, <1>7, <1>8, <1>9 DEF Advances

\* The end of an evaluation and the dispatch of a copy set the status of the transfer,
\* which is not terminal while a container of it works.
LEMMA StatusAdvances ==
  ASSUME PipelinesInv, NEW t \in Transfers, NEW p \in Pipelines,
         FinishEvaluation(t, p) \/ Dispatch(t, p), Recorded
  PROVE  Advances(t, p)
<1> DEFINE s == at'[t][p]
<1>1. /\ StageOK(t, p) /\ at \in [Transfers -> [Places -> Stages]] /\ p \in Places /\ p # Remote
      /\ status \in [Transfers -> {"Evaluating", "Queued", "Transferring"} \cup Terminal]
  BY Zenon, PlaceFacts DEF PipelinesInv, TransferOK, OffloadTypeOK
<1>2. CASE FinishEvaluation(t, p) /\ is_precommit_cancelled(t)
  <2>1. /\ at[t][p] = "evaluating" /\ Move(t, p, "drop")
        /\ UNCHANGED <<gateVars, stateVars, verdict, payloadVars, queueVars>>
    BY Zenon, <1>2 DEF FinishEvaluation, stateVars
  <2>2. Plain(t, p)
    BY Zenon, <1>1, <2>1 DEF Plain, Follows, Move, Free
  <2> QED
    BY Zenon, <1>1, <2>2, PlainAdvances
<1>3. CASE Dispatch(t, p) /\ Move(t, p, "fault") /\ DropPayload(t, p) /\ UNCHANGED status
  <2>1. Drops(t, p)
    BY Zenon, <1>1, <1>3 DEF Dispatch, Drops, Move, StageOK, VerdictOK, CommittedStages, stateVars
  <2> QED
    BY Zenon, <1>1, <2>1, DropsAdvances
<1>4. ASSUME NEW v \in {"Queued", "Transferring"}, status' = [status EXCEPT ![t] = v],
             \/ at[t][p] = "evaluating" /\ s = "finish"
             \/ /\ at[t][p] = "evaluating" /\ s = "evaluated"
                /\ blocks[t][p] = {} /\ claims[t][p] # {}
             \/ at[t][p] = "executing" /\ s = "draining",
             Move(t, p, s), UNCHANGED <<gateVars, error, verdict, payloadVars, queueVars>>
      PROVE  Advances(t, p)
  <2>1. s \in Stages /\ s \notin {"absent", "done", "last", "published", "retained"}
    BY Zenon, <1>4 DEF Stages, SettleStages
  <2>2. at' \in [Transfers -> [Places -> Stages]] /\ Elsewhere(at, at', t, p)
    BY Zenon, <1>1, <1>4, <2>1, MoveEffect
  <2>3. status[t] \notin Terminal /\ v \notin Terminal
    BY Zenon, <1>1, <1>4 DEF StageOK, ResultOK, Terminal
  <2>4. /\ status' \in [Transfers -> {"Evaluating", "Queued", "Transferring"} \cup Terminal]
        /\ status'[t] = v /\ \A u \in Transfers : u # t => status'[u] = status[u]
    BY Zenon, <1>1, <1>4
  <2>5. at[t][p] \notin {"absent", "done", "fault", "retained"}
    BY Zenon, <1>4
  <2>6. Works(t, p)
    BY Zenon, <1>4, <2>1, <2>2, <2>3, <2>4, <2>5 DEF Works, Elsewhere, gateVars, payloadVars
  <2>7. PayloadOK(t, p)'
    BY Zenon, <1>1, <1>4 DEF StageOK, PayloadOK, PayloadGone, Claimed, SettleStages, payloadVars
  <2>8. VerdictOK(t, p)' /\ ResultOK(t, p)'
    BY Zenon, <1>1, <1>4, <2>3, <2>4 DEF StageOK, VerdictOK, ResultOK, CommittedStages,
       SettleStages, gateVars
  <2>9. error' \in [Transfers -> BOOLEAN] /\ QueueOK' /\ CarryOK'
    BY Zenon, <1>4, QueueFrame, CarryFrame DEF PipelinesInv, OffloadTypeOK, gateVars
  <2> QED
    BY Zenon, <2>4, <2>6, <2>7, <2>8, <2>9 DEF StageOK, Advances
<1>5. CASE FinishEvaluation(t, p) /\ ~ is_precommit_cancelled(t)
  <2>1. /\ at[t][p] = "evaluating" /\ blocks[t][p] = {} /\ status' = [status EXCEPT ![t] = "Queued"]
        /\ Move(t, p, IF claims[t][p] = {} THEN "finish" ELSE "evaluated")
        /\ UNCHANGED <<gateVars, error, verdict, payloadVars, queueVars>>
    BY Zenon, <1>5 DEF FinishEvaluation
  <2>2. Move(t, p, s) /\ s = IF claims[t][p] = {} THEN "finish" ELSE "evaluated"
    BY Zenon, <1>1, <2>1 DEF Move
  <2>3. CASE claims[t][p] = {}
    BY Zenon, <1>4, <2>1, <2>2, <2>3
  <2>4. CASE claims[t][p] # {}
    BY Zenon, <1>4, <2>1, <2>2, <2>4
  <2> QED
    BY Zenon, <2>3, <2>4
<1>6. CASE /\ Dispatch(t, p) /\ Move(t, p, "draining")
           /\ status' = [status EXCEPT ![t] = "Transferring"] /\ UNCHANGED payloadVars
  BY Zenon, <1>1, <1>4, <1>6 DEF Dispatch, Move
<1> QED
  BY Zenon, <1>2, <1>3, <1>5, <1>6 DEF Dispatch

\* The claims of (t, p) become a subset of what they were, and the PendingTracker follows.
LEMMA ClaimLess ==
  ASSUME PipelinesInv, NEW t \in Transfers, NEW p \in Pipelines, NEW C \in SUBSET claims[t][p],
         claims' = [claims EXCEPT ![t][p] = @ \ C], pending' = [pending EXCEPT ![p] = @ \ C]
  PROVE  /\ claims' \in [Transfers -> [Places -> SUBSET Hashes]]
         /\ Elsewhere(claims, claims', t, p) /\ claims'[t][p] = claims[t][p] \ C
         /\ pending' \in [Pipelines -> SUBSET Hashes] /\ PendingExact'
<1>1. /\ claims \in [Transfers -> [Places -> SUBSET Hashes]] /\ p \in Places
      /\ pending \in [Pipelines -> SUBSET Hashes] /\ claims[t][p] \subseteq pending[p]
  BY Zenon, PlaceFacts, ClaimsPending DEF PipelinesInv, OffloadTypeOK
<1>2. /\ claims' \in [Transfers -> [Places -> SUBSET Hashes]]
      /\ Elsewhere(claims, claims', t, p) /\ claims'[t][p] = claims[t][p] \ C
  BY Zenon, <1>1 DEF Elsewhere
<1>3. /\ pending' \in [Pipelines -> SUBSET Hashes] /\ pending'[p] = pending[p] \ C
      /\ \A q \in Pipelines : q # p => pending'[q] = pending[q]
  BY Zenon, <1>1
<1>4. /\ pending'[p] = (pending[p] \ claims[t][p]) \cup claims'[t][p]
      /\ claims'[t][p] \cap (pending[p] \ claims[t][p]) = {}
  BY Zenon, <1>1, <1>2, <1>3
<1> QED
  BY Zenon, <1>1, <1>2, <1>3, <1>4, PendingUpdate

\* The evaluation of one block: a cancelled container drops, a block is claimed only if no
\* other container of the pipeline owns its hash.
LEMMA EvaluateBlockAdvances ==
  ASSUME PipelinesInv, NEW t \in Transfers, NEW p \in Pipelines, EvaluateBlock(t, p), Recorded
  PROVE  Advances(t, p)
<1>1. /\ StageOK(t, p) /\ at \in [Transfers -> [Places -> Stages]] /\ p \in Places /\ p # Remote
      /\ blocks \in [Transfers -> [Places -> SUBSET Hashes]]
      /\ claims \in [Transfers -> [Places -> SUBSET Hashes]]
      /\ pending \in [Pipelines -> SUBSET Hashes] /\ claims[t][p] \subseteq pending[p]
  BY Zenon, PlaceFacts, ClaimsPending DEF PipelinesInv, TransferOK, OffloadTypeOK
<1>2. CASE is_precommit_cancelled(t)
  <2>1. /\ at[t][p] = "evaluating" /\ Move(t, p, "drop")
        /\ UNCHANGED <<gateVars, stateVars, verdict, payloadVars, queueVars>>
    BY Zenon, <1>2 DEF EvaluateBlock
  <2>2. Plain(t, p)
    BY Zenon, <1>1, <2>1 DEF Plain, Follows, Move, Free
  <2> QED
    BY Zenon, <1>1, <2>2, PlainAdvances
<1>3. CASE ~ is_precommit_cancelled(t)
  <2>1. PICK h \in blocks[t][p], C \in SUBSET blocks[t][p] :
           /\ C \cap pending[p] = {} /\ claims' = [claims EXCEPT ![t][p] = @ \cup C]
           /\ pending' = [pending EXCEPT ![p] = @ \cup C]
           /\ blocks' = [blocks EXCEPT ![t][p] = @ \ {h}]
    <3>1. PICK h \in blocks[t][p], pass \in BOOLEAN :
             LET C == IF pass /\ h \notin pending[p] THEN {h} ELSE {}
             IN  /\ claims' = [claims EXCEPT ![t][p] = @ \cup C]
                 /\ pending' = [pending EXCEPT ![p] = @ \cup C]
                 /\ blocks' = [blocks EXCEPT ![t][p] = @ \ {h}]
      BY Zenon, <1>3 DEF EvaluateBlock
    <3>2. CASE pass /\ h \notin pending[p]
      <4>1. {h} \cap pending[p] = {} /\ {h} \in SUBSET blocks[t][p]
        BY Zenon, <3>2
      <4> QED
        BY Zenon, <3>1, <3>2, <4>1
    <3>3. CASE ~ (pass /\ h \notin pending[p])
      <4>1. {} \cap pending[p] = {} /\ {} \in SUBSET blocks[t][p]
        OBVIOUS
      <4> QED
        BY Zenon, <3>1, <3>3, <4>1
    <3> QED
      BY Zenon, <3>2, <3>3
  <2>2. at[t][p] = "evaluating" /\ UNCHANGED <<at, gateVars, stateVars, verdict, queueVars>>
    BY Zenon, <1>3 DEF EvaluateBlock
  <2>3. /\ blocks' \in [Transfers -> [Places -> SUBSET Hashes]]
        /\ Elsewhere(blocks, blocks', t, p) /\ blocks'[t][p] = blocks[t][p] \ {h}
    BY Zenon, <1>1, <2>1 DEF Elsewhere
  <2>4. /\ claims' \in [Transfers -> [Places -> SUBSET Hashes]]
        /\ Elsewhere(claims, claims', t, p) /\ claims'[t][p] = claims[t][p] \cup C
    BY Zenon, <1>1, <2>1 DEF Elsewhere
  <2>5. /\ pending' \in [Pipelines -> SUBSET Hashes] /\ pending'[p] = pending[p] \cup C
        /\ \A q \in Pipelines : q # p => pending'[q] = pending[q]
    BY <1>1, <2>1
  <2>6. PendingExact'
    <3>1. /\ pending'[p] = (pending[p] \ claims[t][p]) \cup claims'[t][p]
          /\ claims'[t][p] \cap (pending[p] \ claims[t][p]) = {}
      BY Zenon, <1>1, <2>1, <2>4, <2>5
    <3> QED
      BY Zenon, <1>1, <2>4, <2>5, <3>1, PendingUpdate
  <2>7. CarryOK' /\ QueueOK'
    BY Zenon, <2>2, <2>3, <2>4, <2>5, <2>6, QueueFrame DEF CarryOK, PipelinesInv, OffloadTypeOK,
       gateVars
  <2>8. /\ status[t] \notin Terminal
        /\ at'[t][p] \in Stages \ {"absent", "done", "last", "published", "retained"}
    BY Zenon, <1>1, <2>2 DEF StageOK, ResultOK, Stages
  <2>9. blocks'[t][p] \cup claims'[t][p] \subseteq blocks[t][p] \cup claims[t][p]
    BY Zenon, <2>1, <2>3, <2>4
  <2>10. Works(t, p)
    BY Zenon, <1>1, <2>2, <2>3, <2>4, <2>8, <2>9 DEF Works, Elsewhere, gateVars, stateVars
  <2>11. StageOK(t, p)'
    BY Zenon, <1>1, <2>2, <2>8 DEF StageOK, PayloadOK, VerdictOK, ResultOK, PayloadGone, Claimed,
       CommittedStages, SettleStages, stateVars
  <2> QED
    BY Zenon, <2>2, <2>7, <2>10, <2>11 DEF Advances, PipelinesInv, OffloadTypeOK, stateVars
<1> QED
  BY Zenon, <1>2, <1>3

\* The decision under the commitment gate: shutdown wins, cancellation wins, or the batch
\* commits, in the root pipeline for the first time.
LEMMA UpgradeAdvances ==
  ASSUME PipelinesInv, NEW t \in Transfers, NEW p \in Pipelines, upgrade_batch(t, p), Recorded
  PROVE  Advances(t, p)
<1>1. /\ StageOK(t, p) /\ at \in [Transfers -> [Places -> Stages]] /\ p \in Places /\ p # Remote
      /\ phase \in [Transfers -> {"Open", "Committed", "Cancelled"}] /\ RootFirst(t)
  BY Zenon, PlaceFacts DEF PipelinesInv, TransferOK, OffloadTypeOK
<1>2. CASE closed[p] \/ is_precommit_cancelled(t)
  <2>1. /\ at[t][p] = "received" /\ Move(t, p, IF closed[p] THEN "fail" ELSE "drop")
        /\ UNCHANGED <<gateVars, stateVars, verdict, payloadVars, queueVars>>
    BY Zenon, <1>2 DEF upgrade_batch, gateVars, payloadVars
  <2>2. Plain(t, p)
    BY Zenon, <1>1, <2>1 DEF Plain, Follows, Move, Free, Claimed
  <2> QED
    BY Zenon, <1>1, <2>2, PlainAdvances
<1>3. CASE ~ (closed[p] \/ is_precommit_cancelled(t))
  <2> DEFINE s == at'[t][p]
  <2>1. PICK C \in SUBSET claims[t][p] :
           /\ claims' = [claims EXCEPT ![t][p] = @ \ C]
           /\ pending' = [pending EXCEPT ![p] = @ \ C]
           /\ Move(t, p, IF claims[t][p] = C THEN "settle" ELSE "committed")
    BY Zenon, <1>3 DEF upgrade_batch
  <2>2. /\ at[t][p] = "received" /\ phase[t] # "Cancelled"
        /\ phase' = [phase EXCEPT ![t] = "Committed"]
        /\ UNCHANGED <<cancel_requested, outstanding_units, stateVars, verdict, blocks, queueVars>>
    BY Zenon, <1>3 DEF upgrade_batch, is_precommit_cancelled
  <2>3. /\ claims' \in [Transfers -> [Places -> SUBSET Hashes]]
        /\ Elsewhere(claims, claims', t, p) /\ claims'[t][p] = claims[t][p] \ C
        /\ pending' \in [Pipelines -> SUBSET Hashes] /\ PendingExact'
    BY Zenon, <2>1, ClaimLess
  <2>4. Move(t, p, s) /\ s \in {"settle", "committed"} /\ (s = "settle" <=> claims[t][p] = C)
    BY Zenon, <1>1, <2>1 DEF Move
  <2>5. s \in Stages /\ s \notin {"absent", "done", "last", "published", "retained"}
    BY Zenon, <2>4 DEF Stages, SettleStages
  <2>6. at' \in [Transfers -> [Places -> Stages]] /\ Elsewhere(at, at', t, p)
    BY Zenon, <1>1, <2>4, <2>5, MoveEffect
  <2>7. status[t] \notin Terminal /\ blocks[t][p] = {} /\ claims[t][p] # {}
    BY Zenon, <1>1, <2>2 DEF StageOK, ResultOK, PayloadOK, Claimed
  <2>8. /\ phase'[t] = "Committed"
        /\ p # Root => phase' = phase
        /\ p = Root => (phase[t] = "Open" \/ phase' = phase)
    <3>1. phase[t] = "Committed" => phase' = phase
      BY Zenon, <1>1, <2>2
    <3>2. p # Root => phase[t] = "Committed"
      BY Zenon, <1>1, <2>2 DEF RootFirst
    <3>3. phase[t] \in {"Open", "Committed"} /\ phase'[t] = "Committed"
      BY Zenon, <1>1, <2>2
    <3> QED
      BY Zenon, <3>1, <3>2, <3>3
  <2>9. blocks'[t][p] \cup claims'[t][p] \subseteq blocks[t][p] \cup claims[t][p]
    BY Zenon, <2>2, <2>3
  <2>10. Works(t, p)
    <3>1. \/ phase' = phase
          \/ /\ p = Root /\ at[t][p] = "received" /\ at'[t][p] \in {"committed", "settle"}
             /\ phase[t] = "Open" /\ phase' = [phase EXCEPT ![t] = "Committed"]
      BY Zenon, <2>2, <2>4, <2>8
    <3>2. at[t][p] \notin {"absent", "done", "fault", "retained"}
      BY Zenon, <2>2
    <3>3. /\ Elsewhere(verdict, verdict', t, p) /\ Elsewhere(blocks, blocks', t, p)
          /\ UNCHANGED <<cancel_requested, outstanding_units, status, error>>
      BY Zenon, <2>2 DEF Elsewhere, stateVars
    <3> QED
      BY Zenon, <2>3, <2>5, <2>6, <2>7, <2>9, <3>1, <3>2, <3>3 DEF Works
  <2>11. PayloadOK(t, p)'
    <3>1. s = "settle" => claims'[t][p] = {}
      BY Zenon, <2>3, <2>4
    <3>2. s = "committed" => claims'[t][p] # {}
      BY Zenon, <2>3, <2>4
    <3> QED
      BY Zenon, <1>1, <2>2, <2>4, <2>7, <3>1, <3>2 DEF PayloadOK, PayloadGone, Claimed, SettleStages
  <2>12. VerdictOK(t, p)' /\ ResultOK(t, p)'
    BY Zenon, <2>2, <2>4, <2>7, <2>8 DEF VerdictOK, ResultOK, stateVars
  <2>13. QueueOK'
    BY Zenon, <1>1, <2>2 DEF PipelinesInv, OffloadTypeOK, QueueOK, MarkersSound,
       is_precommit_cancelled, queueVars
  <2>14. CarryOK'
    BY Zenon, <2>2, <2>3 DEF PipelinesInv, OffloadTypeOK, CarryOK
  <2> QED
    BY Zenon, <2>2, <2>10, <2>11, <2>12, <2>13, <2>14 DEF Advances, StageOK, PipelinesInv,
       OffloadTypeOK, stateVars
<1> QED
  BY Zenon, <1>2, <1>3

\* The copy drained: its registered blocks go to the chain router, or the container
\* settles.
LEMMA DrainedAdvances ==
  ASSUME PipelinesInv, NEW t \in Transfers, NEW p \in Places, Drained(t, p), Recorded
  PROVE  Advances(t, p)
<1>1. /\ StageOK(t, p) /\ at \in [Transfers -> [Places -> Stages]]
      /\ blocks \in [Transfers -> [Places -> SUBSET Hashes]]
      /\ claims \in [Transfers -> [Places -> SUBSET Hashes]]
  BY Zenon DEF PipelinesInv, TransferOK, OffloadTypeOK
<1>2. at[t][p] = "draining" /\ p \in Pipelines /\ p # Remote
  BY Zenon, PlaceFacts DEF Drained
<1>3. CASE ~ (p = Root /\ Routes # {})
  <2>1. /\ Move(t, p, "settle") /\ DropPayload(t, p)
        /\ UNCHANGED <<gateVars, stateVars, verdict, queueVars>>
    BY Zenon, <1>3 DEF Drained
  <2>2. Drops(t, p)
    BY Zenon, <1>1, <1>2, <2>1 DEF Drops, Move, StageOK, VerdictOK, CommittedStages
  <2> QED
    BY Zenon, <2>2, DropsAdvances
<1>4. CASE p = Root /\ Routes # {}
  <2>1. /\ Move(t, p, "chained") /\ blocks' = [blocks EXCEPT ![t][p] = claims[t][p]]
        /\ claims' = [claims EXCEPT ![t][p] = {}]
        /\ pending' = [pending EXCEPT ![p] = @ \ claims[t][p]]
        /\ UNCHANGED <<gateVars, stateVars, verdict, queueVars>>
    BY Zenon, <1>4 DEF Drained
  <2>2. claims[t][p] \in SUBSET claims[t][p] /\ claims[t][p] \ claims[t][p] = {}
    OBVIOUS
  <2>3. claims' = [claims EXCEPT ![t][p] = @ \ claims[t][p]]
    BY Zenon, <2>1, <2>2
  <2>4. /\ claims' \in [Transfers -> [Places -> SUBSET Hashes]]
        /\ Elsewhere(claims, claims', t, p) /\ claims'[t][p] = {}
        /\ pending' \in [Pipelines -> SUBSET Hashes] /\ PendingExact'
    <3>1. /\ claims' \in [Transfers -> [Places -> SUBSET Hashes]]
          /\ Elsewhere(claims, claims', t, p) /\ claims'[t][p] = claims[t][p] \ claims[t][p]
          /\ pending' \in [Pipelines -> SUBSET Hashes] /\ PendingExact'
      BY Zenon, <1>2, <2>1, <2>2, <2>3, ClaimLess
    <3> QED
      BY Zenon, <2>2, <3>1
  <2>5. /\ blocks' \in [Transfers -> [Places -> SUBSET Hashes]]
        /\ Elsewhere(blocks, blocks', t, p) /\ blocks'[t][p] = claims[t][p]
    BY Zenon, <1>1, <2>1 DEF Elsewhere
  <2>6. "chained" \in Stages \ {"absent", "done", "last", "published", "retained"}
    BY Zenon DEF Stages
  <2>7. /\ at' \in [Transfers -> [Places -> Stages]] /\ at'[t][p] = "chained"
        /\ Elsewhere(at, at', t, p)
    BY Zenon, <1>1, <2>1, <2>6, MoveEffect
  <2>8. status[t] \notin Terminal /\ claims[t][p] # {} /\ phase[t] = "Committed"
    BY Zenon, <1>1, <1>2 DEF StageOK, ResultOK, PayloadOK, VerdictOK, Claimed, CommittedStages
  <2>9. blocks'[t][p] \cup claims'[t][p] \subseteq blocks[t][p] \cup claims[t][p]
    BY Zenon, <2>4, <2>5
  <2>10. Works(t, p)
    BY Zenon, <1>2, <2>1, <2>4, <2>5, <2>6, <2>7, <2>8, <2>9 DEF Works, Elsewhere, gateVars,
       stateVars
  <2>11. StageOK(t, p)'
    BY Zenon, <1>1, <1>2, <1>4, <2>1, <2>4, <2>5, <2>7, <2>8 DEF StageOK, PayloadOK, VerdictOK,
       ResultOK, PayloadGone, Claimed, SettleStages, gateVars, stateVars
  <2>12. CarryOK' /\ QueueOK'
    BY Zenon, <2>1, <2>4, <2>5, QueueFrame DEF PipelinesInv, OffloadTypeOK, CarryOK, gateVars
  <2> QED
    BY Zenon, <2>1, <2>10, <2>11, <2>12 DEF Advances, PipelinesInv, OffloadTypeOK, stateVars
<1> QED
  BY Zenon, <1>3, <1>4

\* An accepted container arms its watcher and no other, so every marker of the queues
\* keeps a watcher that will clear it (enqueue_container).
LEMMA AcceptKeepsMarkers ==
  ASSUME PipelinesInv, NEW t \in Transfers, NEW p \in Pipelines, Accept(t, p),
         UNCHANGED <<phase, cancelled, closed>>
  PROVE  QueueOK'
<1>1. QueueOK
  BY Zenon DEF PipelinesInv, OffloadTypeOK, QueueOK
<1>2. /\ watcher' \in [Transfers -> [Pipelines -> {"none", "armed", "waiting", "gone"}]]
      /\ \A u \in Transfers, q \in Pipelines :
            u # t \/ q # p \/ t \in cancelled[p] => watcher'[u][q] = watcher[u][q]
  <2>1. CASE closed[p] \/ t \in cancelled[p]
    <3>1. watcher' = [watcher EXCEPT ![t][p] = @]
      BY Zenon, <2>1 DEF Accept, Pushed
    <3> QED
      BY Zenon, <1>1, <3>1 DEF QueueOK
  <2>2. CASE ~ (closed[p] \/ t \in cancelled[p])
    <3>1. watcher' = [watcher EXCEPT ![t][p] = "armed"]
      BY Zenon, <2>2 DEF Accept, Pushed
    <3> QED
      BY Zenon, <1>1, <2>2, <3>1 DEF QueueOK
  <2> QED
    BY Zenon, <2>1, <2>2
<1>3. ASSUME NEW q \in Pipelines, NEW u \in cancelled[q]
      PROVE  phase'[u] = "Cancelled" /\ watcher'[u][q] = "waiting"
  <2>1. u \in Transfers /\ phase[u] = "Cancelled" /\ watcher[u][q] = "waiting"
    BY Zenon, <1>1 DEF QueueOK, MarkersSound, is_precommit_cancelled
  <2> QED
    BY Zenon, <1>2, <2>1
<1> QED
  BY Zenon, <1>1, <1>2, <1>3 DEF QueueOK, MarkersSound, is_precommit_cancelled

\* A local route takes its container over, or gives it back to fail.
LEMMA EnqueueChainedAdvances ==
  ASSUME PipelinesInv, NEW t \in Transfers, NEW p \in Pipelines, enqueue_chained(t, p), Recorded
  PROVE  Advances(t, p)
<1>1. at \in [Transfers -> [Places -> Stages]] /\ p \in Places /\ p # Remote
  BY Zenon, PlaceFacts DEF PipelinesInv, OffloadTypeOK
<1>2. /\ at[t][p] = "routed" /\ Move(t, p, at'[t][p]) /\ at'[t][p] \in {"fail", "eval_queue"}
      /\ UNCHANGED <<gateVars, stateVars, verdict, payloadVars, cancelled, closed>> /\ Accept(t, p)
  BY Zenon, <1>1 DEF enqueue_chained, Move, Pushed
<1>3. QueueOK'
  BY Zenon, <1>2, AcceptKeepsMarkers DEF gateVars
<1> QED
  BY Zenon, <1>1, <1>2, <1>3, PlainMove DEF Follows, Free
==============================================================================
