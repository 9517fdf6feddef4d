------------------------------- MODULE Offload -------------------------------
(***************************************************************************)
(* The offload pipelines of kvbm-engine.  A transfer enters the pipeline   *)
(* Root as one container and moves through policy evaluation, its          *)
(* precondition, batching and the executor.  When the executor has copied  *)
(* it, the chain router hands the registered blocks to every downstream    *)
(* route: the local pipelines as weak blocks, the remote G4 task as strong *)
(* ones.  Cancellation, pipeline shutdown, failures and unproven physical  *)
(* completion may strike at any point.                                     *)
(*                                                                         *)
(* Each container owns one cancellation unit.  The model keeps, for each   *)
(* transfer t and place p, where that container is (at), the blocks it has *)
(* not evaluated or carries along (blocks), and those it claimed (claims). *)
(* A batch is one container: the sentinel flush of handle_container fires  *)
(* for every container, since a transfer enters a pipeline as one.         *)
(***************************************************************************)
EXTENDS Naturals, FiniteSets

CONSTANTS
    Transfers,            \* TransferIds
    Hashes,               \* SequenceHashes
    Input,                \* the hashes each transfer is to offload
    Root,                 \* the pipeline transfers are enqueued on
    LocalRoutes,          \* its downstream pipelines, in router order
    Remote,               \* the remote G4 route
    RemoteEnabled,        \* is the remote G4 route configured?
    MaxAwaits,            \* max_concurrent_precondition_awaits
    ExecutorCapacity,     \* EXECUTOR_INPUT_CAPACITY
    MaxTransfers          \* max_concurrent_transfers

Locals == {LocalRoutes[i] : i \in DOMAIN LocalRoutes}
Pipelines == {Root} \cup Locals
Routes == Locals \cup (IF RemoteEnabled THEN {Remote} ELSE {})
Places == Pipelines \cup {Remote}

ASSUME OffloadConstants ==
    /\ Input \in [Transfers -> SUBSET Hashes]
    /\ RemoteEnabled \in BOOLEAN
    /\ Root \notin Locals /\ Remote \notin Pipelines
    /\ IsFiniteSet(Locals)
    /\ {MaxAwaits, ExecutorCapacity, MaxTransfers} \subseteq Nat \ {0}

VARIABLES
    phase,                \* CommitmentPhase of each transfer
    cancel_requested,     \* CommitmentGate.cancel_requested
    outstanding_units,    \* CommitmentGate.outstanding_units
    status,               \* TransferStatus
    error,                \* TransferState.error is set
    at,                   \* where the container of a transfer is at a place
    verdict,              \* the terminal status a precommit container will publish
    blocks,               \* its source blocks not yet evaluated, or carried by a route
    claims,               \* its evaluated blocks: source and PendingGuard
    pending,              \* PendingTracker of each pipeline
    cancelled,            \* cancel markers of each pipeline's queues
    closed,               \* the pipeline published shutdown and closed its queues
    watcher,              \* the cancellation watcher spawned at enqueue
    faulted               \* history: some committed route of the transfer failed

gateVars == <<phase, cancel_requested, outstanding_units>>
stateVars == <<status, error>>
payloadVars == <<blocks, claims, pending>>
queueVars == <<cancelled, closed, watcher>>
offloadVars == <<gateVars, stateVars, at, verdict, payloadVars, queueVars>>

Terminal == {"Complete", "Cancelled", "Failed"}
QueueStages == {"eval_queue", "precondition_queue", "batch_queue"}
\* The payload is gone and the container is on its way to settle its unit.
SettleStages == {"fault", "settle", "last"}
Stages == {"absent", "evaluating", "evaluated", "awaiting", "collecting", "channel", "received",
           "committed", "executing", "draining", "retained", "chained", "routed", "remote_queue",
           "fail", "failing", "finish", "finishing", "drop", "dropping", "publish", "published",
           "done"} \cup QueueStages \cup SettleStages

OffloadInit ==
    /\ phase = [t \in Transfers |-> "Open"]
    /\ cancel_requested = [t \in Transfers |-> FALSE]
    /\ outstanding_units = [t \in Transfers |-> 0]
    /\ status = [t \in Transfers |-> "Evaluating"]
    /\ error = [t \in Transfers |-> FALSE]
    /\ at = [t \in Transfers |-> [p \in Places |-> "absent"]]
    /\ verdict = [t \in Transfers |-> [p \in Places |-> "none"]]
    /\ blocks = [t \in Transfers |-> [p \in Places |-> {}]]
    /\ claims = [t \in Transfers |-> [p \in Places |-> {}]]
    /\ pending = [p \in Pipelines |-> {}]
    /\ cancelled = [p \in Pipelines |-> {}]
    /\ closed = [p \in Pipelines |-> FALSE]
    /\ watcher = [t \in Transfers |-> [p \in Pipelines |-> "none"]]
    /\ faulted = [t \in Transfers |-> FALSE]

(***************************************************************************)
(* The cancellation token and its units                                    *)
(***************************************************************************)

is_precommit_cancelled(t) == phase[t] = "Cancelled"
is_committed(t) == phase[t] = "Committed"

\* CancelState::Confirmed, as publish_state derives it from the gate.
Confirmed(t) == cancel_requested[t] /\ outstanding_units[t] = 0

Move(t, p, stage) == at' = [at EXCEPT ![t][p] = stage]

\* The handle exists once the transfer is enqueued; cancel() may come at any
\* time after that, repeatedly.
request(t) ==
    /\ at[t][Root] # "absent" /\ ~ cancel_requested[t]
    /\ cancel_requested' = [cancel_requested EXCEPT ![t] = TRUE]
    /\ phase' = [phase EXCEPT ![t] = IF @ = "Open" THEN "Cancelled" ELSE @]
    /\ UNCHANGED <<outstanding_units, stateVars, at, verdict, payloadVars, queueVars>>

(***************************************************************************)
(* Settlement                                                              *)
(***************************************************************************)

\* The payload of container (t, p) is dropped: source guards, PendingGuards.
DropPayload(t, p) ==
    /\ blocks' = [blocks EXCEPT ![t][p] = {}]
    /\ claims' = [claims EXCEPT ![t][p] = {}]
    /\ pending' = [q \in Pipelines |-> IF q = p THEN pending[q] \ claims[t][p] ELSE pending[q]]

\* What a container that is not committed will publish.
Verdict(t, outcome) == IF is_precommit_cancelled(t) THEN "Cancelled" ELSE outcome

\* fail and finish release the payload first, then look at the gate.
ReleasePayload(t, p) ==
    /\ at[t][p] \in {"fail", "finish"}
    /\ Move(t, p, IF at[t][p] = "fail" THEN "failing" ELSE "finishing")
    /\ DropPayload(t, p)
    /\ UNCHANGED <<gateVars, stateVars, verdict, queueVars>>

Resolve(t, p) ==
    /\ at[t][p] \in {"failing", "finishing"}
    /\ IF is_committed(t)
       THEN /\ Move(t, p, IF at[t][p] = "failing" THEN "fault" ELSE "settle")
            /\ UNCHANGED verdict
       ELSE /\ Move(t, p, "publish")
            /\ verdict' = [verdict EXCEPT ![t][p] =
                   Verdict(t, IF at[t][p] = "failing" THEN "Failed" ELSE "Complete")]
    /\ UNCHANGED <<gateVars, stateVars, payloadVars, queueVars>>

\* Drop looks at the gate first and then releases the payload.
DropContainer(t, p) ==
    /\ at[t][p] = "drop"
    /\ Move(t, p, "dropping")
    /\ verdict' = [verdict EXCEPT ![t][p] = IF is_committed(t) THEN "none" ELSE Verdict(t, "Failed")]
    /\ UNCHANGED <<gateVars, stateVars, payloadVars, queueVars>>

DropRelease(t, p) ==
    /\ at[t][p] = "dropping"
    /\ Move(t, p, IF verdict[t][p] = "none" THEN "fault" ELSE "publish")
    /\ DropPayload(t, p)
    /\ UNCHANGED <<gateVars, stateVars, verdict, queueVars>>

\* set_cancelled, set_error or set_complete: a terminal status stays.
Publish(t, p) ==
    /\ at[t][p] = "publish"
    /\ Move(t, p, "published")
    /\ status' = [status EXCEPT ![t] = IF @ \in Terminal THEN @ ELSE verdict[t][p]]
    /\ error' = [error EXCEPT ![t] = @ \/ (status[t] \notin Terminal /\ verdict[t][p] = "Failed")]
    /\ UNCHANGED <<gateVars, verdict, payloadVars, queueVars>>

\* Mutant: a failed route settles without its error.
RecordError_Dropped(t, p) ==
    /\ at[t][p] = "fault"
    /\ Move(t, p, "settle")
    /\ UNCHANGED <<gateVars, stateVars, verdict, payloadVars, queueVars>>

\* record_error of a committed route, before its unit settles.
RecordError(t, p) ==
    /\ at[t][p] = "fault"
    /\ Move(t, p, "settle")
    /\ error' = [error EXCEPT ![t] = @ \/ status[t] \notin Terminal]
    /\ UNCHANGED <<gateVars, status, verdict, payloadVars, queueVars>>

\* release_nonfinal_unit: only the last unit stays live to publish.
Settle(t, p) ==
    /\ at[t][p] = "settle"
    /\ IF outstanding_units[t] = 1
       THEN Move(t, p, "last") /\ UNCHANGED outstanding_units
       ELSE /\ Move(t, p, "done")
            /\ outstanding_units' = [outstanding_units EXCEPT ![t] = @ - 1]
    /\ UNCHANGED <<phase, cancel_requested, stateVars, verdict, payloadVars, queueVars>>

finish_logical_operation(t, p) ==
    /\ at[t][p] = "last"
    /\ Move(t, p, "published")
    /\ status' = [status EXCEPT ![t] = IF @ \in Terminal THEN @
                                       ELSE IF error[t] THEN "Failed" ELSE "Complete"]
    /\ UNCHANGED <<gateVars, error, verdict, payloadVars, queueVars>>

\* The unit drops after its terminal status is out.
release_unit(t, p) ==
    /\ at[t][p] = "published"
    /\ Move(t, p, "done")
    /\ outstanding_units' = [outstanding_units EXCEPT ![t] = @ - 1]
    /\ UNCHANGED <<phase, cancel_requested, stateVars, verdict, payloadVars, queueVars>>

SettlementStep(t, p) ==
    \/ ReleasePayload(t, p)
    \/ Resolve(t, p)
    \/ DropContainer(t, p)
    \/ DropRelease(t, p)
    \/ Publish(t, p)
    \/ RecordError(t, p)
    \/ Settle(t, p)
    \/ finish_logical_operation(t, p)
    \/ release_unit(t, p)

(***************************************************************************)
(* Ingress, the queues and the cancellation watcher                        *)
(***************************************************************************)

\* push_or_return: a closed queue, or one that holds a marker for the
\* transfer, gives the container back and its owner fails it.
Pushed(t, p, queue) == IF closed[p] \/ t \in cancelled[p] THEN "fail" ELSE queue

\* enqueue_container: the watcher is spawned only for an accepted container.
Accept(t, p) ==
    watcher' = [watcher EXCEPT ![t][p] = IF Pushed(t, p, "eval_queue") = "fail" THEN @ ELSE "armed"]

enqueue(t) ==
    /\ at[t][Root] = "absent"
    /\ Move(t, Root, Pushed(t, Root, "eval_queue"))
    /\ outstanding_units' = [outstanding_units EXCEPT ![t] = 1]
    /\ blocks' = [blocks EXCEPT ![t][Root] = Input[t]]
    /\ Accept(t, Root)
    /\ UNCHANGED <<phase, cancel_requested, stateVars, verdict, claims, pending, cancelled, closed>>

\* Mutant: a cancellation after commitment marks the queues as well.
WatcherWakes_Always(t, p) ==
    /\ watcher[t][p] = "armed" /\ cancel_requested[t]
    /\ watcher' = [watcher EXCEPT ![t][p] = "waiting"]
    /\ cancelled' = [cancelled EXCEPT ![p] = @ \cup {t}]
    /\ UNCHANGED <<gateVars, stateVars, at, verdict, payloadVars, closed>>

\* The watcher wakes on the request or on a terminal status, whichever its
\* select takes; only a precommit cancellation marks the queues.
WatcherWakes(t, p) ==
    /\ watcher[t][p] = "armed"
    /\ cancel_requested[t] \/ status[t] \in Terminal
    /\ watcher' = [watcher EXCEPT ![t][p] = "waiting"]
    /\ \/ /\ cancel_requested[t] /\ is_precommit_cancelled(t)
          /\ cancelled' = [cancelled EXCEPT ![p] = @ \cup {t}]
       \/ /\ status[t] \in Terminal \/ ~ is_precommit_cancelled(t)
          /\ UNCHANGED cancelled
    /\ UNCHANGED <<gateVars, stateVars, at, verdict, payloadVars, closed>>

WatcherClears(t, p) ==
    /\ watcher[t][p] = "waiting" /\ status[t] \in Terminal
    /\ watcher' = [watcher EXCEPT ![t][p] = "gone"]
    /\ cancelled' = [cancelled EXCEPT ![p] = @ \ {t}]
    /\ UNCHANGED <<gateVars, stateVars, at, verdict, payloadVars, closed>>

\* Mutant: only the first queue is swept.
sweep_EvalQueue(t, p) ==
    /\ at[t][p] = "eval_queue" /\ t \in cancelled[p]
    /\ Move(t, p, "drop")
    /\ UNCHANGED <<gateVars, stateVars, verdict, payloadVars, queueVars>>

\* The sweeper, or pop_valid, drops a queued container whose marker is set.
sweep(t, p) ==
    /\ at[t][p] \in QueueStages /\ t \in cancelled[p]
    /\ Move(t, p, "drop")
    /\ UNCHANGED <<gateVars, stateVars, verdict, payloadVars, queueVars>>

\* PipelineRuntime::drop: under the commitment gate the queues close and give
\* back what they hold; each returned container then fails.
shutdown(p) ==
    /\ ~ closed[p]
    /\ closed' = [closed EXCEPT ![p] = TRUE]
    /\ at' = [t \in Transfers |-> [at[t] EXCEPT ![p] = IF @ \in QueueStages THEN "fail" ELSE @]]
    /\ UNCHANGED <<gateVars, stateVars, verdict, payloadVars, cancelled, watcher>>

(***************************************************************************)
(* Policy evaluation and preconditions                                     *)
(***************************************************************************)

\* The containers that a task of pipeline p holds: each executor's loop takes one at a time
\* and spawns at most max_concurrent_transfers transfers.
At(p, stages) == {t \in Transfers : at[t][p] \in stages}

\* pop_valid, for one consumer that already holds busy.
Pops(t, p, queue, busy, limit) ==
    /\ at[t][p] = queue /\ t \notin cancelled[p]
    /\ Cardinality(At(p, busy)) < limit

EvaluatorPops(t, p) ==
    /\ Pops(t, p, "eval_queue", {"evaluating", "evaluated"}, 1)
    /\ Move(t, p, IF is_precommit_cancelled(t) THEN "drop" ELSE "evaluating")
    /\ UNCHANGED <<gateVars, stateVars, verdict, payloadVars, queueVars>>

\* One block: the policies answer, and the block is claimed if it passes and
\* nobody else in this pipeline owns its hash.  A cancellation seen before or
\* after the policies drops the container.
EvaluateBlock(t, p) ==
    /\ at[t][p] = "evaluating"
    /\ \E h \in blocks[t][p] :
        \/ /\ is_precommit_cancelled(t)
           /\ Move(t, p, "drop")
           /\ UNCHANGED payloadVars
        \/ /\ ~ is_precommit_cancelled(t)
           /\ \E pass \in BOOLEAN :
               LET claimed == IF pass /\ h \notin pending[p] THEN {h} ELSE {}
               IN  /\ claims' = [claims EXCEPT ![t][p] = @ \cup claimed]
                   /\ pending' = [pending EXCEPT ![p] = @ \cup claimed]
           /\ blocks' = [blocks EXCEPT ![t][p] = @ \ {h}]
           /\ UNCHANGED at
    /\ UNCHANGED <<gateVars, stateVars, verdict, queueVars>>

FinishEvaluation(t, p) ==
    /\ at[t][p] = "evaluating" /\ blocks[t][p] = {}
    /\ IF is_precommit_cancelled(t)
       THEN Move(t, p, "drop") /\ UNCHANGED status
       ELSE /\ Move(t, p, IF claims[t][p] = {} THEN "finish" ELSE "evaluated")
            /\ status' = [status EXCEPT ![t] = "Queued"]
    /\ UNCHANGED <<gateVars, error, verdict, payloadVars, queueVars>>

PushEvaluated(t, p) ==
    /\ at[t][p] = "evaluated"
    /\ Move(t, p, Pushed(t, p, "precondition_queue"))
    /\ UNCHANGED <<gateVars, stateVars, verdict, payloadVars, queueVars>>

AwaiterPops(t, p) ==
    /\ Pops(t, p, "precondition_queue", {"awaiting"}, MaxAwaits)
    /\ Move(t, p, IF is_precommit_cancelled(t) THEN "drop" ELSE "awaiting")
    /\ UNCHANGED <<gateVars, stateVars, verdict, payloadVars, queueVars>>

\* The event fires, or is poisoned or overdue; a cancellation or the abort of
\* the task at shutdown drops the container instead.
await_container(t, p) ==
    /\ at[t][p] = "awaiting"
    /\ \/ ~ is_precommit_cancelled(t) /\ Move(t, p, Pushed(t, p, "batch_queue"))
       \/ Move(t, p, "fail")
       \/ (is_precommit_cancelled(t) \/ closed[p]) /\ Move(t, p, "drop")
    /\ UNCHANGED <<gateVars, stateVars, verdict, payloadVars, queueVars>>

(***************************************************************************)
(* Batching and the executor                                               *)
(***************************************************************************)

handle_container(t, p) ==
    /\ Pops(t, p, "batch_queue", {"collecting"}, 1)
    /\ Move(t, p, IF is_precommit_cancelled(t) THEN "drop" ELSE "collecting")
    /\ UNCHANGED <<gateVars, stateVars, verdict, payloadVars, queueVars>>

flush(t, p) ==
    /\ at[t][p] = "collecting"
    /\ \/ closed[p] /\ Move(t, p, "fail")
       \/ /\ ~ closed[p] /\ Cardinality(At(p, {"channel"})) < ExecutorCapacity
          /\ Move(t, p, "channel")
    /\ UNCHANGED <<gateVars, stateVars, verdict, payloadVars, queueVars>>

\* Mutant: nobody drains the channel after shutdown.
receive_batch_Undrained(t, p) ==
    /\ at[t][p] = "channel" /\ ~ closed[p]
    /\ At(p, {"received", "committed"}) = {}
    /\ Move(t, p, "received")
    /\ UNCHANGED <<gateVars, stateVars, verdict, payloadVars, queueVars>>

\* The executor loop takes the next batch when it has none in hand; after
\* shutdown the drainer fails what is left in the channel.
receive_batch(t, p) ==
    /\ at[t][p] = "channel"
    /\ \/ closed[p] /\ Move(t, p, "fail")
       \/ /\ ~ closed[p] /\ At(p, {"received", "committed"}) = {}
          /\ Move(t, p, "received")
    /\ UNCHANGED <<gateVars, stateVars, verdict, payloadVars, queueVars>>

\* Mutant: the upgrade does not claim the commitment from the gate.
upgrade_batch_Unclaimed(t, p) ==
    /\ at[t][p] = "received" /\ ~ closed[p]
    /\ Move(t, p, "committed")
    /\ UNCHANGED <<gateVars, stateVars, verdict, payloadVars, queueVars>>

\* Under the commitment gate: shutdown wins, cancellation wins, or the batch
\* commits.  Weak blocks, those of a downstream pipeline always, may be gone.
upgrade_batch(t, p) ==
    /\ at[t][p] = "received"
    /\ IF closed[p] \/ is_precommit_cancelled(t)
       THEN /\ Move(t, p, IF closed[p] THEN "fail" ELSE "drop")
            /\ UNCHANGED <<phase, claims, pending>>
       ELSE /\ phase' = [phase EXCEPT ![t] = "Committed"]
            /\ \E evicted \in SUBSET claims[t][p] :
                /\ claims' = [claims EXCEPT ![t][p] = @ \ evicted]
                /\ pending' = [pending EXCEPT ![p] = @ \ evicted]
                /\ Move(t, p, IF claims[t][p] = evicted THEN "settle" ELSE "committed")
    /\ UNCHANGED <<cancel_requested, outstanding_units, stateVars, verdict, blocks, queueVars>>

acquire_committed_permit(t, p) ==
    /\ at[t][p] = "committed"
    /\ Cardinality(At(p, {"executing", "draining"})) < MaxTransfers
    /\ Move(t, p, "executing")
    /\ UNCHANGED <<gateVars, stateVars, verdict, payloadVars, queueVars>>

\* The allocation or the dispatch fails before any physical work, or the copy
\* is dispatched.
Dispatch(t, p) ==
    /\ at[t][p] = "executing"
    /\ \/ Move(t, p, "fault") /\ DropPayload(t, p) /\ UNCHANGED status
       \/ /\ Move(t, p, "draining")
          /\ status' = [status EXCEPT ![t] = "Transferring"]
          /\ UNCHANGED payloadVars
    /\ UNCHANGED <<gateVars, error, verdict, queueVars>>

\* The copy drained and its blocks are registered: with a downstream route
\* the registered blocks go to the chain router, and then the source guards
\* are released.
Drained(t, p) ==
    /\ at[t][p] = "draining" /\ p \in Pipelines
    /\ IF p = Root /\ Routes # {}
       THEN /\ Move(t, p, "chained")
            /\ blocks' = [blocks EXCEPT ![t][p] = claims[t][p]]
            /\ claims' = [claims EXCEPT ![t][p] = {}]
            /\ pending' = [pending EXCEPT ![p] = @ \ claims[t][p]]
       ELSE Move(t, p, "settle") /\ DropPayload(t, p)
    /\ UNCHANGED <<gateVars, stateVars, verdict, queueVars>>

\* The copy drained with an error, or the registration or an upload failed.
DrainFails(t, p) ==
    /\ at[t][p] = "draining"
    /\ Move(t, p, "fault")
    /\ DropPayload(t, p)
    /\ UNCHANGED <<gateVars, stateVars, verdict, queueVars>>

\* Mutant: an unproven copy releases its guards.
retain_unproven_Released(t, p) ==
    /\ at[t][p] = "draining"
    /\ Move(t, p, "retained")
    /\ DropPayload(t, p)
    /\ UNCHANGED <<gateVars, stateVars, verdict, queueVars>>

\* Nothing proves that the copy ended, or its task was aborted: guards and
\* unit are leaked on purpose.
retain_unproven(t, p) ==
    /\ at[t][p] = "draining"
    /\ Move(t, p, "retained")
    /\ error' = [error EXCEPT ![t] = @ \/ status[t] \notin Terminal]
    /\ UNCHANGED <<gateVars, status, verdict, payloadVars, queueVars>>

(***************************************************************************)
(* The chain router and the remote G4 task                                 *)
(***************************************************************************)

\* The router serves one chain output at a time, its routes in order and the
\* remote one last.
Routing == {t \in Transfers : \E r \in Routes : at[t][r] = "routed"}
Earlier(r) == IF r = Remote THEN Locals
              ELSE {LocalRoutes[j] : j \in {j \in DOMAIN LocalRoutes :
                        \E i \in DOMAIN LocalRoutes : LocalRoutes[i] = r /\ j < i}}

\* fan_out: the unit of the chain output becomes one unit per route.
FanOut(t) ==
    /\ at[t][Root] = "chained" /\ Routing = {}
    /\ at' = [at EXCEPT ![t] = [p \in Places |-> IF p \in Routes THEN "routed"
                                                 ELSE IF p = Root THEN "done" ELSE @[p]]]
    /\ blocks' = [blocks EXCEPT ![t] = [p \in Places |-> IF p \in Routes THEN @[Root]
                                                         ELSE IF p = Root THEN {} ELSE @[p]]]
    /\ outstanding_units' = [outstanding_units EXCEPT ![t] = @ - 1 + Cardinality(Routes)]
    /\ UNCHANGED <<phase, cancel_requested, stateVars, verdict, claims, pending, queueVars>>

\* The chain channel, or the channel to the remote task, is closed.
ChannelClosed(t, p) ==
    /\ \/ p = Root /\ at[t][p] = "chained"
       \/ p = Remote /\ at[t][p] = "routed" /\ \A r \in Earlier(p) : at[t][r] # "routed"
    /\ Move(t, p, "fault")
    /\ DropPayload(t, p)
    /\ UNCHANGED <<gateVars, stateVars, verdict, queueVars>>

enqueue_chained(t, p) ==
    /\ p \in Locals /\ at[t][p] = "routed"
    /\ \A r \in Earlier(p) : at[t][r] # "routed"
    /\ Move(t, p, Pushed(t, p, "eval_queue"))
    /\ Accept(t, p)
    /\ UNCHANGED <<gateVars, stateVars, verdict, payloadVars, cancelled, closed>>

RemoteSend(t) ==
    /\ at[t][Remote] = "routed" /\ \A r \in Earlier(Remote) : at[t][r] # "routed"
    /\ Move(t, Remote, "remote_queue")
    /\ UNCHANGED <<gateVars, stateVars, verdict, payloadVars, queueVars>>

\* The remote task takes one request, and waits for its drain before the next.
RemoteDispatch(t) ==
    /\ at[t][Remote] = "remote_queue" /\ At(Remote, {"draining"}) = {}
    /\ \/ Move(t, Remote, "draining") /\ UNCHANGED payloadVars
       \/ Move(t, Remote, "fault") /\ DropPayload(t, Remote)
    /\ UNCHANGED <<gateVars, stateVars, verdict, queueVars>>

RemoteDrained(t) ==
    /\ at[t][Remote] = "draining"
    /\ Move(t, Remote, "settle")
    /\ DropPayload(t, Remote)
    /\ UNCHANGED <<gateVars, stateVars, verdict, queueVars>>

(***************************************************************************)
(* The next-state relation                                                 *)
(***************************************************************************)

PipelineStep(t, p) ==
    \/ WatcherWakes(t, p)
    \/ WatcherClears(t, p)
    \/ sweep(t, p)
    \/ EvaluatorPops(t, p)
    \/ EvaluateBlock(t, p)
    \/ FinishEvaluation(t, p)
    \/ PushEvaluated(t, p)
    \/ AwaiterPops(t, p)
    \/ await_container(t, p)
    \/ handle_container(t, p)
    \/ flush(t, p)
    \/ receive_batch(t, p)
    \/ upgrade_batch(t, p)
    \/ acquire_committed_permit(t, p)
    \/ Dispatch(t, p)
    \/ Drained(t, p)
    \/ enqueue_chained(t, p)

RouterStep(t) ==
    \/ FanOut(t)
    \/ RemoteSend(t)
    \/ RemoteDispatch(t)
    \/ RemoteDrained(t)

\* Steps every task of the engine takes in time: tokio runs every ready task,
\* policies and preconditions have timeouts, physical work reports an outcome.
TaskStep(t, p) ==
    \/ SettlementStep(t, p)
    \/ p \in Pipelines /\ PipelineStep(t, p)
    \/ p = Root /\ RouterStep(t)
    \/ DrainFails(t, p)
    \/ retain_unproven(t, p)
    \/ ChannelClosed(t, p)

OffloadStep ==
    \/ \E t \in Transfers : enqueue(t) \/ request(t)
    \/ \E p \in Pipelines : shutdown(p)
    \/ \E t \in Transfers, p \in Places : TaskStep(t, p)

OffloadNext ==
    /\ OffloadStep
    /\ faulted' = [t \in Transfers |->
           faulted[t] \/ \E p \in Places : at'[t][p] \in {"fault", "retained"}]

OffloadSpec == OffloadInit /\ [][OffloadNext]_<<offloadVars, faulted>>

FairOffloadSpec ==
    OffloadSpec /\ \A t \in Transfers, p \in Places : WF_offloadVars(TaskStep(t, p))

(***************************************************************************)
(* Properties                                                              *)
(***************************************************************************)

\* Every variable stays in its type.
OffloadTypeOK ==
    /\ phase \in [Transfers -> {"Open", "Committed", "Cancelled"}]
    /\ cancel_requested \in [Transfers -> BOOLEAN]
    /\ outstanding_units \in [Transfers -> Nat]
    /\ status \in [Transfers -> {"Evaluating", "Queued", "Transferring"} \cup Terminal]
    /\ error \in [Transfers -> BOOLEAN]
    /\ at \in [Transfers -> [Places -> Stages]]
    /\ verdict \in [Transfers -> [Places -> {"none"} \cup Terminal]]
    /\ blocks \in [Transfers -> [Places -> SUBSET Hashes]]
    /\ claims \in [Transfers -> [Places -> SUBSET Hashes]]
    /\ pending \in [Pipelines -> SUBSET Hashes]
    /\ cancelled \in [Pipelines -> SUBSET Transfers]
    /\ closed \in [Pipelines -> BOOLEAN]
    /\ watcher \in [Transfers -> [Pipelines -> {"none", "armed", "waiting", "gone"}]]
    /\ faulted \in [Transfers -> BOOLEAN]

\* The guards a container holds: claimed blocks, and the source blocks of the
\* places that hold them strongly.  Source blocks that were enqueued as weak ones
\* count as well until the upgrade has found them or not.
Guards(t, p) == claims[t][p] \cup IF p \in Locals THEN {} ELSE blocks[t][p]
Held(t) == UNION {Guards(t, p) : p \in Places}
Retained(t) == \E p \in Places : at[t][p] = "retained"

\* Cancellation and commitment exclude each other: a transfer reported
\* Cancelled, or whose gate cancelled it, never reached the executor.
CancelledNeverCommits ==
    \A t \in Transfers : status[t] = "Cancelled" \/ phase[t] = "Cancelled" =>
        \A p \in Places : at[t][p] \notin {"committed", "executing", "draining", "retained",
                                           "chained", "routed", "remote_queue"} \cup SettleStages

\* Physical work that may still run keeps its guards and its transfer open.
UnprovenStaysOpen ==
    \A t \in Transfers, p \in Places : at[t][p] \in {"draining", "retained"} =>
        Guards(t, p) # {} /\ status[t] \notin Terminal /\ ~ Confirmed(t)

\* The pending tracker holds exactly the hashes of the live PendingGuards,
\* and a hash has one guard per pipeline.
PendingExact ==
    \A p \in Pipelines :
        /\ pending[p] = UNION {claims[t][p] : t \in Transfers}
        /\ \A t, u \in Transfers : t # u => claims[t][p] \cap claims[u][p] = {}

\* A marker only ever names a transfer whose cancellation won, and is gone
\* when its watcher is.
MarkersSound ==
    \A p \in Pipelines : \A t \in cancelled[p] :
        is_precommit_cancelled(t) /\ watcher[t][p] = "waiting"

\* Every cancellation is confirmed, unless physical work stays unproven.
CancelConfirms ==
    \A t \in Transfers : cancel_requested[t] ~> Confirmed(t) \/ Retained(t)

\* Every enqueued transfer reaches a terminal status and its watcher goes
\* away, through shutdown and failures, unless physical work stays unproven.
EveryTransferSettles ==
    \A t \in Transfers : at[t][Root] # "absent" ~>
        \/ status[t] \in Terminal /\ \A p \in Pipelines : watcher[t][p] \in {"none", "gone"}
        \/ Retained(t)

\* The count in the commitment gate is the number of containers that still
\* own a cancellation unit, so no release underflows it and none is lost.
UnitsExact ==
    \A t \in Transfers :
        outstanding_units[t] = Cardinality({p \in Places : at[t][p] \notin {"absent", "done"}})

\* When wait_confirmed returns, the terminal status is out and every guard of
\* the transfer is released.
ConfirmedIsOver ==
    \A t \in Transfers : Confirmed(t) => status[t] \in Terminal /\ Held(t) = {}

\* The bookkeeping of the transfers: the types, the units of the commitment gate, the
\* pending claims, the cancellation markers, and what wait_confirmed promises when it
\* returns.
OffloadInv == OffloadTypeOK /\ UnitsExact /\ PendingExact /\ MarkersSound /\ ConfirmedIsOver

\* The outcome of a transfer as its handle shows it.
Outcome == INSTANCE TransferOutcome WITH
    submitted <- [t \in Transfers |-> at[t][Root] # "absent"],
    decision <- phase,
    requested <- cancel_requested,
    holding <- [t \in Transfers |-> Held(t) # {}],
    fault <- faulted,
    unproven <- [t \in Transfers |-> Retained(t)],
    result <- [t \in Transfers |-> IF status[t] \in Terminal THEN status[t] ELSE "none"],
    live <- [t \in Transfers |-> outstanding_units[t] # 0]

\* The pipelines implement the contract of the handle: whatever way a transfer
\* takes, its decision, faults, guards, result and units change as
\* TransferOutcome allows.
ImplementsOutcome == Outcome!OutcomeSpec
====
