------------------------------ MODULE Connector ------------------------------
(***************************************************************************)
(* The vLLM connector of kvbm-connector over the engine: LeaderState and   *)
(* its slots on the scheduler's thread, the flush of the leader, and one   *)
(* worker rank with its WorkerCompletionState.  Ranks do not interact:     *)
(* each awaits its own token of a fence.                                   *)
(*                                                                         *)
(* The scheduler is external.  It creates, matches, allocates, runs,       *)
(* preempts and finishes requests in the order the connector is built for, *)
(* builds frames ahead of the worker, and frees the blocks of a request    *)
(* when it preempts it, when the answer to its finish is Finished, and     *)
(* when a finished one is reported.  Freed blocks may be written by any    *)
(* pass of a later frame.                                                  *)
(***************************************************************************)
EXTENDS ConnectorEngine, Sequences, FiniteSetsExt

CONSTANTS
    MaxIterations,        \* bound on the frames
    MaxAhead,             \* frames built and not yet reported
    MaxFaults             \* bound on panics of a copy and on unconfirmed passes

ASSUME ConnectorConstants ==
    /\ MaxIterations \in Nat /\ MaxAhead \in Nat /\ MaxFaults \in Nat

VARIABLES
    slot,                 \* RequestSlot of a request, or None
    finishing,            \* finished requests whose slot awaits its handles
    pending_evictions, pending_fences,
    iteration,            \* the frame being built, or the last one built
    step,                 \* what the scheduler decided for that frame, or None
    stranded,             \* StrandMark
    flushes,              \* flush tasks, by iteration
    frames,               \* frames on their way to the worker
    pass,                 \* the pass that runs, or 0
    passed,               \* the last pass that is over
    fenced_iteration, completed_fences, finished_sending, finished_recving,
    outputs,              \* what the worker reported and the leader has yet to see
    vllm,                 \* the scheduler's view of a request
    freed,                \* the first frame whose pass may write the blocks of an action, or 0
    cut,                  \* requests finished while they were loading
    overrun,              \* loads still copying when their request was answered Finished
    faults

leaderVars == <<slot, finishing, pending_evictions, pending_fences>>
stepVars == <<iteration, step, stranded, flushes>>
workerVars == <<pass, passed, fenced_iteration, completed_fences, finished_sending, finished_recving>>
wireVars == <<frames, outputs>>
hostVars == <<vllm, freed, cut, overrun>>
vars == <<engineVars, leaderVars, stepVars, workerVars, wireVars, hostVars, faults>>

\* A parked FindBlocksHandle: 0 none, Latched before its onboard, then the load.
Latched == MaxActions + 1

from_request ==
    [proposal |-> 0, onboard |-> 0, offloads |-> {}, drain_holders |-> {}, fence_holders |-> {}]

Init ==
    /\ EngineInit
    /\ slot = [r \in Requests |-> None]
    /\ finishing = {} /\ pending_evictions = {} /\ pending_fences = {}
    /\ iteration = 0 /\ step = None /\ stranded = 0 /\ flushes = {}
    /\ frames = << >> /\ outputs = << >>
    /\ pass = 0 /\ passed = 0 /\ fenced_iteration = 0
    /\ completed_fences = {} /\ finished_sending = {} /\ finished_recving = {}
    /\ vllm = [r \in Requests |-> "new"]
    /\ freed = [i \in Ids |-> 0]
    /\ cut = {} /\ overrun = {}
    /\ faults = 0

\* The scheduler's thread holds LeaderState in one call at a time.
Free == arming = Idle /\ step = None
Slotted == {r \in Requests : slot[r] # None}

is_complete(i) == cell[i]
FenceComplete(f) == ~ FenceHeld(f)
holder_draining(h) ==
    IF h.fence # 0 THEN ~ FenceComplete(h.fence) ELSE h.onboard # 0 /\ ~ is_complete(h.onboard)
drain_holder_draining(s) == \E h \in s.drain_holders : holder_draining(h)

\* The handles and the proposals a slot holds, and those of a set of its holders.
Onboard(i) == {i} \cap Ids
HolderHandles(H) == UNION {Onboard(h.onboard) : h \in H}
HolderProposals(H) == UNION {Onboard(h.proposal) : h \in H}
SlotHandles(s) == Onboard(s.onboard) \cup s.offloads \cup HolderHandles(s.drain_holders)
SlotProposals(s) == Onboard(s.proposal) \cup HolderProposals(s.drain_holders)

Cut(r) == cut' = IF vllm[r] = "loading" THEN cut \cup {r} ELSE cut

\* The blocks of R are free from frame n on.
FreeBlocks(R, n) ==
    freed' = [i \in Ids |->
                IF i \in Minted /\ task[i].req \in R /\ freed[i] = 0 THEN n ELSE freed[i]]

----------------------------------------------------------------------------
\* A request waits, is matched and gets blocks.

create_slot(r) ==
    /\ Free /\ vllm[r] = "new"
    /\ slot' = [slot EXCEPT ![r] = from_request]
    /\ vllm' = [vllm EXCEPT ![r] = "waiting"]
    /\ UNCHANGED <<engineVars, finishing, pending_evictions, pending_fences, stepVars, workerVars,
                   wireVars, freed, cut, overrun, faults>>

\* find_blocks defers while a load of the same blocks is in flight; else it mints
\* a lifecycle, or loses the parked one and has it released.
gnmt(r) ==
    /\ Free /\ vllm[r] = "waiting"
    /\ inflight = {}
    /\ \/ slot[r].proposal = 0 /\ slot' = [slot EXCEPT ![r].proposal = Latched]
       \/ slot[r].proposal = Latched /\ slot' = [slot EXCEPT ![r].proposal = 0]
    /\ UNCHANGED <<engineVars, finishing, pending_evictions, pending_fences, stepVars, workerVars,
                   wireVars, hostVars, faults>>

\* allocate and allocate_resources, without and with external tokens.
allocate(r) ==
    /\ Free /\ vllm[r] = "waiting"
    /\ \/ /\ slot[r].proposal = 0
          /\ vllm' = [vllm EXCEPT ![r] = "running"]
          /\ UNCHANGED <<engineVars, slot>>
       \/ /\ slot[r].proposal = Latched /\ slot[r].onboard = 0
          /\ onboard(r)
          /\ slot' = [slot EXCEPT ![r].onboard = Next1, ![r].proposal = Next1]
          /\ vllm' = [vllm EXCEPT ![r] = "loading"]
    /\ UNCHANGED <<finishing, pending_evictions, pending_fences, stepVars, workerVars, wireVars,
                   freed, cut, overrun, faults>>

----------------------------------------------------------------------------
\* build_connector_meta: the scheduler preempts P and schedules S, and perhaps
\* requests the connector does not track; the preempted are evicted one by one,
\* then the walk buffers the offloads of the scheduled and the frame is sealed.

\* The scheduler preempts running requests, and on its way to an abort a loading one.
Preemptable == {r \in Requests : vllm[r] \in {"running", "loading"}}

schedule(P, S, others) ==
    /\ Free
    /\ P \subseteq Preemptable /\ S \subseteq {r \in Requests : vllm[r] = "running"} \ P
    /\ P \cup S # {} \/ others
    /\ evictions + Cardinality(P) <= MaxEvictions
    /\ iteration < MaxIterations
    /\ Len(frames) + Len(outputs) + (IF pass = 0 THEN 0 ELSE 1) < MaxAhead
    /\ iteration' = iteration + 1
    /\ step' = [preempt |-> P, run |-> S, runs |-> S # {} \/ others]
    /\ UNCHANGED <<engineVars, leaderVars, stranded, flushes, workerVars, wireVars, hostVars, faults>>

\* on_evicted: a first eviction of the cycle always reaches the engine, and a
\* preempted request is evicted once a cycle.
on_evicted_begin(r) ==
    /\ step # None /\ r \in step.preempt
    /\ evict_begin(r)
    /\ pending_evictions' = pending_evictions \cup {r}
    /\ UNCHANGED <<slot, finishing, pending_fences, stepVars, workerVars, wireVars, hostVars, faults>>

on_evicted_arm(i) ==
    /\ evict_arm(i)
    /\ UNCHANGED <<leaderVars, stepVars, workerVars, wireVars, hostVars, faults>>

\* The fence goes into the frame; a parked lifecycle and the onboard reading it
\* move to a holder, and every other handle is dropped.
on_evicted_end ==
    LET r == arming.req
        s == slot[r]
        holder == [proposal |-> s.proposal, onboard |-> s.onboard, fence |-> arming.fence]
        parked == s.proposal # 0
    IN  /\ arming.op = "evict" /\ arming.todo = {}
        /\ slot' = [slot EXCEPT ![r] =
                [from_request EXCEPT
                    !.drain_holders = s.drain_holders \cup (IF parked THEN {holder} ELSE {}),
                    !.fence_holders = s.fence_holders \cup
                        (IF parked THEN {} ELSE {arming.fence} \cap Fences)]]
        /\ pending_fences' = pending_fences \cup ({arming.fence} \cap Fences)
        /\ release(s.offloads \cup (IF parked THEN {} ELSE Onboard(s.onboard)), {})
        /\ arming' = Idle
        /\ UNCHANGED <<bundled, task, cell, taken, evictions, offload_drains>>
        /\ msgs' = msgs \cup Dropped
        /\ step' = [step EXCEPT !.preempt = @ \ {r}]
        /\ vllm' = [vllm EXCEPT ![r] = IF @ = "running" THEN "waiting" ELSE "aborted"]
        /\ FreeBlocks({r}, iteration)
        /\ UNCHANGED <<finishing, pending_evictions, iteration, stranded, flushes, workerVars,
                       wireVars, cut, overrun, faults>>

\* offload_step for the requests O that completed a block; serialize_metadata.
build_connector_meta(O) ==
    LET events == step.runs /\ (O # {} \/ stranded # 0)
    IN  /\ step # None /\ step.preempt = {} /\ arming = Idle
        /\ O \subseteq step.run
        /\ offload(O, iteration)
        /\ slot' = [r \in Requests |->
                        IF r \in O
                        THEN [slot[r] EXCEPT !.offloads = @ \cup
                                {i \in Ids : task'[i] # None /\ task[i] = None /\ task'[i].req = r}]
                        ELSE slot[r]]
        /\ frames' = Append(frames, [iteration |-> iteration, fences |-> pending_fences,
                                     preempts |-> pending_evictions # {}, runs |-> step.runs, events |-> events])
        /\ flushes' = IF events THEN flushes \cup {iteration} ELSE flushes
        /\ pending_evictions' = {} /\ pending_fences' = {}
        /\ step' = None
        /\ UNCHANGED <<finishing, iteration, stranded, workerVars, outputs, hostVars, faults>>

----------------------------------------------------------------------------
\* spawn_flush: a confirmed pass submits, an unconfirmed one is remembered.

Flush(n) ==
    /\ n \in flushes /\ n <= passed
    /\ flushes' = flushes \ {n}
    /\ flush_offloads(n)
    /\ stranded' = IF stranded # 0 /\ stranded <= n + 1 THEN 0 ELSE stranded
    /\ UNCHANGED <<bundled, actions, cell, held, taken, arming, evictions, offload_drains, inflight, msgs,
                   leaderVars, iteration, step, workerVars, wireVars, hostVars, faults>>

FlushUnconfirmed(n) ==
    /\ n \in flushes /\ faults < MaxFaults
    /\ faults' = faults + 1
    /\ flushes' = flushes \ {n}
    /\ stranded' = Max({stranded, n + 1})
    /\ UNCHANGED <<engineVars, leaderVars, iteration, step, workerVars, wireVars, hostVars>>

----------------------------------------------------------------------------
\* request_finished, answered Pending while a handle of the slot is not complete.

Unfinished == {"waiting", "loading", "running", "aborted"}

Reap(s) == release(SlotHandles(s), SlotProposals(s))

HandlePending(s) ==
    \/ s.onboard # 0 /\ ~ is_complete(s.onboard)
    \/ \E i \in s.offloads : ~ is_complete(i)

\* Pending with a drain: the answer is given when the drain is committed.
request_finished_commit(r) ==
    /\ Free /\ vllm[r] \in Unfinished
    /\ HandlePending(slot[r])
    /\ commit_begin(r)
    /\ UNCHANGED <<leaderVars, stepVars, workerVars, wireVars, hostVars, faults>>

request_finished_arm(i) ==
    /\ commit_arm(i)
    /\ UNCHANGED <<leaderVars, stepVars, workerVars, wireVars, hostVars, faults>>

AnswerPending(r) ==
    /\ finishing' = finishing \cup {r}
    /\ vllm' = [vllm EXCEPT ![r] = "finishing"]
    /\ Cut(r)
    /\ UNCHANGED <<slot, pending_evictions, pending_fences, stepVars, workerVars, wireVars, freed,
                   overrun, faults>>

request_finished_end ==
    /\ arming.op = "commit" /\ arming.todo = {}
    /\ arming' = Idle
    /\ UNCHANGED <<bundled, actions, task, cell, held, taken, evictions, offload_drains, inflight>>
    /\ msgs' = msgs \cup Dropped
    /\ AnswerPending(arming.req)

request_finished_pending(r) ==
    /\ Free /\ vllm[r] \in Unfinished
    /\ HandlePending(slot[r])
    /\ r \notin offload_drains
    /\ UNCHANGED engineVars
    /\ AnswerPending(r)

\* Finished: the drain is dropped uncommitted, the scheduler frees at once.
request_finished(r) ==
    /\ Free /\ vllm[r] \in Unfinished
    /\ ~ HandlePending(slot[r])
    /\ offload_drains' = offload_drains \ {r}
    /\ IF drain_holder_draining(slot[r])
       THEN /\ finishing' = finishing \cup {r}
            /\ UNCHANGED <<slot, actions, held, inflight>>
       ELSE /\ slot' = [slot EXCEPT ![r] = None]
            /\ Reap(slot[r])
            /\ UNCHANGED finishing
    /\ vllm' = [vllm EXCEPT ![r] = "gone"]
    /\ Cut(r)
    /\ overrun' = overrun \cup {i \in Onboard(slot[r].onboard) : Touching(i)}
    /\ FreeBlocks({r}, iteration + 1)
    /\ UNCHANGED <<bundled, task, cell, taken, arming, evictions>>
    /\ msgs' = msgs \cup Dropped
    /\ UNCHANGED <<pending_evictions, pending_fences, stepVars, workerVars, wireVars, faults>>

----------------------------------------------------------------------------
\* update_connector_output on a report, after which the scheduler frees the
\* finished requests the report names and runs the loaded ones.

Terminal(s) == ~ HandlePending(s) /\ ~ drain_holder_draining(s)
update_connector_output(sending, recving) ==
    LET reaped == {r \in finishing \cap Slotted : Terminal(slot[r])}
        loaded == {r \in (recving \cap Slotted) \ reaped :
                      slot[r].onboard # 0 /\ is_complete(slot[r].onboard)}
        freeing == {r \in sending \cup recving : vllm[r] = "finishing"}
        swept(r) == IF r \in reaped THEN {} ELSE {h \in slot[r].drain_holders : ~ holder_draining(h)}
    IN  /\ finishing' = finishing \cap {r \in Slotted : r \notin reaped}
        /\ slot' = [r \in Requests |->
                IF r \notin Slotted \/ r \in reaped THEN None
                ELSE [slot[r] EXCEPT
                        !.onboard = IF r \in loaded THEN 0 ELSE @,
                        !.proposal = IF r \in loaded THEN 0 ELSE @,
                        !.drain_holders = @ \ swept(r),
                        !.fence_holders = {f \in @ : ~ FenceComplete(f)}]]
        /\ release(UNION {SlotHandles(slot[r]) : r \in reaped}
                       \cup UNION {Onboard(slot[r].onboard) : r \in loaded}
                       \cup UNION {HolderHandles(swept(r)) : r \in Slotted},
                   UNION {SlotProposals(slot[r]) : r \in reaped}
                       \cup UNION {Onboard(slot[r].proposal) : r \in loaded}
                       \cup UNION {HolderProposals(swept(r)) : r \in Slotted})
        /\ vllm' = [r \in Requests |->
                IF r \in freeing THEN "gone"
                ELSE IF vllm[r] = "loading" /\ r \in recving THEN "running"
                ELSE vllm[r]]
        /\ FreeBlocks(freeing, iteration + 1)
        /\ UNCHANGED <<bundled, task, cell, taken, arming, evictions, offload_drains>>
        /\ msgs' = msgs \cup Dropped

Update ==
    /\ Free /\ outputs # << >>
    /\ update_connector_output(Head(outputs).sending, Head(outputs).recving)
    /\ outputs' = Tail(outputs)
    /\ UNCHANGED <<pending_evictions, pending_fences, stepVars, workerVars, frames, cut, overrun, faults>>

\* A step with nothing to run still polls the worker and reports.
IdleStep ==
    /\ Free /\ frames = << >> /\ pass = 0 /\ outputs = << >>
    /\ update_connector_output(finished_sending, finished_recving)
    /\ finished_sending' = {} /\ finished_recving' = {}
    /\ UNCHANGED <<pending_evictions, pending_fences, stepVars, pass, passed, fenced_iteration,
                   completed_fences, wireVars, cut, overrun, faults>>

----------------------------------------------------------------------------
\* The worker.  A frame's tokens are awaited once, at handle_preemptions or at the
\* bind, whichever comes first; then its pass runs and what finished is reported.

Deliver(m) ==
    /\ m \in msgs
    /\ msgs' = msgs \ {m}
    /\ completed_fences' = IF m[1] = "fence" THEN completed_fences \cup {m[2]} ELSE completed_fences
    /\ finished_sending' = IF m[1] = "save" THEN finished_sending \cup {m[2]} ELSE finished_sending
    /\ finished_recving' = IF m[1] = "load" THEN finished_recving \cup {m[2]} ELSE finished_recving
    /\ UNCHANGED <<bundled, actions, task, cell, held, taken, arming, evictions, offload_drains, inflight,
                   leaderVars, stepVars, pass, passed, fenced_iteration, wireVars, hostVars, faults>>

\* Mutant: the iteration is not claimed, so its tokens are awaited again after they were taken.
ensure_fences_awaited_Unclaimed(n, tokens) ==
    /\ tokens \subseteq completed_fences
    /\ fenced_iteration' = n
    /\ completed_fences' = completed_fences \ tokens

ensure_fences_awaited(n, tokens) ==
    \/ fenced_iteration = n /\ UNCHANGED <<fenced_iteration, completed_fences>>
    \/ /\ fenced_iteration # n
       /\ tokens \subseteq completed_fences
       /\ fenced_iteration' = n
       /\ completed_fences' = completed_fences \ tokens

handle_preemptions ==
    /\ frames # << >> /\ pass = 0
    /\ Head(frames).preempts
    /\ ensure_fences_awaited(Head(frames).iteration, Head(frames).fences)
    /\ UNCHANGED <<engineVars, leaderVars, stepVars, pass, passed, finished_sending, finished_recving,
                   wireVars, hostVars, faults>>

Report ==
    /\ outputs' = Append(outputs, [sending |-> finished_sending, recving |-> finished_recving])
    /\ finished_sending' = {} /\ finished_recving' = {}

\* bind_serialized_metadata; a frame that runs nothing is reported at once.
bind(f) ==
    IF f.preempts \/ f.events
    THEN ensure_fences_awaited(f.iteration, f.fences)
    ELSE UNCHANGED <<fenced_iteration, completed_fences>>
bind_metadata ==
    /\ frames # << >> /\ pass = 0
    /\ LET f == Head(frames) IN
       /\ bind(f)
       /\ IF f.runs
          THEN pass' = f.iteration /\ UNCHANGED <<outputs, finished_sending, finished_recving>>
          ELSE Report /\ UNCHANGED pass
    /\ frames' = Tail(frames)
    /\ UNCHANGED <<engineVars, leaderVars, stepVars, passed, hostVars, faults>>

\* wait_for_save, the pass-completion event and get_finished.
PassEnds ==
    /\ pass # 0
    /\ passed' = pass /\ pass' = 0
    /\ Report
    /\ UNCHANGED <<engineVars, leaderVars, stepVars, fenced_iteration, completed_fences, frames,
                   hostVars, faults>>

----------------------------------------------------------------------------
EngineTask ==
    \E i \in Ids :
        /\ \/ finish_load_action(i) \/ finish_bundle_load(i) \/ PhysicalEnds(i, "over")
           \/ finish_physical_load_action(i) \/ Settle(i)
           \/ \E p \in Resources : finish_offload_child(i, p)
        /\ UNCHANGED <<leaderVars, stepVars, workerVars, wireVars, hostVars, faults>>

CopyPanics ==
    /\ faults < MaxFaults
    /\ faults' = faults + 1
    /\ \E i \in Ids : PhysicalEnds(i, "panicked")
    /\ UNCHANGED <<leaderVars, stepVars, workerVars, wireVars, hostVars>>

\* The calls of the leader once begun.
LeaderContinues ==
    \/ \E r \in Requests : on_evicted_begin(r)
    \/ \E i \in Ids : on_evicted_arm(i) \/ request_finished_arm(i)
    \/ on_evicted_end
    \/ request_finished_end
    \/ \E O \in SUBSET Requests : build_connector_meta(O)

WorkerStep ==
    \/ \E m \in msgs : Deliver(m)
    \/ handle_preemptions
    \/ bind_metadata
    \/ PassEnds

System ==
    \/ EngineTask
    \/ LeaderContinues
    \/ WorkerStep
    \/ \E n \in flushes : Flush(n)
    \/ Update
    \/ IdleStep

\* What the scheduler decides, and the faults.
Host ==
    \/ \E r \in Requests :
           \/ create_slot(r) \/ gnmt(r) \/ allocate(r)
           \/ request_finished_commit(r) \/ request_finished_pending(r) \/ request_finished(r)
    \/ \E P, S \in SUBSET Requests, others \in BOOLEAN : schedule(P, S, others)
    \/ CopyPanics
    \/ \E n \in flushes : FlushUnconfirmed(n)

Next == System \/ Host

\* Tokio runs every ready task, transfers end (or panic), the worker's thread runs
\* what it is given and the scheduler keeps stepping while anything is unreported.
Spec == Init /\ [][Next]_vars /\ WF_vars(System)

----------------------------------------------------------------------------
Panicked(i) == task[i] # None /\ \E p \in DOMAIN task[i].work : task[i].work[p] = "panicked"

RecordType ==
    [req : Requests, kind : {"Load", "Save"}, terminal : {"Pending", "Deferred", "Settled"},
     fence : 0 .. MaxEvictions, drain : BOOLEAN, dropped_by_handle : BOOLEAN,
     physical_pending : BOOLEAN]
TypeOK ==
    /\ actions \in [Ids -> RecordType \cup {None}]
    /\ cell \in [Ids -> BOOLEAN] /\ held \in [Ids -> BOOLEAN]
    /\ offload_drains \subseteq Requests /\ inflight \subseteq Ids
    /\ msgs \subseteq ({"fence"} \X Fences) \cup ({"load", "save"} \X Requests)
    /\ completed_fences \subseteq Fences
    /\ finished_sending \subseteq Requests /\ finished_recving \subseteq Requests
    /\ finishing \subseteq Requests /\ pending_fences \subseteq Fences
    /\ iteration \in 0 .. MaxIterations /\ stranded \in 0 .. MaxIterations + 1

\* No record outlives its use: a live handle has its record, and the record of a
\* dropped handle is one that some terminal still to come removes.
RecordsBounded ==
    \A i \in Ids :
        /\ held[i] => i \in Tracked
        /\ i \in Tracked /\ ~ held[i] =>
               /\ actions[i].dropped_by_handle
               /\ has_pending_physical_work(i) \/ Touching(i) \/ (taken[i] # None /\ taken[i].remove)

\* A load in flight keeps other requests from loading its blocks, and a block is
\* waited for only while a slot or a record can still clear it.
Owned == UNION {SlotProposals(slot[r]) : r \in Slotted}
InflightExact ==
    /\ \A i \in Minted : task[i].kind = "Load" /\ Touching(i) => i \in inflight
    /\ \A i \in inflight : IF task[i].bundle THEN i \in Tracked ELSE i \in Owned

\* A save reads its blocks only after the pass that computes them is over.
SavesReadComputed ==
    \A i \in Minted :
        (\E p \in DOMAIN task[i].work : task[i].kind = "Save" /\ task[i].work[p] # "buffered")
            => task[i].iteration <= passed

\* The leader's and the engine's bookkeeping agree: no record or deferral entry is
\* left behind by the handles dropped at an eviction, a report or a reap, none goes
\* early, and flush_offloads never submits the offloads of a pass still running.
ConnectorInv == TypeOK /\ RecordsBounded /\ InflightExact /\ SavesReadComputed

\* The blocks of an action that a pass may already be writing.
Overwritten(i) == freed[i] # 0 /\ pass # 0 /\ freed[i] <= pass

\* "The connector consumes this fence and gates destination G1 reuse on it": no
\* pass writes blocks that a transfer of their former request still touches.
NoPassOverTransfer == \A i \in Ids : Overwritten(i) => ~ Touching(i)

\* Eviction fences and finish answers hold every pass back from blocks that a save or
\* a load of the preempted or finished request still touches, whatever terminals run
\* between the snapshot of evict and its arming; overruns of a watchdog excepted.
NoPassOverTransferUnlessOverrun ==
    \A i \in Ids : Overwritten(i) => ~ Touching(i) \/ i \in overrun

\* The requests whose finished_sending is under way.
Sendings ==
    {m[2] : m \in {n \in msgs : n[1] = "save"}} \cup finished_sending
        \cup UNION {outputs[k].sending : k \in DOMAIN outputs}
\* finished_sending is under way only for a request that the scheduler holds for it:
\* the DrainBarrier emits once and never after the request is freed.  A request that
\* finished while it was loading is left out: its finished_recving may free it first.
SendingIsAwaitedUnlessCut == \A r \in Sendings \ cut : vllm[r] = "finishing"

\* Every drain comes: a finished request that waits for its transfers is freed and a
\* frame that waits for its fences runs, unless a copy panicked or the completion of
\* a pass was never confirmed.
Excused == stranded # 0 \/ \E i \in Ids : Panicked(i)
EveryDrainEnds ==
    /\ \A r \in Requests : vllm[r] = "finishing" ~> vllm[r] = "gone" \/ Excused
    /\ frames # << >> ~> frames = << >> \/ Excused
=============================================================================
