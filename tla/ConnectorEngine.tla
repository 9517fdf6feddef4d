--------------------------- MODULE ConnectorEngine ---------------------------
(***************************************************************************)
(* LocalConnectorEngine of kvbm-engine, as the connector's leader and its  *)
(* own tasks use it: the records of the load and save actions in flight,   *)
(* the fence an eviction arms on them, the drain a finishing request arms  *)
(* on them, their terminals, and the guard against loading a block twice.  *)
(*                                                                         *)
(* An action copies the blocks of one request; what it copies and how it   *)
(* fares (ActionStatus, LoadOutcome) are left out: a failed transfer takes *)
(* the same path as a complete one.  by_request is derived from the        *)
(* records: an action enters and leaves both maps in one operation.        *)
(***************************************************************************)
EXTENDS Integers, FiniteSets

CONSTANTS
    Requests,             \* request ids, numbers
    Resources,            \* the logical resources of a bundle
    MaxActions,           \* bound on the actions minted
    MaxEvictions          \* bound on the evictions, so on the fences

ASSUME EngineConstants ==
    /\ IsFiniteSet(Requests) /\ Requests \subseteq Nat
    /\ IsFiniteSet(Resources) /\ Resources # {}
    /\ MaxActions \in Nat /\ MaxEvictions \in Nat

Ids == 1 .. MaxActions
Fences == 1 .. MaxEvictions
None == [none |-> TRUE]

VARIABLES
    bundled,              \* the requests of a bundle cache (CacheScope of their slot)
    actions,              \* ActionRecord of an action, or None
    task,                 \* what the driver tasks of an action know of it
    cell,                 \* the completion cell of the handle: terminal or not
    held,                 \* the handle is alive
    taken,                \* what a terminal took from the record and has yet to drop
    arming,               \* the loop of evict or of arm_drain_emission under way
    evictions,            \* evictions so far
    offload_drains,       \* requests with a drain to take
    inflight,             \* the loads whose blocks other requests wait for
    msgs                  \* calls of the sink on their way to the worker

engineVars ==
    <<bundled, actions, task, cell, held, taken, arming, evictions, offload_drains, inflight, msgs>>

Idle == [op |-> "none", req |-> 0, todo |-> {}, fence |-> 0, drain |-> FALSE]

EngineInit ==
    /\ bundled \in SUBSET Requests
    /\ actions = [i \in Ids |-> None]
    /\ task = [i \in Ids |-> None]
    /\ cell = [i \in Ids |-> FALSE]
    /\ held = [i \in Ids |-> FALSE]
    /\ taken = [i \in Ids |-> None]
    /\ arming = Idle
    /\ evictions = 0
    /\ offload_drains = {}
    /\ inflight = {}
    /\ msgs = {}

Minted == {i \in Ids : task[i] # None}
Next1 == Cardinality(Minted) + 1
Tracked == {i \in Ids : actions[i] # None}
by_request(r) == {i \in Tracked : actions[i].req = r}

\* A transfer of the action is buffered, submitted or running.
Touching(i) == task[i] # None /\ \E p \in DOMAIN task[i].work : task[i].work[p] # "over"

has_pending_physical_work(i) ==
    actions[i].physical_pending \/ (actions[i].kind = "Save" /\ actions[i].terminal = "Pending")
\* Mutant: an action is over once its handle says so.
has_pending_work_Logical(i) == held[i] /\ ~ cell[i]
has_pending_work(i) == (held[i] /\ ~ cell[i]) \/ has_pending_physical_work(i)
must_retain_after_handle_drop(i) ==
    \/ actions[i].fence # 0
    \/ actions[i].drain
    \/ has_pending_physical_work(i)
    \/ task[i].bundle /\ actions[i].kind = "Load" /\ has_pending_work(i)

----------------------------------------------------------------------------
\* The barriers.  The last clone dropped of a FenceBarrier or of a DrainBarrier
\* calls the sink; clones live in records, with terminals and in an arming loop.

FenceHeld(f) ==
    \/ \E i \in Tracked : actions[i].fence = f
    \/ \E i \in Ids : taken[i] # None /\ taken[i].fence = f
    \/ arming.fence = f
DrainHeld(r) ==
    \/ \E i \in by_request(r) : actions[i].drain
    \/ \E i \in Ids : taken[i] # None /\ taken[i].drain /\ task[i].req = r
    \/ arming.drain /\ arming.req = r

\* Mutant: each pending action emits for its request, instead of the last one.
Dropped_PerAction ==
    {<<"fence", f>> : f \in {g \in Fences : FenceHeld(g) /\ ~ FenceHeld(g)'}}
        \cup {<<"save", task[i].req>> : i \in {j \in Ids : /\ taken[j] # None /\ taken[j].drain
                                                         /\ taken'[j] = None}}

Dropped ==
    {<<"fence", f>> : f \in {g \in Fences : FenceHeld(g) /\ ~ FenceHeld(g)'}}
        \cup {<<"save", r>> : r \in {q \in Requests : DrainHeld(q) /\ ~ DrainHeld(q)'}}

----------------------------------------------------------------------------
\* Minting, on the leader's thread.

Record(r, kind) ==
    [req |-> r, kind |-> kind, terminal |-> "Pending", fence |-> 0, drain |-> FALSE,
     dropped_by_handle |-> FALSE, physical_pending |-> kind = "Load" /\ r \in bundled]

Mint(S, kind, parts, state, iteration) ==
    /\ actions' = [i \in Ids |-> IF i \in DOMAIN S THEN Record(S[i], kind) ELSE actions[i]]
    /\ task' = [i \in Ids |->
                    IF i \in DOMAIN S
                    THEN [req |-> S[i], kind |-> kind, bundle |-> S[i] \in bundled,
                          iteration |-> iteration, work |-> [p \in parts[S[i]] |-> state]]
                    ELSE task[i]]
    /\ held' = [i \in Ids |-> held[i] \/ i \in DOMAIN S]

\* local_onboard and start_bundle_onboard_with_sources: the resources of a bundle
\* are copied one after the other, so the copy is one part.
onboard(r) ==
    /\ Next1 \in Ids
    /\ Mint([i \in {Next1} |-> r], "Load", [q \in Requests |-> {CHOOSE p \in Resources : TRUE}],
            "running", 0)
    /\ inflight' = inflight \cup {Next1}
    /\ UNCHANGED <<bundled, cell, taken, arming, evictions, offload_drains, msgs>>

\* buffer_offload and start_bundle_offload, for each of the requests: a part per
\* resource of a bundle, buffered until the pass of the iteration is over.
Parts(r) == IF r \in bundled THEN Resources ELSE {CHOOSE p \in Resources : TRUE}
offload(R, iteration) ==
    /\ Cardinality(R) + Next1 - 1 <= MaxActions
    /\ Mint([i \in Next1 .. Next1 + Cardinality(R) - 1 |->
                CHOOSE r \in R : Cardinality({q \in R : q <= r}) = i - Next1 + 1],
            "Save", [r \in Requests |-> Parts(r)], "buffered", iteration)
    /\ offload_drains' = offload_drains \cup R
    /\ UNCHANGED <<bundled, cell, taken, arming, evictions, inflight, msgs>>

----------------------------------------------------------------------------
\* The arming loops, on the leader's thread.  The ids are read once; each record
\* is then looked at under its own guard, between which terminals run.

evict_begin(r) ==
    /\ arming = Idle
    /\ evictions < MaxEvictions
    /\ evictions' = evictions + 1
    /\ arming' = [Idle EXCEPT !.op = "evict", !.req = r, !.todo = by_request(r)]
    /\ UNCHANGED <<bundled, actions, task, cell, held, taken, offload_drains, inflight, msgs>>

Armable(i) == i \in Tracked /\ has_pending_work(i)
evict_arm(i) ==
    /\ arming.op = "evict" /\ i \in arming.todo
    /\ LET arm == Armable(i) /\ actions[i].fence = 0 IN
       /\ actions' = IF arm THEN [actions EXCEPT ![i].fence = evictions] ELSE actions
       /\ arming' = [arming EXCEPT !.todo = @ \ {i}, !.fence = IF arm THEN evictions ELSE @]
    /\ UNCHANGED <<bundled, task, cell, held, taken, evictions, offload_drains, inflight, msgs>>

\* take_offload_drain with its commit; the loop's own clone exists from the start.
commit_begin(r) ==
    /\ arming = Idle
    /\ r \in offload_drains
    /\ offload_drains' = offload_drains \ {r}
    /\ arming' = [Idle EXCEPT !.op = "commit", !.req = r, !.todo = by_request(r), !.drain = TRUE]
    /\ UNCHANGED <<bundled, actions, task, cell, held, taken, evictions, inflight, msgs>>

commit_arm(i) ==
    /\ arming.op = "commit" /\ i \in arming.todo
    /\ LET arm == Armable(i) /\ ~ actions[i].drain IN
       actions' = IF arm THEN [actions EXCEPT ![i].drain = TRUE] ELSE actions
    /\ arming' = [arming EXCEPT !.todo = @ \ {i}]
    /\ UNCHANGED <<bundled, task, cell, held, taken, evictions, offload_drains, inflight, msgs>>

\* release_action of each handle of H, then release_search of each proposal of P.
\* A record in use stays until its terminal; the key of a load is cleared with the
\* record of a bundle and with the proposal otherwise.
Leaves(H) == {i \in H \cap Tracked : ~ must_retain_after_handle_drop(i)}
ByAction(S) == {i \in S : task[i].bundle}
release(H, P) ==
    /\ actions' = [i \in Ids |-> IF i \in Leaves(H) THEN None
                                 ELSE IF i \in H \cap Tracked
                                      THEN [actions[i] EXCEPT !.dropped_by_handle = TRUE]
                                      ELSE actions[i]]
    /\ held' = [i \in Ids |-> held[i] /\ i \notin H]
    /\ inflight' = inflight \ (ByAction(Leaves(H)) \cup (P \ ByAction(P)))

----------------------------------------------------------------------------
\* The terminals, on the driver tasks.  The record is updated and its clones are
\* taken under the guard; the sink is called, the clones dropped and the record
\* removed after it.

Take(i, load) ==
    [fence |-> actions[i].fence, drain |-> actions[i].drain, load |-> load,
     remove |-> actions[i].dropped_by_handle]
Suppressed(i) == actions[i].fence # 0 \/ actions[i].drain
Written(i) == [cell EXCEPT ![i] = @ \/ held[i]]

\* finish_load_action of an ordinary load, when its copy is over.
finish_load_action(i) ==
    /\ i \in Minted /\ task[i].kind = "Load" /\ ~ task[i].bundle /\ Touching(i)
    /\ task' = [task EXCEPT ![i].work = [p \in DOMAIN @ |-> "over"]]
    /\ IF i \in Tracked
       THEN /\ cell' = Written(i)
            /\ actions' = [actions EXCEPT ![i].terminal = "Settled", ![i].fence = 0, ![i].drain = FALSE]
            /\ taken' = [taken EXCEPT ![i] = Take(i, ~ Suppressed(i))]
       ELSE /\ taken' = [taken EXCEPT ![i] =
                            [fence |-> 0, drain |-> FALSE, load |-> TRUE, remove |-> FALSE]]
            /\ UNCHANGED <<actions, cell>>
    /\ UNCHANGED <<bundled, held, arming, evictions, offload_drains, inflight, msgs>>

\* finish_load_action of a bundle load: its copy is over or panicked, its watchdog
\* fired, or its handle went.  The record keeps its clones.
finish_bundle_load(i) ==
    /\ i \in Tracked /\ actions[i].physical_pending /\ actions[i].terminal = "Pending"
    /\ cell' = Written(i)
    /\ actions' = [actions EXCEPT ![i].terminal = IF Suppressed(i) THEN "Settled" ELSE "Deferred"]
    /\ UNCHANGED <<bundled, task, held, taken, arming, evictions, offload_drains, inflight, msgs>>

\* The physical task of a bundle load ends; after a panic nothing is known of the copy.
PhysicalEnds(i, how) ==
    /\ i \in Minted /\ task[i].kind = "Load" /\ task[i].bundle
    /\ \E p \in DOMAIN task[i].work : task[i].work[p] = "running"
    /\ task' = [task EXCEPT ![i].work = [p \in DOMAIN @ |-> how]]
    /\ UNCHANGED <<bundled, actions, cell, held, taken, arming, evictions, offload_drains, inflight, msgs>>

finish_physical_load_action(i) ==
    /\ i \in Tracked /\ actions[i].physical_pending /\ actions[i].terminal # "Pending"
    /\ ~ Touching(i)
    /\ actions' = [actions EXCEPT ![i].physical_pending = FALSE, ![i].terminal = "Settled",
                                  ![i].fence = 0, ![i].drain = FALSE]
    /\ taken' = [taken EXCEPT ![i] = Take(i, actions[i].terminal = "Deferred" /\ ~ Suppressed(i))]
    /\ UNCHANGED <<bundled, task, cell, held, arming, evictions, offload_drains, inflight, msgs>>

\* finish_offload_child, with finish_save_action when it is the last part; a part
\* also ends so when its submission fails.
finish_offload_child(i, p) ==
    /\ i \in Minted /\ task[i].kind = "Save" /\ p \in DOMAIN task[i].work
    /\ task[i].work[p] = "running"
    /\ task' = [task EXCEPT ![i].work[p] = "over"]
    /\ IF i \in Tracked /\ \A q \in DOMAIN task[i].work \ {p} : task[i].work[q] = "over"
       THEN /\ cell' = Written(i)
            /\ actions' = [actions EXCEPT ![i].terminal = "Settled", ![i].fence = 0, ![i].drain = FALSE]
            /\ taken' = [taken EXCEPT ![i] = Take(i, FALSE)]
       ELSE UNCHANGED <<cell, actions, taken>>
    /\ UNCHANGED <<bundled, held, arming, evictions, offload_drains, inflight, msgs>>

\* The rest of a terminal: the sink, the clones, remove_action_record.
Settle(i) ==
    /\ taken[i] # None
    /\ taken' = [taken EXCEPT ![i] = None]
    /\ LET gone == IF taken[i].remove THEN {i} \cap Tracked ELSE {} IN
       /\ actions' = [j \in Ids |-> IF j \in gone THEN None ELSE actions[j]]
       /\ inflight' = inflight \ ByAction(gone)
    /\ UNCHANGED <<bundled, task, cell, held, arming, evictions, offload_drains>>
    /\ msgs' = msgs \cup Dropped \cup (IF taken[i].load THEN {<<"load", task[i].req>>} ELSE {})

\* Mutant: everything buffered is submitted, whatever pass it belongs to.
flush_offloads_All(iteration) ==
    task' = [i \in Ids |->
        IF i \in Minted
        THEN [task[i] EXCEPT !.work = [p \in DOMAIN @ |-> IF @[p] = "buffered" THEN "running" ELSE @[p]]]
        ELSE task[i]]

\* flush_offloads submits what was buffered for the pass or for an earlier one.
flush_offloads(iteration) ==
    task' = [i \in Ids |->
        IF i \in Minted /\ task[i].iteration <= iteration
        THEN [task[i] EXCEPT !.work = [p \in DOMAIN @ |-> IF @[p] = "buffered" THEN "running" ELSE @[p]]]
        ELSE task[i]]
=============================================================================
