# A TLA+ verification of kvbm

kvbm manages blocks of KV cache for LLM inference: it keeps them in a logical
store per memory tier, moves them between tiers, finds them on other
instances, and tells a central hub who holds what. This directory models the
parts of it where threads, messages and failures meet, checks them with TLC
and proves the core for every instance size with TLAPS.

The source is the reference. Every definition that models code names its
lines in `PROJECT.json` ("map"); names follow the source where TLA+ allows it.
An action is one critical section, one handler or one step of a task between
two suspension points. Definitions whose name has a suffix after `_`
(`Owns_AnyWeak`, `sweep_EvalQueue`) beside a definition without it are
deliberate errors: each property is shown to fail when the definition of the
same name is replaced by one of them.

## The system and its parts

| Part | State | Operations | What makes it hard |
|---|---|---|---|
| Block store (`kvbm-logical/src/pools`, `blocks`, `manager`) | slots with a state, hash, generation and tenure epoch; reset pools split by a ceiling; active and inactive index; handles counted by `Arc` | allocate, stage, complete, register, match, scan, release, resize, fence | the last drop of a handle decides outside the lock; duplicates keep primaries alive; lookups resurrect blocks |
| Lineage holds, rebind, exact reclaim (`pools/store/*`) | preflights, holds, rebind plans, names and plans of reclaim | preflight/hold/commit/abort, prepare/commit, name/refresh/execute | tokens age while the store goes on (ABA) |
| Inactive backends | order and tree of cached blocks | insert, evict, take | pure data structure; policy |
| Registry, events, sequences (`registry`, `events`, `sequence`, `integrations`) | presence, announcements, assignment of blocks to a request | register, announce, schedule, revert | announcements leave after the lock |
| Offload pipeline (`kvbm-engine/src/tiering/offload`) | transfers, commitment gates, queues, batches, executors, pending claims | enqueue, evaluate, await, batch, commit, copy, chain, cancel, shut down | cancellation races commitment in every stage; copies whose end is unknown |
| Tiering engine (`tiering/engine`) | load and save actions per request, eviction fences, drains, buffered offloads | find, onboard, offload, evict, drain, flush | terminals race the loops that arm fences and drains |
| G2 capacity (`g2_capacity`) | shared capacity of resources, routes | reserve, reclaim, stage | admission against pressure |
| Peer sessions, remote search, conditional disaggregation (`p2p`, `remote`) | sessions, availability, pulls, deadlines | open, publish, pull, detach, commit | two sides, messages, timeouts |
| Leader, workers, collectives (`leader`, `worker`, `collectives`) | dispatched operations and their completions | dispatch, complete | partial failure of a group |
| Hub registration (`kvbm-hub/src/registration`, `registry`, `server/heartbeat.rs`) | registry entry and incarnation, credential, feature managers | register, roll back, restore, unregister, evict, revoke | removals at any moment of a transaction |
| Bundle directory (`features/indexer/bundle`) | advertisements, retirements, expiry history, owner authority | publish, query, invalidate, expire, stage, bind, finalize, remove | generations restart with each registration; capacities |
| Tier placement (`kvbm-protocols/src/tier_protocol`, `features/indexer/tier_placement`) | publisher's sequence, snapshots; hub's projection | seal, snapshot, apply, install, request | two planes that overtake each other, loss |
| Hub index, prefill router, control plane (`features/*`) | block index, breakers, modules | ingest, select, execute | stale load, failing workers |
| Consolidator (`kvbm-consolidator`) | sources per hash | store, remove, clear | several sources announce one block |
| Connector (`kvbm-connector`) | request slots, drain holders, worker completions | match, allocate, evict, build metadata, report, finish | blocks are reused while transfers read or write them |
| Service and client (`kvbm-service`, `kvbm-client`) | leases, pools | acquire, release, shut down | disconnects |
| Physical, kernels, memory (`kvbm-physical`, `kvbm-kernels`, `kvbm-memory`) | layouts, registrations, notifications, arenas | plan, copy, notify, allocate | completion polling; CUDA and NIXL |
| Protocols, configuration, observability, Python bindings | data types | parse, format | none of its own |

The store is the center: the offload pipeline reads blocks of one store and
registers copies in another, holds, rebind and reclaim are its pressure
operations, sequences assign its blocks to requests, the connector's engine loads
into and saves from the blocks of vLLM through it, sessions pin blocks of it for
other instances, the tier-placement stream and the bundle directory publish what it
holds, and hub registration decides under which identity an instance may
publish.

`PROJECT.json` lists the components with their status, and the hazards of the
modelled parts with the line where each bites and the properties that cover it.

## Modules

| Module | Models | Notes |
|---|---|---|
| `BlockStore` | the store mutex and what races with it | `StoreInv` is its inductive invariant |
| `BlockStorePoolProofs`, `BlockStoreArcProofs`, `BlockStoreProofs` | theorems about `BlockStore` | see Proofs |
| `Lineage` | parent relation and complete lineages | shared by the next and by `ExactReclaim` |
| `LineageHold`, `Rebind`, `ExactReclaim` | the pressure operations on the store | tokens that outlive a critical section |
| `Pressure` | the three operations composed over one `BlockStore` | every store action interleaves |
| `RequestSequence` | the blocks of a request over a shared manager | deferred registration, detachment, preemption |
| `SchedulableSequence` | the two-phase scheduler on top of it | schedule, apply, revert |
| `Offload` | transfers through chained pipelines | |
| `OffloadStageProofs`, `OffloadProofs` | theorems about `Offload` | see Proofs |
| `OffloadRefinement` | `Offload` implements `TransferOutcome` | see Proofs |
| `TransferOutcome`, `TransferOutcomeProofs` | what a transfer handle promises | implemented by `Offload`; proved |
| `ConnectorEngine` | actions, fences and drains of the tiering engine | |
| `Connector` | leader, flush and worker of the vLLM connector | composed with `ConnectorEngine` |
| `Session` | both ends of a peer session | |
| `TransferSession` | publication and pull of a transfer over a session | composed with `Session` |
| `OwnerAuthority` | the staged authority of an owner | shared by the next two |
| `BundleDirectory` | advertisements and retirements of bundles | |
| `BundleDirectoryProofs` | theorems about `BundleDirectory` | see Proofs |
| `HubRegistration` | the registration transaction of one instance | composed with `OwnerAuthority` |
| `TierPlacement` | publisher, two message planes, hub projection | |
| `MC*` | model values, small structures and symmetry for TLC | |

### BlockStore

`state[b]`, `hashOf`, `innerOf`, `generation`, `inactive_epoch` and
`reset_on_release` are `BlockSlot` and `SlotState`; `free` and `fenced` are the
two reset pools; `inactive` and `active_by_hash` the indexes. A guard
(`MutableBlock`, `CompleteBlock`) is `guard[b]`. An `ImmutableBlockInner` is an
element of `Inners` with a `phase`: its strong count reaches zero in one step
(`dropping`) and `Drop::drop` takes the store lock in a later one, so every
lookup may run in between and find a `Primary` slot whose `Weak` is dead; a
duplicate has a third phase in which only its keepalive of the primary is
left. Presence marks are owed (`unmarked`, `pendingAbsent`) until the thread
that left the lock makes them. Eviction victims are any inactive blocks, so the
results hold for every backend and policy.

`LookupAll` is one critical section that finds a set of hashes; registration is
per item, as the code takes the lock per block. A failing request leaves the
store unchanged and is a stutter.

### LineageHold, Rebind, ExactReclaim, Pressure

Each adds its tokens to the store's variables; `Pressure` interleaves the actions
of all three with the store's. The operation that does not move watches the
store (`Watch`, `WatchPlans`, `Written`). `LineageHold` keeps the preflight with the tenure epochs it
saw, the open holds and the undelivered notices. `Rebind` adds what the bytes of
each slot are, so that `ContentIntegrity` can speak of the copy made between
`prepare` and `commit` (the copy itself is the caller's). `ExactReclaim` keeps
names (bound to a generation) and fresh plans (bound to epochs and to the size
of the reset pool).

### Offload

A transfer has a commitment gate (`phase`, `outstanding_units`) and one position
`at[t][p]` per pipeline or remote route p: queue, evaluator, awaiter, batch
collector, channel, executor, copy. Policies and preconditions pass or fail
freely. `upgrade_batch` claims the commitment or loses it to `request`, and finds any of
its blocks gone: sources may be enqueued as weak blocks, and those of a downstream
pipeline always are;
`release_unit` is every way a route may end; `DropContainer` is the Rust drop of a
container that a closed channel or a failing task lets go. A copy ends proven,
failed or unproven; unproven copies keep their buffers and their unit for ever
(`retain_unproven`). The watcher of a transfer marks the queues after a won
cancellation and clears its marker at the end.

Abstractions: a batch holds one container; the object executor is a local
executor without chaining; the wake-up protocol inside `CancellableQueue` is
below the grain of the model.

`TransferOutcome` is the abstract specification: per transfer one decision between
cancellation and commitment, guards held or not, faults, one result and a
confirmation. A commitment may find nothing left to hold. `Outcome` in `Offload` is the refinement mapping; `decision` is the
phase of the commitment gate and `live` says whether units are outstanding.

### RequestSequence, SchedulableSequence

`pool` is the block manager as its callers see it: what each slot contains, which
slot is primary for a hash, and the duplication policy. `req[r]` holds the
blocks of a request as the code does, unassigned, staged, registering and
assigned in sequence order; a slot named by nobody is free. Deferred
registration takes blocks out (`taken`), runs elsewhere and installs `results`
later, while the sequence goes on or is released. `register_staged` does not wait for
blocks in registration elsewhere: it assigns its own first (`overtook` is history for the
order of the pages), and under the rejecting policy it keeps the id of a rejected
duplicate, over which `install_registered` may panic later (`panicked`): the sequence goes
down with its guards and the other thread goes on. `sched[r]` is the state of
`SchedulableSequence` with its two positions; `before` is history for
`RevertRestores`. Token values do not matter: two requests with the same tokens
have the same hashes.

### ConnectorEngine, Connector

`actions[i]` is the `ActionRecord` of an action; `task[i]` is what its driver
tasks know, with one part per resource of a bundle; `cell` and `held` are the
completion cell and the life of the handle. A `FenceBarrier` or `DrainBarrier` is
an `Arc` whose last drop calls the sink: clones live in records, with a
terminal that has taken them (`taken`) and in the loop that arms them
(`arming`), and `Dropped` is the set of calls a step's drops make. `evict` and
`arm_drain_emission` read the ids once and lock each record on its own, so they
are a begin, one step per record, and an end; a terminal is a step under the
record's guard and a step after it (`Settle`). A bundle load has two ends, the
logical one (copy over, watchdog, or handle dropped) and the physical one.

`Connector` is `LeaderState` (a call at a time), the flush task of the leader
with its `StrandMark`, the frames to the worker and the worker's completion state.
`schedule` and the freeing of blocks are vLLM's: a preempted request's blocks may
be written by the pass of the same frame, those of a finished one by that of the
next. A request preempted while it loads is only ever aborted, as vLLM does.
`overrun` and `cut` are history for the two conditions below.

### Session, TransferSession

`end[s]` is `VeloSessionInner`; both ends run the same actions. `queue[s]` holds the
frames of an end in order; the connection may break (`lost`), after which
frames go nowhere. `attach` is how far an end is with the stream to its peer: resolving,
attached to the peer's anchor, installed, or dropped because the session closed or a step
failed after the stream was up. The reader of a dropped stream sees it fail as it would
see a broken connection (`StreamBroken`). `closer[c]` is how far a caller of `close` is: it marks
the end, seals it, and releases the pins when no authorized pull is in flight (the
quarantine).
`TransferSession` adds the populator that commits and publishes batches, the
manager's watcher, and the pull transaction `stage` of the other instance.

### TierPlacement

The publisher's sequencer keeps sequence numbers, a pending snapshot and
retained ops; batches and snapshots are sets of messages in flight, so any may
be lost, late or repeated. The hub applies a batch only if it continues what it
has, otherwise drops the projection and requests a snapshot at a limited rate.
Ops name exact keys; whether the installed manifests cover an interval (`resolved`), and
whether a snapshot meets the limits on manifests and on projected instances, is a free
choice. `bumps` says whether a block that comes back to the tier gets a higher placement
generation; both are explored. Registration hooks stage, commit, roll back and remove; a
commit, and the restoration of a previous registration, forget the projection and with it
the generation installed (`forgotten` is history). The producer loop is not
in the repository: it is bound by the sequencer's documented contract. When
its buffer overflows, the oldest ops are dropped, so what is retained is a
suffix of what was done.

### OwnerAuthority, BundleDirectory

`OwnerAuthority` is the three-step authority of an owner: staged (invisible),
bound to an incarnation, finalized by the registration hook. `BundleDirectory`
adds advertisements with leases, retirements with their bounded allowance for
absent bundles, and the history of expired advertisements, under one clock.

### HubRegistration

`calls[c]` is the program counter of a request through `register_instance`, its
rollback and restore, or `unregister_instance`; `removals` are registry removals
whose callback has not yet run, because the registry calls it after its lock;
`Evict` is a stale or unresponsive entry removed by the registry or heartbeat.
Every feature hook may fail. `state` is the credential.

## Runs

All bounds are named constants in the `.cfg` files. "Quiet" stops caused by
exhausted bounds are not deadlocks of the program; those runs say
`CHECK_DEADLOCK FALSE`.

| Run | Checks | Shows | Bounds |
|---|---|---|---|
| `store` | `StoreInv`, `PresenceExact`, `UnreferencedLeavesActive` | the store's safety, and that an unreferenced hash leaves the active index | 1 hash, 2 slots, 2 handles: one primary, one duplicate, resize, fence |
| `pressure` | `PressureInv`, `HeldOnlyReleasedByHold`, `HitRevokesPreflight`, `HolderKeepsHash`, `HitRevokesPlan`, `NoOrphanAfterReclaim` | tokens own what they claimed and never act on a block used since; holds strand nothing; no commit registers foreign bytes; reclaim leaves no orphan | root and leaf, 2 slots, 2 handles, 2 generations and tenures; one operation with tokens outstanding at a time |
| `sequence` | `SequenceInv`, `PagesSound`, `RevertRestores` | a writable page has one holder, a scheduled pass has its pages, `page_indices` names pages that the request holds, in order unless a registration was overtaken, `install_registered` panics over kept ids only, a revert restores | 2 requests with equal tokens, 3 slots of 2 tokens, both duplication policies |
| `offload_contention` | `OffloadInv`, `CancelConfirms` | units, claims and markers are exact; cancellations are confirmed | 2 transfers with a common hash, one pipeline |
| `offload_chain` | `ImplementsOutcome`, `CancelledNeverCommits`, `UnprovenStaysOpen`, `EveryTransferSettles` | the pipelines implement `TransferOutcome`; unproven copies keep a transfer open; every other settles | 1 transfer, a chained pipeline and the remote route |
| `connector` | `ConnectorInv`, `NoPassOverTransferUnlessOverrun`, `SendingIsAwaitedUnlessCut`, `EveryDrainEnds` | no pass writes blocks a transfer touches; finished_sending comes once and while awaited; records and deferrals are neither lost nor left; saves read computed blocks; drains and fences end | 1 request of either cache, 2 actions, 1 eviction, 3 frames of which 2 ahead, 1 panic or unconfirmed pass |
| `connector_overrun` (violation) | `NoPassOverTransfer` | a pass runs over the copy of a load whose watchdog fired | as `connector`, no fault |
| `transfer_session` | `TransferInv`, `PullIsCompleteUnlessBroken`, `PullReturns`, `QuarantineEnds` | no block is read after its pin is gone, a sealed snapshot is whole, a pull returns and returns what it promised, the quarantine ends | 2 hashes, up to 2 batches, four callers of close of which two at once, attaches given up at each step, a broken connection |
| `tier_placement` | `TierInv`, `ReplayReachesResidency`, `BurnIsNoticed`, `NoDeltaOutrunsSnapshot`, `ValidNeverRewinds` | the projection stays a state that the stream leads to residency from, losses are noticed, it never rewinds, a batch outruns its snapshot only after that was given up | 2 keys, 2 registrations, `MaxWork` changes, batches, snapshots and registrations in all |
| `tier_stale_install` (violation) | `ValidIsOfRegistration` | a snapshot authorized under an old registration is installed after the new one | as `tier_placement`, 1 key |
| `bundle_directory` | `HitsAreCurrent`, `DirectoryInv`, `FreshOwnerUnfenced`, `NoAdvertisementLost` | queries answer with current generations; rollback loses nothing; capacities are exact and never block a removal | 1 owner with room for 1 advertisement and 1 absent retirement, 3 keys, 2 registrations |
| `hub_registration` | `RegistrationInv`, `CredentialMatchesRegistry`, `NoTraceAfterDeparture`, `ActiveIsWhole`, `BusyEnds` | requests are serialized; when quiet, credential, registry and managers agree; busy credentials become free | 2 requests, 2 registrations, 2 features, a backend that may fail |

The invariants ending in `Inv` are conjunctions whose parts are named and
commented in the module: `StoreInv`, for example, contains the type invariant,
`LiveArcOwnsSlot` and `DuplicatePinsPrimary`.

The bounds are enough for the case each property is about: two tenures and
generations give ABA on a slot, two handles a primary and its duplicate, two
slots a newer copy of a leaf beside a held one, two transfers a contended hash,
two routes a last and a not-last unit, three keys an identity beyond the
capacity of two, two requests of an instance a retry, two actions a first and a
last drain of a finishing request or a save of one generation and a load of the
next, and two frames ahead a pass that may overtake a terminal. An
advertisement may outlive the retention of a retirement (`AdTtl` > `LeaseTtl`):
with equal lifetimes the retirement check of a query would hide what `publish`
let through.

Bounds that are not a constant of a `.cfg`:

- `pressure` lets one of the three operations hold tokens at a time (`MaxAtWork`
  = 1). With two at a time the same properties hold over 1,672,984 states, but
  that instance takes nine minutes and is not one of the runs. Its `VIEW` leaves
  the registry's counters out, which only `MarkAbsent` reads; `PresenceExact` is
  checked by `store`.
- `bundle_directory` lets one key at a time get past its first generation
  (`Regenerated` in `MCBundleDirectory`).
- `hub_registration` does not combine overlapping requests with a failed backend
  (`DisturbanceBound`); each is explored alone.
- `tier_placement` weighs a registration like several changes (`Work` in
  `MCTierPlacement`), so that one registration has a long stream, a rolled-back second one
  a shorter one, and two adopted ones a short one. Keys are symmetric. With three for every
  registration and `MaxWork` = 10 the same properties hold over 5,461,866 states, which
  takes six minutes and is not one of the runs; only there can a late snapshot of an
  earlier registration and a superseded push of the new one both be installed.
- `connector` has one tracked request; other requests appear only as passes that
  may write freed blocks. Records, fences and drains are kept per request, and
  the only thing requests share, the deferral of a load by another's load of the
  same hashes, is in `gnmt`. Two tracked requests gave 4.5 million states, too
  many to check their liveness in a run.

### Fairness

- `store`: weak fairness of drops that have begun (a thread inside
  `Drop` finishes). Requests are not fair.
- `offload_contention`, `offload_chain`: weak fairness of each task's step per
  transfer and pipeline: the runtime polls ready tasks, and copies end or are
  declared unproven.
- `hub_registration`: weak fairness of handlers that have begun and of removal
  callbacks, which run on the thread that removed the entry.
- `transfer_session`: weak fairness of the tasks of both ends together; an attach that
  has begun ends, by installing its stream or by giving it up. A break of the
  connection and the request to close are not fair.
- `connector`: weak fairness of the tasks, the leader's calls once begun, the
  worker and the reports together. New requests, schedules, preemptions,
  finishes and faults are not fair. Fairness of a disjunction is weaker than
  fairness of each disjunct, so what holds under it holds under the runtime's.

## Proofs

`BlockStoreProofs` proves, for every number of slots, hashes, handles and every
bound, from `StoreConstants` alone:

- `StoreSafety`: `StoreSpec => []StoreInv`;
- `StoreTypeCorrect`, `PoolAccounting`, `IndexConsistency`, `HoldersKeepBlocks`,
  `GuardsAndOverrides`: the checked properties that follow from it.

No safety property of the store is inductive alone. That a live handle owns its
slot needs the index to be exact (a lookup reaches a slot only through it),
which needs every `Primary` or `Duplicate` slot to have an object behind it,
which needs the counts of references and keepalives to agree with phases, which
needs guards to own their slots. `StoreInv` is this conjunction. Its
preservation is proved in layers, each a module that extends the ones it cites:

1. `BlockStorePoolProofs`: frame lemmas (what a step must leave alone for a part of
   the invariant to survive), the requests of guards, pools, resize and fence,
   which touch no object, and what a lookup finds, binds and overtakes;
2. `BlockStoreArcProofs`: clones, drops, the references lookups return, and the
   release of an object to either pool;
3. `BlockStoreProofs`: registration of the first block of a hash and of a duplicate;
   it joins them per action of `StoreNext`.

Leaves that only rewrite records and functions cite `Zenon`, which needs no
arithmetic and does not depend on the machine's speed; the others go to SMT.

`TransferOutcomeProofs` proves `OutcomeSafety`, `OutcomeSpec => []OutcomeInv`, for
every set of transfers: a result is true of what happened, nothing is held behind
it, and a confirmed cancellation is over. Faults and unproven work have to be
tied to committed transfers for this to be inductive.

The offload pipelines are proved from `OffloadConstants` alone, for every set of
transfers, hashes and local routes, with and without the remote one, and for every
limit of queues, awaits and permits:

- `OffloadInduction`: `OffloadSpec => []PipelinesInv`, the inductive invariant;
- `OffloadSafety`, `CancellationExcludesCommitment`, `UnprovenKeepsGuards`: the
  invariants `OffloadInv`, `CancelledNeverCommits` and `UnprovenStaysOpen` of the runs;
- `OffloadImplementsOutcome`: `OffloadSpec => ImplementsOutcome`, the refinement;
- `HandlesKeepPromises`: with `OutcomeSafety`, every handle of the engine keeps the
  promises of the contract.

The assumption that the routes are finite was added to `OffloadConstants` for the
proofs (a router keeps them in a vector): without it the count of units means
nothing.

None of the three invariants is inductive. That a cancelled transfer never
commits needs to know what the gate had decided when a container entered each
stage; that a confirmed transfer holds nothing needs the payload of a container to
be gone before its unit is; that the last unit publishes needs the containers of
a transfer to come and go in order. `PipelinesInv` says this of every container,
stage by stage: what it carries (`PayloadOK`), what the gate has decided (`VerdictOK`),
what the handle may show (`ResultOK`); and of every transfer: the routes start when
the root container is done (`RootFirst`), the container that publishes is the last
one (`Alone`), nothing happens before the submission (`Untouched`), and the result is
out before the last unit goes and tells of every recorded fault (`Told`). TLC checked
`PipelinesInv` on the instances of `offload_contention` and `offload_chain` before it
was proved.

The proof does not go action by action through the whole invariant. Every step is
shown to be of one of a few kinds, and the invariant and the refinement are proved
per kind (`StepKinds`):

1. `OffloadStageProofs`: a container at work moves one container and keeps its unit
   (`Advances`), publishes the result (`Announces`), or gives its unit back (`Retires`);
   what each leaves of the other containers and transfers is proved once. Moves
   between queues and dropped payloads are the simple cases of the first. Then
   evaluation, commitment, dispatch, completion, failure and chaining are shown to be
   containers at work.
2. `OffloadProofs`: `enqueue`, `request`, `FanOut`, `shutdown` and the watchers, the kinds
   of steps, and the theorems.
3. `OffloadRefinement`: what a handle shows of a transfer (`SameView`, `OneView`), each
   action of `TransferOutcome` in these terms, and the step of the contract that
   each kind of step makes. A container at work commits, retains, faults or changes
   what is held; that only a committed transfer comes to hold new guards
   (`HoldGrows`), and that retained work still holds its own (`RetainedHolds`), is where
   the invariant is needed.

The bundle directory is proved from `DirectoryConstants` alone, for every finite set of
keys and owners, every capacity, lifetime and bound. The theorems are about
`DirectorySpec`, without the restriction of generations that the run makes (`MCSpec`):

- `DirectoryInduction`: `DirectorySpec => []DirectoryIInv`, the inductive invariant;
- `DirectoryHits`, `DirectoryFresh`, `DirectorySafety`: the invariants `HitsAreCurrent`,
  `FreshOwnerUnfenced` and `DirectoryInv` of the run;
- `DirectoryLosses`: its action property `NoAdvertisementLost`.

That the keys and owners are finite was added to `DirectoryConstants` for the proofs:
the capacities count them. `DirectoryIInv` has three parts that hardly meet:

1. The indexes are in order (`DirOK`). The counter of absent retirements of each owner
   is the number of its entries whose source is absent, and `Room`: advertisements and
   retirements together, an identity that has both counted twice, stay within the
   capacity of identities. `ensure_new_identity` keeps this for new identities; a
   retirement of a live advertisement moves one entry from one index to the other.
   A live advertisement therefore always leaves room for its retirement
   (`NeverBlocked`), which is why a removal is never blocked and why it does not matter
   that `remove_owner` looks at the capacity before each of its retirements and
   `RetireAll` once for all.
2. The owner is in a state of its registration (`Registers`): a pending transition
   belongs to the transaction under way and remembers the authority before it, so that
   a rollback finds that authority again.
3. The history of invalidations fences each identity (`Fences`), under the authority
   whose records the directory holds (`Held`), which is the hidden one while a
   transition is pending: what is still fenced is covered by a retirement until the same
   time at least and is not advertised, and every retirement comes from an
   invalidation under this authority. That invalidations belong to registrations
   before the one under way is what lets the next authority start without fences.

What each operation does to the indexes is a lemma about values (`pruneEffect`,
`retire_absentEffect`, `retire_liveEffect`, `RetireAllEffect`, ...), and what it does to
the history one about a single identity (`FencesPublish`, `FencesInvalidate`, ...); the
lemma of an action puts the two together. TLC checked `DirectoryIInv` on the instance of
the run and on one with two owners (475,156 states) before it was proved.

Only model-checked: `PresenceExact` (a cardinality over owed marks), every
liveness property (outside the prover's reach), the pressure operations, and the
sequence, session, connector, registration and tier-placement modules.

## Where code and text disagree

Two runs end in a violation on purpose; `PROJECT.json` quotes the lines.

1. `connector_overrun`: the comment of `OnboardHandle::physical_drain` says the
   connector gates the reuse of destination blocks on it. The connector never
   takes that fence: `request_finished` asks for the logical terminal, which a
   bounded watchdog may give while the copy still runs. Evictions are not
   affected; `evict` arms the record until its physical end.
2. `tier_stale_install`: the indexer manager checks the owner's epoch under one
   lock and installs the snapshot under another.

The passing properties are stated with the condition under which they hold. What
happens outside the condition TLC shows when the condition is taken away; the last
three were found in the same way or by reading, and no property speaks of them:

- `SendingIsAwaitedUnlessCut`: a request that finishes while it loads, with a save of
  an earlier generation already terminal, has its drain armed record by record;
  the load's terminal may come before its record is armed, so that
  `finished_recving` is reported and the drain emits `finished_sending` as well. The
  comment in `driver.rs:422` says why the two must not both surface.
- `EveryDrainEnds`: a frame fenced on a buffered save whose pass was never confirmed
  waits for the flush of a later pass, which waits for that frame.
- `ActiveIsWhole`: a failed registration gives up its credential before it cleans
  up the feature managers; a retry that succeeds in between loses its features.
- `CredentialMatchesRegistry`: the rollback of a registration reserves an incarnation
  it read earlier, without looking at removals recorded since: the reservation outlives
  its entry when a registry backend failed to unregister or two requests overlapped.
- `PullIsCompleteUnlessBroken`: when the connection breaks, or the holder gives up an attach
  whose stream is up, the commit stream just ends, and a pull of everything may succeed
  with less than the holder committed.
- `NoDeltaOutrunsSnapshot`: once the hub has forgotten the generation it had installed, a
  superseded push can install an older snapshot of the same registration; the next batch
  invalidates it.
- `PagesInOrder`: `register_staged` while older blocks are in registration puts them behind
  newer ones.
- `ResultsMatch`, `PanicsOverKeptId`: `install_registered` panics when the
  canonical block of a result has the id that `register_staged` kept for a duplicate.
- `OwnPages`: when duplicates are rejected, `page_indices` may list a slot the
  request no longer holds.
- A lineage hold decides under the lock that no newer copy of its leaf exists and
  announces the removal after it; a copy registered in between is announced as
  removed.
- `apply_prefill` and `apply_decode` register a block before the KV of its last
  token is computed.
- `available_blocks` counts cached blocks that `allocate_blocks` will not use after
  the ceiling was lowered.

## Not modelled

Without protocol state of its own or outside this method: CUDA kernels, NIXL,
NCCL, pinned and NUMA memory, S3 requests, configuration, metrics, generated
clients, Python bindings, layout detection, transfer plans and calibration, which
are arithmetic. Most lines of the repository are of this kind, are tests (the
engine and connector keep theirs in the same files), or build, serialize and log.

In the modelled parts: the outcome of a load or a save in `ConnectorEngine` (a failed
transfer takes the same path), the loss of a call of the sink to a worker (the
code logs it), the shutdown of the engine; the object executor and the wake-up
protocol of `CancellableQueue` in `Offload`; the order and policies of the inactive
backends; startup from a persistent registry and the probe counters of the
heartbeat in `HubRegistration`; discovery and serialization of peer sessions.

With protocol state, and left for later work: the bundle catalogue of the engine
and its publication to the hub; remote search and its reconciliation, conditional
disaggregation on top of sessions; G2 capacity over `ExactReclaim`; the prefill
router; the consolidator; leases and shutdown of the service; batching of
registry events. A proof that the pressure operations keep `StoreInv` would come next.
