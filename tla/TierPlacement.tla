---------------------------- MODULE TierPlacement ----------------------------
(***************************************************************************)
(* The tier-placement advisory stream: one publisher's sequencer           *)
(* (kvbm-protocols) and the hub's projection of it (kvbm-hub indexer).     *)
(*                                                                         *)
(* Deltas travel a lossy plane on which they may be dropped or overtaken;  *)
(* snapshots travel as HTTP requests whose request or response may be      *)
(* lost and which may be repeated.  The hub authorizes a snapshot under    *)
(* the bundle directory's lock and installs it under the projection's, so  *)
(* a registration may commit or be removed in between.                     *)
(*                                                                         *)
(* The publisher's loop is not in this repository: its steps are the calls *)
(* the sequencer offers, in the orders its contract (SealOutcome::Deferred,*)
(* mark_divergent, abandon_pending_snapshot) allows.  One (cache,          *)
(* instance) pair is modelled, projections of distinct pairs being         *)
(* independent entries of one map.                                         *)
(***************************************************************************)
EXTENDS Naturals, Sequences, FiniteSets, SequencesExt

CONSTANTS
    Keys,                 \* PlacementKeys: (hash, resource, lane, tier)
    MaxRetained,          \* ProjectionLimits.max_ready_per_instance
    BufferLimit,          \* the publisher's bounded buffer of retained ops
    MaxChanges,           \* bound: residency changes of the publisher
    MaxGeneration,        \* bound: snapshots sealed in one epoch
    MaxSeq,               \* bound: sequence numbers used in one epoch
    MaxEpoch,             \* bound: registration epochs
    MaxRepush             \* bound: repeated pushes of a sealed snapshot

ASSUME TierConstants ==
    {MaxRetained, BufferLimit, MaxChanges, MaxGeneration, MaxSeq, MaxEpoch, MaxRepush}
        \subseteq Nat

None == 0                 \* epochs, generations and sequence numbers start at 1
Burned == << >>           \* the ops of a sequence number no batch carries

VARIABLES
    bumps,                \* does a re-offloaded key get a higher generation?
    residency,            \* the publisher's tiers: key -> its placement generation
    newest,               \* the last placement generation given to a key
    changes,              \* residency changes so far
    buffer,               \* ops not yet sealed, in order
    sequencer,            \* TierPlacementSequencer of the current epoch
    sealed,               \* the last sealed snapshot, kept for a repeated push
    repushes,             \* repeated pushes so far
    deltas,               \* batches on the event plane
    pushes,               \* snapshot requests in the hub or on their way to it
    acks,                 \* snapshot responses on their way back
    requested,            \* a snapshot request is on its way to the publisher
    projection,           \* the hub's InstanceProjection, or None
    recent,               \* request stamps younger than the minimum interval
    authority,            \* owner_credentials: the epoch of the owner, or None
    transition,           \* the registration in progress at the indexer manager
    registered,           \* the manager's registered-instance set
    epochs,               \* epochs generated so far
    sent,                 \* history: the ops of every sequence number of the epoch
    abandoned,            \* history: generations given up with abandon_pending_snapshot
    forgotten             \* history: the newest generation of the epoch discarded by the hub

publisherVars == <<residency, newest, changes, buffer, sequencer, sealed, repushes>>
planeVars == <<deltas, pushes, acks, requested>>
hubVars == <<projection, recent>>
ownerVars == <<authority, transition, registered, epochs>>
historyVars == <<sent, abandoned, forgotten>>
tierVars == <<bumps, publisherVars, planeVars, hubVars, ownerVars, historyVars>>

Ops == [kind : {"Ready", "Remove"}, key : Keys, generation : 1 .. MaxChanges]
Placements == [ready : [Keys -> 0 .. MaxChanges], tombstones : [Keys -> 0 .. MaxChanges]]
NoPlacements == [ready |-> [k \in Keys |-> None], tombstones |-> [k \in Keys |-> None]]
NoProjection == [epoch |-> None]
Exists == projection # NoProjection
Idle == [phase |-> "idle"]

new(e) == [epoch |-> e, generation |-> 0, next_seq |-> 1, pending_install |-> None,
           divergent |-> FALSE]
last_seq == sequencer.next_seq - 1

TierTypeOK ==
    /\ bumps \in BOOLEAN
    /\ residency \in [Keys -> 0 .. MaxChanges] /\ newest \in [Keys -> 0 .. MaxChanges]
    /\ changes \in 0 .. MaxChanges /\ repushes \in 0 .. MaxRepush
    /\ buffer \in Seq(Ops) /\ Len(buffer) <= BufferLimit
    /\ sequencer \in [epoch : 0 .. MaxEpoch, generation : 0 .. MaxGeneration,
                      next_seq : 1 .. MaxSeq + 1, pending_install : 0 .. MaxGeneration,
                      divergent : BOOLEAN]
    /\ requested \in BOOLEAN /\ recent \subseteq {"unknown", "projection"} /\ registered \in BOOLEAN
    /\ authority \in 0 .. MaxEpoch /\ epochs \in 0 .. MaxEpoch
    /\ transition.phase \in {"idle", "staged", "registered", "bound", "dropped",
                             "restored", "owner_removed", "projection_removed"}
    /\ Exists =>
         /\ projection.epoch \in 1 .. MaxEpoch /\ projection.generation \in 1 .. MaxGeneration
         /\ projection.last_seq \in 0 .. MaxSeq /\ projection.floor \in 0 .. MaxSeq
         /\ projection.valid \in BOOLEAN /\ projection.placements \in Placements
    /\ abandoned \subseteq 1 .. MaxGeneration /\ forgotten \in 0 .. MaxGeneration

TierInit ==
    /\ bumps \in BOOLEAN
    /\ residency = [k \in Keys |-> None] /\ newest = [k \in Keys |-> None]
    /\ changes = 0 /\ buffer = << >> /\ sequencer = new(None) /\ sealed = None /\ repushes = 0
    /\ deltas = {} /\ pushes = {} /\ acks = {} /\ requested = FALSE
    /\ projection = NoProjection /\ recent = {}
    /\ authority = None /\ transition = Idle /\ registered = FALSE /\ epochs = 0
    /\ sent = [s \in 1 .. MaxSeq |-> Burned] /\ abandoned = {} /\ forgotten = None
-----------------------------------------------------------------------------
(***************************************************************************)
(* The publisher and its sequencer.                                        *)
(***************************************************************************)
Streaming == sequencer.epoch # None

AwaitingInstall_NoGate == FALSE
AwaitingInstall == sequencer.pending_install # None

mark_divergent(s) ==
    IF s.divergent THEN s ELSE [s EXCEPT !.divergent = TRUE, !.next_seq = @ + 1]
Burn(s) == IF s.divergent THEN sent ELSE [sent EXCEPT ![s.next_seq] = Burned]
CanBurn == sequencer.divergent \/ sequencer.next_seq <= MaxSeq

\* A block of the key lands in the tier or leaves it.  Its op is retained in the
\* bounded buffer; when the buffer is full the oldest op is lost, after mark_divergent,
\* so that what is retained is always the end of the op stream.
Change(k) ==
    LET g == IF residency[k] # None THEN residency[k]
             ELSE IF bumps \/ newest[k] = None THEN newest[k] + 1 ELSE newest[k]
        op == [kind |-> IF residency[k] = None THEN "Ready" ELSE "Remove",
               key |-> k, generation |-> g]
    IN  /\ changes < MaxChanges /\ changes' = changes + 1
        /\ residency' = [residency EXCEPT ![k] = IF @ = None THEN g ELSE None]
        /\ newest' = [newest EXCEPT ![k] = g]
        /\ \/ ~Streaming /\ UNCHANGED <<buffer, sequencer, historyVars>>
           \/ /\ Streaming /\ Len(buffer) < BufferLimit /\ buffer' = Append(buffer, op)
              /\ UNCHANGED <<sequencer, historyVars>>
           \/ /\ Streaming /\ Len(buffer) = BufferLimit /\ CanBurn
              /\ sent' = Burn(sequencer) /\ sequencer' = mark_divergent(sequencer)
              /\ buffer' = Append(Tail(buffer), op) /\ UNCHANGED <<abandoned, forgotten>>
        /\ UNCHANGED <<sealed, repushes, planeVars, hubVars, ownerVars>>

\* seal: while a snapshot awaits its install the ops are handed back (no step);
\* otherwise a batch of the oldest retained ops takes the next sequence number.
Seal(n) ==
    /\ Streaming /\ ~AwaitingInstall
    /\ n \in 1 .. Len(buffer) /\ sequencer.next_seq <= MaxSeq
    /\ LET ops == SubSeq(buffer, 1, n) IN
         /\ deltas' = deltas \cup {[epoch |-> sequencer.epoch, seq |-> sequencer.next_seq,
                                    generation |-> sequencer.generation, ops |-> ops]}
         /\ sent' = [sent EXCEPT ![sequencer.next_seq] = ops]
    /\ buffer' = SubSeq(buffer, n + 1, Len(buffer))
    /\ sequencer' = [sequencer EXCEPT !.next_seq = @ + 1]
    /\ UNCHANGED <<residency, newest, changes, sealed, repushes, pushes, acks, requested,
                   hubVars, ownerVars, abandoned, forgotten>>

\* snapshot: periodic, requested by the hub, or owed after divergence.  The gate
\* arms, and a snapshot still awaiting its install is superseded.
snapshot ==
    LET g == sequencer.generation + 1
        s == [epoch |-> sequencer.epoch, generation |-> g, floor |-> last_seq,
              body |-> residency, stage |-> "sent"]
    IN  /\ Streaming /\ g <= MaxGeneration
        /\ sequencer' = [sequencer EXCEPT !.generation = g, !.pending_install = g,
                                          !.divergent = FALSE]
        /\ sealed' = s /\ pushes' = pushes \cup {s} /\ requested' = FALSE
        /\ UNCHANGED <<residency, newest, changes, buffer, repushes, deltas, acks, hubVars,
                       ownerVars, historyVars>>

\* A push that failed or was not answered is repeated.
Repush ==
    /\ Streaming /\ AwaitingInstall /\ repushes < MaxRepush
    /\ pushes' = pushes \cup {sealed} /\ repushes' = repushes + 1
    /\ UNCHANGED <<residency, newest, changes, buffer, sequencer, sealed, deltas, acks,
                   requested, hubVars, ownerVars, historyVars>>

abandon_pending_snapshot ==
    /\ Streaming /\ AwaitingInstall /\ CanBurn
    /\ sequencer' = mark_divergent([sequencer EXCEPT !.pending_install = None])
    /\ sent' = Burn(sequencer)
    /\ abandoned' = abandoned \cup {sequencer.pending_install}
    /\ UNCHANGED <<residency, newest, changes, buffer, sealed, repushes, planeVars, hubVars,
                   ownerVars, forgotten>>

note_snapshot_installed(a) ==
    /\ a \in acks /\ acks' = acks \ {a}
    /\ sequencer' = IF a.epoch = sequencer.epoch /\ a.generation = sequencer.pending_install
                    THEN [sequencer EXCEPT !.pending_install = None] ELSE sequencer
    /\ UNCHANGED <<residency, newest, changes, buffer, sealed, repushes, deltas, pushes,
                   requested, hubVars, ownerVars, historyVars>>

\* The register response reaches the publisher: one sequencer per epoch.
Adopt ==
    /\ transition = Idle /\ authority # None /\ sequencer.epoch # authority
    /\ sequencer' = new(authority) /\ buffer' = << >> /\ sealed' = None
    /\ sent' = [s \in 1 .. MaxSeq |-> Burned] /\ abandoned' = {} /\ forgotten' = None
    /\ UNCHANGED <<residency, newest, changes, repushes, planeVars, hubVars, ownerVars>>
-----------------------------------------------------------------------------
(***************************************************************************)
(* The projection.                                                         *)
(***************************************************************************)
apply_ready(p, k, g) ==
    IF p.tombstones[k] >= g \/ p.ready[k] > g THEN p
    ELSE [ready |-> [p.ready EXCEPT ![k] = g], tombstones |-> [p.tombstones EXCEPT ![k] = None]]

apply_remove_NewerOnly(p, k, g) ==
    IF p.ready[k] >= g THEN p
    ELSE [ready |-> [p.ready EXCEPT ![k] = None], tombstones |-> [p.tombstones EXCEPT ![k] = g]]
apply_remove(p, k, g) ==
    IF p.ready[k] > g THEN p
    ELSE [ready |-> [p.ready EXCEPT ![k] = None],
          tombstones |-> [p.tombstones EXCEPT ![k] = IF @ < g THEN g ELSE @]]

ApplyOp(p, op) == IF op.kind = "Ready" THEN apply_ready(p, op.key, op.generation)
                  ELSE apply_remove(p, op.key, op.generation)
ApplyOps(p, ops) == FoldLeft(ApplyOp, p, ops)

retained(p) == Cardinality({k \in Keys : p.ready[k] # None})
                 + Cardinality({k \in Keys : p.tombstones[k] # None})

invalidate == [projection EXCEPT !.valid = FALSE]
clear == [projection EXCEPT !.valid = FALSE, !.placements = NoPlacements]

Contiguous_OrLater(d) == d.seq > projection.last_seq
Contiguous(d) == projection.last_seq + 1 = d.seq

Overflows_Never(p) == FALSE
Overflows(p) == retained(p) > MaxRetained

\* resolved: the installed manifests cover every interval the ops name their keys by.
apply_to(d, resolved) ==
    LET applied == ApplyOps(projection.placements, d.ops) IN
    CASE projection.epoch # d.epoch -> clear
      [] projection.epoch = d.epoch /\ ~projection.valid -> projection
      [] projection.epoch = d.epoch /\ projection.valid /\ d.generation < projection.generation
           -> projection
      [] projection.epoch = d.epoch /\ projection.valid /\ d.generation > projection.generation
           -> invalidate
      [] projection.epoch = d.epoch /\ projection.valid /\ d.generation = projection.generation
           -> IF ~Contiguous(d) \/ ~resolved THEN invalidate
              ELSE IF Overflows(applied) THEN clear
              ELSE [projection EXCEPT !.placements = applied, !.last_seq = d.seq]

\* The rate limit of request_snapshot and request_unknown_snapshot.
Request(stamp) ==
    /\ recent' = recent \cup {stamp}
    /\ requested' = (requested \/ stamp \notin recent)

apply_delta(d) ==
    /\ d \in deltas /\ deltas' = deltas \ {d}
    /\ \/ ~registered /\ UNCHANGED <<projection, recent, requested>>
       \/ registered /\ ~Exists /\ UNCHANGED projection /\ Request("unknown")
       \/ /\ registered /\ Exists
          /\ \E resolved \in BOOLEAN : projection' = apply_to(d, resolved)
          /\ IF projection'.valid THEN UNCHANGED <<recent, requested>> ELSE Request("projection")
    /\ UNCHANGED <<publisherVars, pushes, acks, ownerVars, historyVars>>

\* install_tier_placement_snapshot, first lock: authorize_owner_epoch.
authorize_owner_epoch(s) ==
    /\ s \in pushes /\ s.stage = "sent"
    /\ pushes' = (pushes \ {s})
                   \cup (IF authority = s.epoch THEN {[s EXCEPT !.stage = "authorized"]} ELSE {})
    /\ UNCHANGED <<publisherVars, deltas, acks, requested, hubVars, ownerVars, historyVars>>

AlreadyCurrent_SameOnly(s) ==
    Exists /\ projection.epoch = s.epoch /\ s.generation = projection.generation /\ projection.valid
AlreadyCurrent(s) ==
    /\ Exists /\ projection.epoch = s.epoch
    /\ \/ s.generation < projection.generation
       \/ s.generation = projection.generation /\ projection.valid

Installed(s) ==
    [epoch |-> s.epoch, generation |-> s.generation, last_seq |-> s.floor, floor |-> s.floor,
     valid |-> TRUE, placements |-> [NoPlacements EXCEPT !.ready = s.body]]

\* History: the hub gives up the projection of the publisher's epoch for p.
Forget(p) ==
    forgotten' = IF /\ Exists /\ projection.epoch = sequencer.epoch /\ p.epoch # projection.epoch
                    /\ projection.generation > forgotten
                 THEN projection.generation ELSE forgotten

\* install_tier_placement_snapshot, second lock: install_snapshot and the response.
\* It is refused over the limits on ready placements, on manifests and, for a pair
\* without a projection, on projected instances; the last two count what is not
\* modelled.
install_snapshot(s) ==
    /\ s \in pushes /\ s.stage = "authorized" /\ pushes' = pushes \ {s}
    /\ \/ UNCHANGED <<projection, recent, acks>>
       \/ /\ ~Overflows([NoPlacements EXCEPT !.ready = s.body])
          /\ projection' = IF AlreadyCurrent(s) THEN projection ELSE Installed(s)
          /\ recent' = IF AlreadyCurrent(s) THEN recent ELSE recent \ {"projection"}
          /\ acks' = acks \cup {[epoch |-> s.epoch, generation |-> projection'.generation]}
    /\ Forget(projection')
    /\ UNCHANGED <<publisherVars, deltas, requested, ownerVars, sent, abandoned>>

IntervalElapses ==
    /\ recent # {} /\ recent' = {}
    /\ UNCHANGED <<publisherVars, planeVars, projection, ownerVars, historyVars>>

Lose ==
    /\ \/ \E d \in deltas : deltas' = deltas \ {d} /\ UNCHANGED <<pushes, acks, requested>>
       \/ \E s \in pushes : /\ s.stage = "sent" /\ pushes' = pushes \ {s}
                            /\ UNCHANGED <<deltas, acks, requested>>
       \/ \E a \in acks : acks' = acks \ {a} /\ UNCHANGED <<deltas, pushes, requested>>
       \/ requested /\ requested' = FALSE /\ UNCHANGED <<deltas, pushes, acks>>
    /\ UNCHANGED <<publisherVars, hubVars, ownerVars, historyVars>>
-----------------------------------------------------------------------------
(***************************************************************************)
(* The indexer manager's registration hooks, in the order of               *)
(* register_instance, its rollback and the removal of a registration.      *)
(***************************************************************************)
ownerRest == <<publisherVars, planeVars, historyVars>>
Enter(phase) == transition' = [transition EXCEPT !.phase = phase]
remove_instance ==
    /\ projection' = NoProjection /\ recent' = {}
    /\ Forget(NoProjection) /\ UNCHANGED <<publisherVars, planeVars, sent, abandoned>>

stage_registration ==
    /\ transition = Idle /\ epochs < MaxEpoch /\ authority \in {None, sequencer.epoch}
    /\ epochs' = epochs + 1 /\ authority' = None
    /\ transition' = [phase |-> "staged", previous |-> authority, next |-> epochs + 1]
    /\ UNCHANGED <<hubVars, registered, ownerRest>>

on_register ==
    /\ transition.phase = "staged" /\ Enter("registered") /\ registered' = TRUE
    /\ UNCHANGED <<hubVars, authority, epochs, ownerRest>>

\* commit_registration: bind_owner_registration, then remove_instance.
bind_owner_registration ==
    /\ transition.phase = "registered" /\ Enter("bound")
    /\ UNCHANGED <<hubVars, authority, registered, epochs, ownerRest>>
commit_registration ==
    /\ transition.phase = "bound" /\ Enter("dropped") /\ remove_instance
    /\ UNCHANGED <<authority, registered, epochs>>

on_register_any ==
    /\ transition.phase = "dropped" /\ authority' = transition.next /\ transition' = Idle
    /\ UNCHANGED <<hubVars, registered, epochs, ownerRest>>

\* rollback: the previous authority is restored; once the registry was written its
\* features are registered and committed again, which drops the projection.
Rollback ==
    /\ transition.phase \in {"staged", "registered", "bound", "dropped"}
    /\ transition.previous # None /\ authority' = transition.previous
    /\ \/ transition.phase = "staged" /\ transition' = Idle
       \/ Enter("restored")
    /\ UNCHANGED <<hubVars, registered, epochs, ownerRest>>
RollbackCommit ==
    /\ transition.phase = "restored" /\ transition' = Idle
    /\ remove_instance /\ registered' = TRUE
    /\ UNCHANGED <<authority, epochs>>

\* on_unregister: a registration ends, or a first one is rolled back.
RemoveOwner ==
    /\ \/ transition = Idle /\ registered
       \/ /\ transition.phase \in {"staged", "registered", "bound", "dropped"}
          /\ transition.previous = None
    /\ authority' = None /\ transition' = [phase |-> "owner_removed"]
    /\ UNCHANGED <<hubVars, registered, epochs, ownerRest>>
RemoveProjection ==
    /\ transition.phase = "owner_removed" /\ Enter("projection_removed") /\ remove_instance
    /\ UNCHANGED <<authority, registered, epochs>>
RemoveInstance ==
    /\ transition.phase = "projection_removed" /\ registered' = FALSE /\ transition' = Idle
    /\ UNCHANGED <<hubVars, authority, epochs, ownerRest>>
-----------------------------------------------------------------------------
PublisherNext ==
    \/ \E k \in Keys : Change(k)
    \/ \E n \in 1 .. BufferLimit : Seal(n)
    \/ snapshot \/ Repush \/ abandon_pending_snapshot \/ Adopt
    \/ \E a \in acks : note_snapshot_installed(a)

HubNext ==
    \/ \E d \in deltas : apply_delta(d)
    \/ \E s \in pushes : authorize_owner_epoch(s) \/ install_snapshot(s)
    \/ IntervalElapses

OwnerNext ==
    \/ stage_registration \/ on_register \/ bind_owner_registration \/ commit_registration
    \/ on_register_any \/ Rollback \/ RollbackCommit
    \/ RemoveOwner \/ RemoveProjection \/ RemoveInstance

TierNext == (PublisherNext \/ HubNext \/ OwnerNext \/ Lose) /\ UNCHANGED bumps
TierSpec == TierInit /\ [][TierNext]_tierVars
-----------------------------------------------------------------------------
(***************************************************************************)
(* Properties.                                                             *)
(***************************************************************************)
Current == /\ Exists /\ projection.valid /\ projection.epoch = sequencer.epoch
           /\ projection.generation = sequencer.generation

Outstanding == projection.last_seq + 1 .. last_seq
OutstandingOps == FlattenSeq([i \in 1 .. last_seq - projection.last_seq |->
                                  sent[projection.last_seq + i]])

\* No stale success once the stream has drained: a valid projection of the current
\* snapshot, after the batches it has not seen and the ops the publisher retains, names
\* only blocks that are in the tier, and all of them when re-offloaded blocks get a
\* higher generation.  So every loss the publisher does not admit with a burned number
\* is repaired by the stream itself (apply_to, PlacementSet, mark_divergent).
ReplayReachesResidency ==
    (Current /\ \A s \in Outstanding : sent[s] # Burned) =>
        LET final == ApplyOps(projection.placements, OutstandingOps \o buffer).ready IN
        \A k \in Keys : /\ final[k] \in {None, residency[k]}
                        /\ bumps => final[k] = residency[k]

\* A number burned by mark_divergent is never stepped over: the projection cannot stay
\* valid past it without a snapshot sealed afterwards (SequenceGap in apply_to).
BurnIsNoticed ==
    (Exists /\ projection.valid /\ projection.epoch = sequencer.epoch) =>
        \A s \in projection.floor + 1 .. projection.last_seq : sent[s] # Burned

\* The emission gate keeps the fast plane behind the slow one: a batch whose generation
\* the valid projection has not installed is only ever in flight when the publisher gave
\* up that snapshot (seal, note_snapshot_installed, abandon_pending_snapshot), as long as
\* its registration stands.  Or when the hub discarded a projection that was at least as
\* new, in the rollback of a replacement (remove_instance) or for a late snapshot of an
\* earlier epoch: its generation is forgotten, and a push superseded long before installs.
NoDeltaOutrunsSnapshot ==
    \A d \in deltas :
        (Exists /\ projection.valid /\ projection.epoch = d.epoch
           /\ {sequencer.epoch, authority} = {d.epoch} /\ d.generation > projection.generation)
            => d.generation \in abandoned \/ d.generation <= forgotten

\* While it stays valid within an epoch a projection never goes back to an older
\* snapshot or an earlier batch, whatever pushes are delayed or repeated.
ValidNeverRewinds ==
    [][(Exists /\ Exists' /\ projection.valid /\ projection'.valid
          /\ projection'.epoch = projection.epoch)
          => /\ projection'.generation >= projection.generation
             /\ projection'.last_seq >= projection.last_seq]_projection

\* What the manager says dropping the projection at every commit achieves: outside a
\* registration transaction, the valid projection of a registered owner carries the
\* owner's current epoch, never that of an earlier registration.
ValidIsOfRegistration ==
    (transition = Idle /\ registered /\ authority # None /\ Exists /\ projection.valid)
        => projection.epoch = authority

\* A key is in at most one of the two maps of a PlacementSet, even when late ops are
\* replayed onto a newer snapshot, so none is counted twice against the limit.
OneMapPerKey ==
    Exists => \A k \in Keys : projection.placements.ready[k] = None
                                \/ projection.placements.tombstones[k] = None

\* What a projection retains, live and removed, never exceeds max_ready_per_instance.
WithinRetention == Exists => retained(projection.placements) <= MaxRetained

\* The shape of the projection: the types, a key in at most one of the two maps, and
\* no more retained entries than the projection's limit.
TierInv == TierTypeOK /\ OneMapPerKey /\ WithinRetention
=============================================================================
