--------------------------- MODULE RequestSequence ---------------------------
(***************************************************************************)
(* RequestSequence of kvbm-logical: the blocks one request holds, on top   *)
(* of a BlockManager that several requests share.  A block of a request    *)
(* is unassigned (mutable), staged (complete) or assigned (registered); a  *)
(* registered block may be detached, its guard handed to another owner,    *)
(* and a staged one may be taken out to be registered on another thread    *)
(* and installed later.                                                    *)
(*                                                                         *)
(* The manager is seen from its callers: the registered content of a slot  *)
(* and the primary slot of each hash.  Guards are RAII, so a slot without  *)
(* one is free, or inactive when it is the primary slot of its hash.       *)
(***************************************************************************)
EXTENDS Naturals, Sequences, FiniteSets, FiniteSetsExt, SequencesExt

CONSTANTS
    Requests,
    Slots,                \* the blocks of the manager
    BlockSize,
    NumInput,             \* num_input_tokens of each request
    MaxOutput,            \* max_output_tokens of each request
    BlockHashes           \* the sequence hashes of each request, by block index

NumSlots == Cardinality(Slots)
AllHashes == UNION {Range(BlockHashes[r]) : r \in Requests}
None == 0

ASSUME SequenceConstants ==
    /\ BlockSize \in Nat \ {0} /\ IsFiniteSet(Slots)
    /\ NumInput \in [Requests -> Nat] /\ MaxOutput \in [Requests -> Nat]
    /\ None \notin AllHashes \cup Slots
    /\ \A r \in Requests :
        /\ Len(BlockHashes[r]) >= (NumInput[r] + MaxOutput[r]) \div BlockSize
        /\ IsInjective(BlockHashes[r])

VARIABLES
    pool,                 \* content of the slots, primary slot of the hashes, and
                          \* BlockDuplicationPolicy: are duplicates rejected?
    req                   \* the sequences

requestVars == <<pool, req>>

NewRequest ==
    [generated |-> 0,     \* generated_tokens
     detached |-> << >>,  \* detached_assigned
     owned |-> {},        \* the detached guards, with their owner
     assigned |-> << >>,  \* block id and the slot of its ImmutableBlock
     registering |-> << >>,
     taken |-> << >>,     \* slot and hash of the blocks in deferred registration
     results |-> << >>,   \* their results, not installed yet
     originals |-> {},    \* rejected duplicates that install_registered returned
     abandoned |-> << >>, \* deferred blocks of a sequence that was released
     staged |-> << >>,
     unassigned |-> << >>,
     overtook |-> FALSE,  \* history: register ran while older blocks were in registration
     panicked |-> FALSE]  \* install_registered panicked

SequenceInit ==
    /\ \E reject \in BOOLEAN :
        pool = [content |-> [s \in Slots |-> None], primary |-> [h \in AllHashes |-> None],
                reject |-> reject]
    /\ req = [r \in Requests |-> NewRequest]

total_tokens(r) == NumInput[r] + req[r].generated
remaining_tokens(r) == MaxOutput[r] - req[r].generated
complete_sequence_blocks(r) == total_tokens(r) \div BlockSize
is_complete(r) == req[r].generated >= MaxOutput[r]

AssignedSlots(q) == {e.block : e \in Range(q.assigned)}
\* The ids that the assignments of a sequence know.
BlockIds(q) == {e.id : e \in Range(q.assigned)} \cup Range(q.staged) \cup Range(q.unassigned)
Registered(q) == Len(q.detached) + Len(q.assigned)
Pages(q) == q.detached \o [i \in DOMAIN q.assigned |-> q.assigned[i].id]
                \o q.registering \o q.staged \o q.unassigned

(***************************************************************************)
(* The block manager                                                       *)
(***************************************************************************)

\* Slots with a live guard, of whatever kind.
Guarded(q) ==
    AssignedSlots(q) \cup q.owned \cup Range(q.staged) \cup Range(q.unassigned) \cup q.originals
        \cup {e.slot : e \in Range(q.taken \o q.abandoned)}
        \cup UNION {{e.block, e.original} : e \in Range(q.results)}
Held == UNION {Guarded(req[r]) : r \in Requests}

PrimarySlots == {s \in Slots : pool.content[s] # None /\ pool.primary[pool.content[s]] = s}
Free == Slots \ (Held \cup PrimarySlots)

\* A duplicate pins the primary block of its hash.
Evictable(kept) ==
    {s \in PrimarySlots \ (Held \cup kept) :
        \A d \in Held : pool.content[d] # pool.content[s]}

Arrangements(n, S) == {q \in [1 .. n -> S] : IsInjective(q)}

\* What allocate_blocks may return: free slots, then evicted ones.
allocate_blocks(n, kept) ==
    LET free == Cardinality(Free)
    IN  IF n <= free THEN Arrangements(n, Free)
        ELSE {q \o v : q \in Arrangements(free, Free), v \in Arrangements(n - free, Evictable(kept))}

Reset(p, new) ==
    [reject |-> p.reject,
     content |-> [s \in Slots |-> IF s \in Range(new) THEN None ELSE p.content[s]],
     primary |-> [h \in AllHashes |-> IF p.primary[h] \in Range(new) THEN None ELSE p.primary[h]]]

\* The longest prefix of the sequence's hashes that is registered.
match_blocks(r, limit) ==
    LET hit(n) == \A i \in 1 .. n : pool.primary[BlockHashes[r][i]] # None
        count == Max({n \in 0 .. Min({limit, complete_sequence_blocks(r)}) : hit(n)})
    IN  [i \in 1 .. count |-> pool.primary[BlockHashes[r][i]]]

\* The block a complete block is registered as.
Canonical(p, e) ==
    IF p.reject /\ p.primary[e.hash] # None THEN p.primary[e.hash] ELSE e.slot

\* register_blocks of a batch of distinct hashes.
Register(p, batch) ==
    LET own == {e \in Range(batch) : Canonical(p, e) = e.slot}
    IN  [reject |-> p.reject,
         content |-> [s \in Slots |-> IF \E e \in own : e.slot = s
                                      THEN (CHOOSE e \in own : e.slot = s).hash
                                      ELSE p.content[s]],
         primary |-> [h \in AllHashes |-> IF p.primary[h] = None /\ \E e \in own : e.hash = h
                                          THEN (CHOOSE e \in own : e.hash = h).slot
                                          ELSE p.primary[h]]]

(***************************************************************************)
(* The steps of a sequence, on its record                                  *)
(***************************************************************************)

Matched(q, slots) == [q EXCEPT !.assigned = @ \o [i \in DOMAIN slots |->
                                                   [id |-> slots[i], block |-> slots[i]]]]

\* stage: unassigned blocks in order, as many as there are completed blocks
\* beyond the ones that are staged or further.
Staged(q, complete) ==
    LET start == Registered(q) + Len(q.registering) + Len(q.staged)
        count == Min({IF start < complete THEN complete - start ELSE 0, Len(q.unassigned)})
    IN  [q EXCEPT !.staged = @ \o SubSeq(q.unassigned, 1, count),
                  !.unassigned = SubSeq(@, count + 1, Len(@))]

\* Mutant: the blocks in deferred registration are not counted.
StagedBatch_NoDeferred(r, q) ==
    LET first == Registered(q)
    IN  [i \in DOMAIN q.staged |-> [slot |-> q.staged[i], hash |-> BlockHashes[r][first + i]]]

\* The staged blocks with the hashes they were completed with.
StagedBatch(r, q) ==
    LET first == Registered(q) + Len(q.registering)
    IN  [i \in DOMAIN q.staged |-> [slot |-> q.staged[i], hash |-> BlockHashes[r][first + i]]]

\* register: the id stays the one of the staged block, also for a duplicate
\* that the manager rejected.  Older blocks in registration are not awaited:
\* they become assigned behind these.
Assigned(p, q, batch) ==
    [q EXCEPT !.staged = << >>,
              !.overtook = @ \/ (batch # << >> /\ q.registering # << >>),
              !.assigned = @ \o [i \in DOMAIN batch |->
                                  [id |-> batch[i].slot, block |-> Canonical(p, batch[i])]]]

\* complete_and_register_pending
Completed(r, p, q, complete) ==
    LET staged == Staged(q, complete)
        batch == StagedBatch(r, staged)
    IN  [pool |-> Register(p, batch), req |-> Assigned(p, staged, batch)]

Put(r, q) == req' = [req EXCEPT ![r] = q]

\* release: every guard of the sequence drops; deferred registrations go on,
\* and their results are of no use any more.
Released(q) == [NewRequest EXCEPT !.generated = q.generated, !.owned = q.owned,
    !.originals = q.originals, !.abandoned = q.abandoned \o q.taken]

\* A panic of a call on the sequence: it goes down with its guards.
Panicked(q) == [Released(q) EXCEPT !.panicked = TRUE]

Empty(q) == BlockIds(q) = {} /\ q.detached = << >> /\ q.registering = << >>

(***************************************************************************)
(* Operations                                                              *)
(***************************************************************************)

match_and_add_prefix_bounded(r, limit) ==
    /\ Empty(req[r])
    /\ Put(r, Matched(req[r], match_blocks(r, limit)))
    /\ UNCHANGED pool

\* A manager that is short of blocks changes nothing; blocks with an id the
\* sequence already has are given back after they were reset.
RequestAllocate(r, count) ==
    \E new \in allocate_blocks(count, {}) :
        /\ pool' = Reset(pool, new)
        /\ Put(r, IF Range(new) \cap BlockIds(req[r]) = {}
                  THEN [req[r] EXCEPT !.unassigned = @ \o new] ELSE req[r])

stage_pending(r) ==
    /\ Staged(req[r], complete_sequence_blocks(r)) # req[r]
    /\ Put(r, Staged(req[r], complete_sequence_blocks(r)))
    /\ UNCHANGED pool

register_staged(r) ==
    LET batch == StagedBatch(r, req[r])
    IN  /\ batch # << >>
        /\ pool' = Register(pool, batch)
        /\ Put(r, Assigned(pool, req[r], batch))

take_staged_for_registration(r) ==
    /\ req[r].staged # << >>
    /\ Put(r, [req[r] EXCEPT !.registering = @ \o req[r].staged,
                             !.taken = @ \o StagedBatch(r, req[r]),
                             !.staged = << >>])
    /\ UNCHANGED pool

\* register_blocks_deferred on the other thread, for the oldest taken blocks:
\* a rejected duplicate comes back with its canonical block.
register_blocks_deferred(r) ==
    \/ \E n \in DOMAIN req[r].taken :
        LET batch == SubSeq(req[r].taken, 1, n)
        IN  /\ pool' = Register(pool, batch)
            /\ Put(r, [req[r] EXCEPT
                   !.taken = SubSeq(@, n + 1, Len(@)),
                   !.results = @ \o [i \in 1 .. n |-> [block |-> Canonical(pool, batch[i]),
                                                       original |-> batch[i].slot,
                                                       hash |-> batch[i].hash]]])
    \/ /\ req[r].abandoned # << >>
       /\ pool' = Register(pool, req[r].abandoned)
       /\ Put(r, [req[r] EXCEPT !.abandoned = << >>])

\* The results become assigned, a duplicate as its canonical block, whose id
\* must be new to the sequence (extend_assigned): register may have kept that
\* id for a duplicate of its own, and then the call panics.
Installed(q, done) ==
    [q EXCEPT !.registering = SubSeq(@, Len(done) + 1, Len(@)),
              !.results = SubSeq(@, Len(done) + 1, Len(@)),
              !.assigned = @ \o [i \in DOMAIN done |-> [id |-> done[i].block,
                                                       block |-> done[i].block]],
              !.originals = @ \cup {e.original : e \in {d \in Range(done) :
                                                       d.original # d.block}}]

install_registered(r) ==
    \E n \in DOMAIN req[r].results :
        LET done == SubSeq(req[r].results, 1, n)
            ids == {e.block : e \in Range(done)}
        IN  /\ Put(r, IF ids \cap BlockIds(req[r]) = {} THEN Installed(req[r], done)
                      ELSE Panicked(req[r]))
            /\ UNCHANGED pool

detach_registered_blocks(r) ==
    /\ req[r].assigned # << >>
    /\ Put(r, [req[r] EXCEPT !.detached = @ \o [i \in DOMAIN req[r].assigned |->
                                                 req[r].assigned[i].id],
                             !.owned = @ \cup AssignedSlots(req[r]),
                             !.assigned = << >>])
    /\ UNCHANGED pool

\* The owner of detached guards, or the caller with the rejected originals,
\* drops them.
DropGuards(r) ==
    /\ \/ req[r].owned # {} /\ Put(r, [req[r] EXCEPT !.owned = {}])
       \/ req[r].originals # {} /\ Put(r, [req[r] EXCEPT !.originals = {}])
    /\ UNCHANGED pool

append_token(r) ==
    /\ ~ is_complete(r)
    /\ Put(r, [req[r] EXCEPT !.generated = @ + 1])
    /\ UNCHANGED pool

\* release, and take_blocks with release_request_blocks.
release(r) ==
    /\ ~ Empty(req[r])
    /\ Put(r, Released(req[r]))
    /\ UNCHANGED pool

\* The cached prefix, and fresh blocks staged and registered for the rest; a
\* failure gives everything back.
reacquire(r) ==
    LET matched == match_blocks(r, NumSlots)
        missing == complete_sequence_blocks(r) - Len(matched)
        choices == allocate_blocks(missing, Range(matched))
    IN  /\ Empty(req[r])
        /\ IF choices = {} THEN UNCHANGED requestVars
           ELSE \E new \in choices :
               LET acquired == [Matched(req[r], matched) EXCEPT !.unassigned = new]
                   done == Completed(r, Reset(pool, new), acquired, complete_sequence_blocks(r))
               IN  pool' = done.pool /\ Put(r, done.req)

drop_excess_unassigned(r, keep) ==
    /\ Len(req[r].unassigned) > keep
    /\ Put(r, [req[r] EXCEPT !.unassigned = SubSeq(@, 1, keep)])
    /\ UNCHANGED pool

Call(r) ==
    \/ \E limit \in 1 .. NumSlots : match_and_add_prefix_bounded(r, limit)
    \/ \E count \in 1 .. NumSlots : RequestAllocate(r, count)
    \/ stage_pending(r)
    \/ register_staged(r)
    \/ take_staged_for_registration(r)
    \/ install_registered(r)
    \/ detach_registered_blocks(r)
    \/ append_token(r)
    \/ release(r)
    \/ reacquire(r)
    \/ \E keep \in 0 .. NumSlots : drop_excess_unassigned(r, keep)

\* The other thread and the owners of guards go on after a panic.
RequestStep(r) ==
    \/ ~ req[r].panicked /\ Call(r)
    \/ register_blocks_deferred(r)
    \/ DropGuards(r)
====
