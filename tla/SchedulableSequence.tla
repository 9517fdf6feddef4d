------------------------- MODULE SchedulableSequence -------------------------
(***************************************************************************)
(* SchedulableSequence of kvbm-logical: the two-phase protocol on top of   *)
(* RequestSequence.  A schedule_* call allocates the blocks of the next    *)
(* forward pass; apply_* appends its tokens and registers the blocks they  *)
(* complete; revert_schedule gives the allocated blocks back.  Requests    *)
(* that are not scheduled drive their RequestSequence themselves, on the   *)
(* same manager.                                                           *)
(***************************************************************************)
EXTENDS RequestSequence

CONSTANTS
    Scheduled,            \* the requests that are SchedulableSequences
    MaxDraft,             \* bound on num_draft_tokens
    MaxPosition           \* bound on prefill_position

ASSUME ScheduledConstants ==
    Scheduled \subseteq Requests /\ MaxDraft \in Nat /\ MaxPosition \in Nat

VARIABLES
    sched,                \* state, its num_tokens and blocks_allocated, the positions
    before                \* history: the unassigned blocks before the schedule

sequenceVars == <<requestVars, sched, before>>

States == {"Idle", "PrefillScheduled", "DecodeScheduled", "SpeculativeScheduled"}

SchedulableInit ==
    /\ SequenceInit
    /\ sched = [r \in Scheduled |-> [state |-> "Idle", num_tokens |-> 0, blocks_allocated |-> 0,
                                     prefill_position |-> 0, kv_position |-> 0]]
    /\ before = [r \in Scheduled |-> << >>]

Idle(r) == sched[r].state = "Idle"
is_prefill_complete(r) == sched[r].prefill_position >= NumInput[r]
Minus(a, b) == IF a > b THEN a - b ELSE 0
tail_tokens(r) == Minus(total_tokens(r), sched[r].kv_position)
div_ceil(a, b) == (a + b - 1) \div b
have(r) == Registered(req[r]) + Len(req[r].staged) + Len(req[r].unassigned)

\* Back to Idle with new positions.
ToIdle(r, prefill_position, kv_position) ==
    /\ sched' = [sched EXCEPT ![r] = [state |-> "Idle", num_tokens |-> 0, blocks_allocated |-> 0,
                                      prefill_position |-> prefill_position,
                                      kv_position |-> kv_position]]
    /\ before' = [before EXCEPT ![r] = << >>]

\* The blocks are allocated and the operation is scheduled; ids the sequence
\* already has make the call fail after the blocks were reset.
Schedule(r, state, num_tokens, to_allocate) ==
    \E new \in allocate_blocks(to_allocate, {}) :
        /\ pool' = Reset(pool, new)
        /\ IF Range(new) \cap BlockIds(req[r]) = {}
           THEN /\ Put(r, [req[r] EXCEPT !.unassigned = @ \o new])
                /\ sched' = [sched EXCEPT ![r].state = state, ![r].num_tokens = num_tokens,
                                          ![r].blocks_allocated = to_allocate]
                /\ before' = [before EXCEPT ![r] = req[r].unassigned]
           ELSE UNCHANGED <<req, sched, before>>

match_and_add_prefix(r) ==
    LET advanced == sched[r].prefill_position
                        + Len(match_blocks(r, NumSlots)) * BlockSize
    IN  /\ Idle(r) /\ advanced <= MaxPosition
        /\ match_and_add_prefix_bounded(r, NumSlots)
        /\ sched' = IF match_blocks(r, NumSlots) = << >> THEN sched
                    ELSE [sched EXCEPT ![r].prefill_position = advanced,
                                       ![r].kv_position = advanced]
        /\ UNCHANGED before

\* Mutant: a partial last block is not counted.
schedule_prefill_Floor(r, num_tokens) ==
    LET new_position == sched[r].prefill_position + num_tokens
    IN  /\ Idle(r) /\ ~ is_prefill_complete(r) /\ new_position <= NumInput[r]
        /\ Schedule(r, "PrefillScheduled", num_tokens, Minus(new_position \div BlockSize, have(r)))

schedule_prefill(r, num_tokens) ==
    LET new_position == sched[r].prefill_position + num_tokens
    IN  /\ Idle(r) /\ ~ is_prefill_complete(r) /\ new_position <= NumInput[r]
        /\ Schedule(r, "PrefillScheduled", num_tokens,
                    Minus(div_ceil(new_position, BlockSize), have(r)))

\* The final chunk needs a token if any may be generated, the others take
\* none; the block the token completes stays for the next decode.
apply_prefill(r, token) ==
    LET new_position == sched[r].prefill_position + sched[r].num_tokens
        final == new_position >= NumInput[r]
        done == Completed(r, pool, req[r], complete_sequence_blocks(r))
    IN  /\ sched[r].state = "PrefillScheduled"
        /\ token => final /\ ~ is_complete(r)
        /\ final /\ ~ token => MaxOutput[r] = 0
        /\ pool' = done.pool
        /\ Put(r, [done.req EXCEPT !.generated = @ + IF token THEN 1 ELSE 0])
        /\ ToIdle(r, new_position, new_position)

MayDecode(r) == Idle(r) /\ is_prefill_complete(r) /\ ~ is_complete(r) /\ tail_tokens(r) = 1

schedule_decode(r) ==
    LET pending == Minus(complete_sequence_blocks(r), Registered(req[r]) + Len(req[r].staged))
    IN  /\ MayDecode(r)
        /\ Schedule(r, "DecodeScheduled", 1, Minus(pending + 1, Len(req[r].unassigned)))

\* The tokens are appended, and every block they complete is registered.
Appended(r, count) == [req[r] EXCEPT !.generated = @ + count]
CompletedWith(r, count) ==
    Completed(r, pool, Appended(r, count), (total_tokens(r) + count) \div BlockSize)

apply_decode(r) ==
    LET done == CompletedWith(r, 1)
    IN  /\ sched[r].state = "DecodeScheduled"
        /\ pool' = done.pool
        /\ Put(r, done.req)
        /\ ToIdle(r, sched[r].prefill_position, sched[r].kv_position + 1)

schedule_speculative(r, draft) ==
    LET num_draft_tokens == Min({draft, remaining_tokens(r)})
    IN  /\ MayDecode(r)
        /\ Schedule(r, "SpeculativeScheduled", num_draft_tokens,
                    Minus(div_ceil(total_tokens(r) + num_draft_tokens, BlockSize), have(r)))

\* Blocks allocated for rejected drafts are dropped, but one when more tokens
\* may come.
apply_speculative(r, accepted) ==
    LET done == CompletedWith(r, accepted)
        keep == IF req[r].generated + accepted >= MaxOutput[r] THEN 0 ELSE 1
    IN  /\ sched[r].state = "SpeculativeScheduled" /\ accepted <= sched[r].num_tokens
        /\ pool' = done.pool
        /\ Put(r, [done.req EXCEPT !.unassigned = SubSeq(@, 1, Min({keep, Len(@)}))])
        /\ ToIdle(r, sched[r].prefill_position, sched[r].kv_position + accepted)

\* Mutant: the blocks are popped from the front.
revert_schedule_Fifo(r) ==
    LET n == sched[r].blocks_allocated
    IN  /\ ~ Idle(r)
        /\ Put(r, [req[r] EXCEPT !.unassigned = SubSeq(@, n + 1, Len(@))])
        /\ ToIdle(r, sched[r].prefill_position, sched[r].kv_position)
        /\ UNCHANGED pool

revert_schedule(r) ==
    LET n == sched[r].blocks_allocated
    IN  /\ ~ Idle(r)
        /\ Put(r, [req[r] EXCEPT !.unassigned = SubSeq(@, 1, Minus(Len(@), n))])
        /\ ToIdle(r, sched[r].prefill_position, sched[r].kv_position)
        /\ UNCHANGED pool

drop_unassigned(r, count) ==
    /\ Idle(r) /\ req[r].unassigned # << >>
    /\ Put(r, [req[r] EXCEPT !.unassigned = SubSeq(@, 1, Minus(Len(@), count))])
    /\ UNCHANGED <<pool, sched, before>>

append_tokens(r, count) ==
    /\ Idle(r) /\ count <= remaining_tokens(r)
    /\ Put(r, Appended(r, count))
    /\ UNCHANGED <<pool, sched, before>>

ScheduledStep(r) ==
    \/ match_and_add_prefix(r)
    \/ \E n \in 0 .. NumInput[r] : schedule_prefill(r, n)
    \/ \E token \in BOOLEAN : apply_prefill(r, token)
    \/ schedule_decode(r)
    \/ apply_decode(r)
    \/ \E draft \in 0 .. MaxDraft : schedule_speculative(r, draft)
    \/ \E accepted \in 0 .. MaxDraft : apply_speculative(r, accepted)
    \/ revert_schedule(r)
    \/ \E count \in 1 .. NumSlots : drop_unassigned(r, count)
    \/ \E count \in 1 .. MaxDraft : append_tokens(r, count)
    \/ Idle(r) /\ release(r) /\ UNCHANGED <<sched, before>>
    \/ Idle(r) /\ reacquire(r) /\ UNCHANGED <<sched, before>>

SequenceNext ==
    \/ \E r \in Scheduled : ScheduledStep(r)
    \/ \E r \in Requests \ Scheduled : RequestStep(r) /\ UNCHANGED <<sched, before>>

SequenceSpec == SchedulableInit /\ [][SequenceNext]_sequenceVars

(***************************************************************************)
(* Properties                                                              *)
(***************************************************************************)

RecordTypeOK(q) ==
    /\ q.generated \in Nat
    /\ {Range(q.detached), Range(q.registering), Range(q.staged), Range(q.unassigned), q.owned,
        q.originals, AssignedSlots(q)} \subseteq SUBSET Slots

\* Every variable stays in its type.
SequenceTypeOK ==
    /\ pool.content \in [Slots -> AllHashes \cup {None}]
    /\ pool.primary \in [AllHashes -> Slots \cup {None}]
    /\ \A r \in Requests : RecordTypeOK(req[r]) /\ req[r].generated <= MaxOutput[r]
    /\ \A r \in Scheduled : sched[r].state \in States /\ sched[r].prefill_position \in Nat

\* Where the slots are: a mutable or complete block has one guard in the
\* whole system, so no two requests write the same page.
WritableOnce ==
    \A r \in Requests : LET q == req[r]
                            own == q.unassigned \o q.staged \o [i \in DOMAIN q.taken |-> q.taken[i].slot]
                        IN  /\ IsInjective(own)
                            /\ Range(own) \cap (PrimarySlots \cup AssignedSlots(q) \cup q.owned) = {}
                            /\ \A u \in Requests \ {r} : Range(own) \cap Guarded(req[u]) = {}

\* A scheduled forward pass has a page for every token it writes: the chunk of
\* a prefill, the dangling token, the drafts of a speculative step.
ScheduledCovers ==
    \A r \in Scheduled : LET q == sched[r] IN
        CASE q.state = "PrefillScheduled" ->
                have(r) * BlockSize >= q.prefill_position + q.num_tokens
          [] q.state = "DecodeScheduled" -> have(r) * BlockSize > total_tokens(r)
          [] q.state = "SpeculativeScheduled" ->
                have(r) * BlockSize >= total_tokens(r) + q.num_tokens
          [] OTHER -> TRUE

\* The results that come back to install_registered are those of the oldest
\* blocks in registration, in order, so its assertions on the number of the
\* results and on what each of them is never fail.
ResultsMatch ==
    \A r \in Requests : LET q == req[r] IN
        q.registering = [i \in DOMAIN q.results |-> q.results[i].original]
                            \o [i \in DOMAIN q.taken |-> q.taken[i].slot]

\* install_registered panics only over an id that register kept for a rejected
\* duplicate, so never with duplicates allowed.
PanicsOverKeptId ==
    /\ \A r \in Requests : req[r].panicked => pool.reject
    /\ \A r \in Requests : \A d \in Range(req[r].results) :
          d.block \in BlockIds(req[r]) =>
              \E e \in Range(req[r].assigned) : e.id = d.block /\ e.block # e.id

SequenceInv ==
    SequenceTypeOK /\ WritableOnce /\ ScheduledCovers /\ ResultsMatch /\ PanicsOverKeptId

\* Page i of a request holds the tokens of its block i: registered blocks keep
\* their sequence position through matching, deferred registration,
\* detachment and preemption.  register_staged must not have run while older
\* blocks were in registration, which it puts behind the ones it registers.
PagesInOrder ==
    \A r \in Requests : ~ req[r].overtook => \A i \in DOMAIN req[r].assigned :
        pool.content[req[r].assigned[i].block] = BlockHashes[r][Len(req[r].detached) + i]

\* Even then no block is registered twice or with tokens the request does not
\* have: the positions are permuted among the blocks that are registered or
\* about to be.
PagesPermuted ==
    \A r \in Requests : LET q == req[r]
                            hashes == [i \in DOMAIN q.assigned |-> pool.content[q.assigned[i].block]]
                        IN  /\ IsInjective(hashes)
                            /\ Range(hashes) \subseteq
                                 Range(SubSeq(BlockHashes[r], 1, Registered(q) + Len(q.registering)))

\* page_indices lists distinct slots that the request itself holds, so nobody
\* else can be given one of them.
AlwaysOwnPages ==
    \A r \in Requests : LET q == req[r]
                            own == SubSeq(Pages(q), Len(q.detached) + 1, Len(Pages(q)))
                        IN  Range(own) \subseteq Guarded(q) /\ IsInjective(own)

\* With duplicates allowed, page_indices lists distinct slots that the request
\* itself holds, through deferred registration and preemption.
OwnPages == ~ pool.reject => AlwaysOwnPages

\* The pages a request hands to the worker (page_indices) are the right ones: in
\* sequence order unless register_staged overtook a registration, and held by
\* the request.
PagesSound == PagesInOrder /\ PagesPermuted /\ OwnPages

\* revert_schedule leaves the sequence with the blocks it had.
RevertRestores ==
    [][\A r \in Scheduled : revert_schedule(r) => req'[r] = [req[r] EXCEPT !.unassigned = before[r]]
      ]_sequenceVars
====
