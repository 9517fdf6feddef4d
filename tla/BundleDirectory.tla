--------------------------- MODULE BundleDirectory ---------------------------
(***************************************************************************)
(* The hub's directory of complete bundles (kvbm-hub                       *)
(* features/indexer/bundle): advertisements published by owners, the       *)
(* generations they retired, the keys that expired lately, the bounded     *)
(* capacities of all three, and the owner's authority over its records.    *)
(*                                                                         *)
(* Every call runs under the directory's lock and is one step.  Time is    *)
(* the directory's clock.  A registration transaction is the sequence of   *)
(* calls the registration server makes: stage, bind, then finalize, or a   *)
(* rollback.  The payload of a bundle (requirements, lineages, placements) *)
(* is left out: it decides whether a request is well formed, not what the  *)
(* directory remembers.                                                    *)
(***************************************************************************)
EXTENDS OwnerAuthority, FiniteSets, FiniteSetsExt

CONSTANTS
    Keys, Owners,
    AdsPerOwner, AdsGlobal,            \* advertisement capacities
    AbsentPerOwner, AbsentGlobal,      \* capacities of retirements of absent bundles
    LeaseTtl,                          \* retention of absent retirements and of expiries
    AdTtl,                             \* longest advertisement lifetime
    HistoryCapacity,                   \* MAX_RETAINED_KEYS
    MaxTime, MaxGeneration, MaxEpoch   \* bounds

ASSUME DirectoryConstants ==
    /\ IsFiniteSet(Keys) /\ IsFiniteSet(Owners)
    /\ {AdsPerOwner, AdsGlobal, AbsentPerOwner, AbsentGlobal, LeaseTtl, AdTtl,
        HistoryCapacity, MaxTime, MaxGeneration, MaxEpoch} \subseteq Nat

VARIABLES
    now,
    advertisements,      \* (key, owner) -> the live advertisement, or NoAd
    retired,             \* (key, owner) -> the retired generation, or NotRetired
    absent,              \* absent_counts: owner -> retirements of absent bundles
    expired,             \* key -> end of its retention in the expiry history, or None
    owners,              \* owner -> its authority
    transaction,         \* owner -> the registration the server is carrying out
    epochs,              \* registration epochs generated so far
    fences               \* history: what the owner's registration had invalidated

directoryVars == <<now, advertisements, retired, absent, expired, owners, transaction,
                   epochs, fences>>

Times == 0 .. MaxTime
Generations == 1 .. MaxGeneration
Identities == Keys \X Owners
NoAd == [generation |-> 0, epoch |-> None, expires |-> 0]
NotRetired == [generation |-> 0, until |-> 0, source |-> "none"]
NoFence == [epoch |-> None, top |-> 0, until |-> [g \in Generations |-> 0]]
NoTransaction == [epoch |-> None, previous |-> None, bound |-> FALSE]

\* Reads of a directory state d: a record of the three indexes.
Directory == [ads |-> advertisements, retired |-> retired, absent |-> absent,
              expired |-> expired]
Live(d) == {i \in Identities : d.ads[i] # NoAd}
Retired(d) == {i \in Identities : d.retired[i] # NotRetired}
Of(o) == {i \in Identities : i[2] = o}

DirectoryTypeOK ==
    /\ now \in Times /\ epochs \in 0 .. MaxEpoch
    /\ advertisements \in [Identities -> [generation : 0 .. MaxGeneration, epoch : 0 .. MaxEpoch,
                                          expires : 0 .. MaxTime + AdTtl]]
    /\ retired \in [Identities -> [generation : 0 .. MaxGeneration,
                                   until : 0 .. MaxTime + AdTtl + LeaseTtl,
                                   source : {"none", "Absent", "LiveAdvertisement"}]]
    /\ absent \in [Owners -> 0 .. AbsentPerOwner]
    /\ expired \in [Keys -> 0 .. MaxTime + LeaseTtl]
    /\ \A o \in Owners : /\ owners[o].current \in 0 .. MaxEpoch
                         /\ IsPending(owners[o]) => owners[o].current = None
                         /\ transaction[o].epoch \in 0 .. MaxEpoch

DirectoryInit ==
    /\ now = 0 /\ epochs = 0
    /\ advertisements = [i \in Identities |-> NoAd]
    /\ retired = [i \in Identities |-> NotRetired]
    /\ absent = [o \in Owners |-> 0] /\ expired = [k \in Keys |-> None]
    /\ owners = [o \in Owners |-> NoAuthority]
    /\ transaction = [o \in Owners |-> NoTransaction]
    /\ fences = [i \in Identities |-> NoFence]
-----------------------------------------------------------------------------
(***************************************************************************)
(* The indexes.                                                            *)
(***************************************************************************)
forget(d, keys) == [d EXCEPT !.expired = [k \in Keys |-> IF k \in keys THEN None ELSE @[k]]]

\* ExpiredAdvertisementHistory::record, prune and enforce_capacity: old entries
\* leave first, then the ones with the earliest end of retention.
record(d, keys) ==
    LET kept == {k \in Keys : d.expired[k] > now} \ keys
        fresh == IF LeaseTtl > 0 THEN keys ELSE {}
        until == [k \in Keys |-> IF k \in fresh THEN now + LeaseTtl
                                 ELSE IF k \in kept THEN d.expired[k] ELSE None]
        all == kept \cup fresh
    IN  {[d EXCEPT !.expired = [k \in Keys |-> IF k \in s THEN until[k] ELSE None]] :
            s \in {s \in SUBSET all :
                     /\ Cardinality(s) = Min({Cardinality(all), HistoryCapacity})
                     /\ \A k \in s, l \in all \ s : until[l] <= until[k]}}

\* Drop retirements that are over and advertisements that expired.
prune(d) ==
    LET over == {i \in Retired(d) : d.retired[i].until <= now}
        gone == {i \in Live(d) : d.ads[i].expires <= now}
    IN  record([d EXCEPT !.retired = [i \in Identities |-> IF i \in over THEN NotRetired ELSE @[i]],
                         !.absent = [o \in Owners |-> @[o] -
                             Cardinality({i \in over \cap Of(o) : d.retired[i].source = "Absent"})],
                         !.ads = [i \in Identities |-> IF i \in gone THEN NoAd ELSE @[i]]],
               {i[1] : i \in gone})

IdentityPerOwner == AdsPerOwner + AbsentPerOwner
IdentityGlobal == AdsGlobal + AbsentGlobal

ensure_new_identity_AdsOnly(d, o) ==
    Cardinality(Live(d)) < IdentityGlobal /\ Cardinality(Live(d) \cap Of(o)) < IdentityPerOwner
ensure_new_identity(d, o) ==
    /\ Cardinality(Live(d)) + Cardinality(Retired(d)) < IdentityGlobal
    /\ Cardinality(Live(d) \cap Of(o)) + Cardinality(Retired(d) \cap Of(o)) < IdentityPerOwner

\* The code counts absent_len up and down together with absent_counts.
absent_len(d) == FoldSet(LAMBDA p, n : d.absent[p] + n, 0, Owners)

\* RetiredGenerations::ensure_capacity.
RetirementFits(d, o, isAbsent) ==
    /\ Cardinality(Retired(d)) < IdentityGlobal
    /\ Cardinality(Retired(d) \cap Of(o)) < IdentityPerOwner
    /\ isAbsent => absent_len(d) < AbsentGlobal /\ d.absent[o] < AbsentPerOwner

AdvertisementFits(d, o) ==
    Cardinality(Live(d)) < AdsGlobal /\ Cardinality(Live(d) \cap Of(o)) < AdsPerOwner

rejected_generation_Older(d, i, g) == d.retired[i].generation > g /\ d.retired[i].until > now
rejected_generation(d, i, g) == d.retired[i].generation >= g /\ d.retired[i].until > now

bounded_absent_deadline(requested) == Min({requested, now + LeaseTtl})

merge_retirement(r, g, until, source) ==
    [generation |-> Max({r.generation, g}), until |-> Max({r.until, until}), source |-> source]

\* retire_absent and retire_live of a new or a known identity.
retire_absent(d, i, g, until) ==
    IF i \in Retired(d)
    THEN [d EXCEPT !.retired[i] = merge_retirement(@, g, until, @.source)]
    ELSE [d EXCEPT !.retired[i] = merge_retirement(@, g, until, "Absent"),
                   !.absent[i[2]] = @ + 1]

retire_live(d, i, g, until) ==
    [d EXCEPT !.retired[i] = merge_retirement(@, g, until, "LiveAdvertisement"),
              !.absent[i[2]] = @ - (IF d.retired[i].source = "Absent" THEN 1 ELSE 0)]
-----------------------------------------------------------------------------
(***************************************************************************)
(* Operations of owners.                                                   *)
(***************************************************************************)
Store(d) == /\ advertisements' = d.ads /\ retired' = d.retired
            /\ absent' = d.absent /\ expired' = d.expired

\* publish: an owner's advertisement of its current epoch.  A refused publication
\* has pruned the directory and changes nothing else.
publish(i, g, requested) ==
    LET o == i[2] IN
    /\ owners[o].current # None
    /\ \E d \in prune(Directory) :
         LET refused == \/ rejected_generation(d, i, g)
                        \/ d.ads[i] # NoAd /\ d.ads[i].generation > g
                        \/ d.ads[i] = NoAd /\ ~(ensure_new_identity(d, o) /\ AdvertisementFits(d, o))
             ad == [generation |-> g, epoch |-> owners[o].current,
                    expires |-> Min({requested, now + AdTtl})]
         IN  Store(IF refused THEN d ELSE forget([d EXCEPT !.ads[i] = ad], {i[1]}))
    /\ UNCHANGED <<now, owners, transaction, epochs, fences>>

\* query prunes; what it answers is Hits below.
query ==
    /\ \E d \in prune(Directory) : Store(d)
    /\ UNCHANGED <<now, owners, transaction, epochs, fences>>

\* The advertisements a query for the key may return at its own time t.
Hits(k, t) ==
    {o \in Owners : LET ad == advertisements[<<k, o>>] IN
        /\ ad # NoAd /\ owners[o].current # None /\ ad.epoch = owners[o].current
        /\ ~(retired[<<k, o>>].generation >= ad.generation /\ retired[<<k, o>>].until > t)
        /\ ad.expires > t}

\* History: the registration that invalidated, its highest generation, and until
\* when each generation and the ones below it must stay fenced.
Fenced(i, g, until) ==
    LET f == IF fences[i].epoch = owners[i[2]].current THEN fences[i] ELSE NoFence
    IN  [fences EXCEPT ![i] =
            [epoch |-> owners[i[2]].current, top |-> Max({f.top, g}),
             until |-> [h \in Generations |->
                          IF h <= g /\ until > now THEN Max({f.until[h], until}) ELSE f.until[h]]]]

\* invalidate: retire a generation, of a live advertisement or in advance.
invalidate(i, g, requested) ==
    LET o == i[2]
        until == bounded_absent_deadline(requested)
    IN
    /\ owners[o].current # None
    /\ \E d \in prune(Directory) :
         LET isLive == d.ads[i] # NoAd /\ d.ads[i].generation <= g
             liveUntil == Max({d.ads[i].expires, until})
             known == i \in Retired(d)
             fits == CASE isLive -> liveUntil <= now \/ known \/ RetirementFits(d, o, FALSE)
                       [] ~isLive /\ known -> TRUE
                       [] ~isLive /\ ~known -> /\ ensure_new_identity(d, o)
                                               /\ until <= now \/ RetirementFits(d, o, TRUE)
             live == IF liveUntil <= now THEN d ELSE retire_live(d, i, g, liveUntil)
         IN  /\ Store(IF ~fits THEN d
                      ELSE IF isLive THEN forget([live EXCEPT !.ads[i] = NoAd], {i[1]})
                      ELSE IF until <= now THEN d
                      ELSE retire_absent(d, i, g, until))
             /\ fences' = IF fits THEN Fenced(i, g, until) ELSE fences
    /\ UNCHANGED <<now, owners, transaction, epochs>>
-----------------------------------------------------------------------------
(***************************************************************************)
(* Registration of owners.                                                 *)
(***************************************************************************)
clear_owner_metadata_KeepRetired(d, o) ==
    forget([d EXCEPT !.ads = [i \in Identities |-> IF i[2] = o THEN NoAd ELSE @[i]]],
           {i[1] : i \in Live(d) \cap Of(o)})
clear_owner_metadata(d, o) ==
    forget([d EXCEPT !.ads = [i \in Identities |-> IF i[2] = o THEN NoAd ELSE @[i]],
                     !.retired = [i \in Identities |-> IF i[2] = o THEN NotRetired ELSE @[i]],
                     !.absent[o] = 0],
           {i[1] : i \in (Live(d) \cup Retired(d)) \cap Of(o)})

Apply_Eager(o, outcome, d) ==
    /\ owners' = [owners EXCEPT ![o] = outcome.owner]
    /\ Store(IF outcome.clears \/ IsPending(outcome.owner) THEN clear_owner_metadata(d, o) ELSE d)
Apply(o, outcome, d) ==
    /\ owners' = [owners EXCEPT ![o] = outcome.owner]
    /\ Store(IF outcome.clears THEN clear_owner_metadata(d, o) ELSE d)

\* A registration begins: the next authority is staged, or its removal when the
\* registration omits the indexer feature.
Stage(o, participates) ==
    LET outcome == stage_owner_transition(owners[o],
                       IF participates THEN epochs + 1 ELSE None, epochs + 1)
    IN  /\ transaction[o] = NoTransaction /\ epochs < MaxEpoch
        /\ epochs' = epochs + 1
        /\ transaction' = [transaction EXCEPT ![o] =
              [epoch |-> epochs + 1, previous |-> owners[o].current, bound |-> FALSE]]
        /\ outcome.ok /\ Apply(o, outcome, Directory)
        /\ UNCHANGED <<now, fences>>

\* The registry write succeeded; epochs double as incarnations.
Bind(o) ==
    LET t == transaction[o]
        outcome == bind_owner_registration(owners[o], t.epoch, t.epoch)
    IN  /\ t # NoTransaction /\ ~t.bound /\ outcome.ok
        /\ transaction' = [transaction EXCEPT ![o].bound = TRUE]
        /\ Apply(o, outcome, Directory)
        /\ UNCHANGED <<now, epochs, fences>>

\* finalize_owner_registration clears the metadata of the previous authority,
\* prunes and installs the next one.
Finalize(o) ==
    LET t == transaction[o]
        outcome == finalize_owner_registration(owners[o], t.epoch)
    IN  /\ t.bound /\ outcome.ok
        /\ transaction' = [transaction EXCEPT ![o] = NoTransaction]
        /\ IF outcome.clears
           THEN \E d \in prune(clear_owner_metadata(Directory, o)) :
                    Store(d) /\ owners' = [owners EXCEPT ![o] = outcome.owner]
           ELSE Apply(o, outcome, Directory)
        /\ UNCHANGED <<now, epochs, fences>>

\* The server replays the previous registration through the staging hook.
RollBack(o) ==
    LET t == transaction[o]
        outcome == stage_owner_transition(owners[o], t.previous, t.previous)
    IN  /\ t # NoTransaction /\ outcome.ok
        /\ transaction' = [transaction EXCEPT ![o] = NoTransaction]
        /\ Apply(o, outcome, Directory)
        /\ UNCHANGED <<now, epochs, fences>>

\* remove_owner retires every live advertisement until its own expiry; an
\* advertisement whose retirement does not fit stays behind.
RetireAll(d, o) ==
    LET live == Live(d) \cap Of(o)
        blocked == {i \in live : /\ d.ads[i].expires > now /\ i \notin Retired(d)
                                 /\ ~RetirementFits(d, o, FALSE)}
        kept(i) == i \in live \ blocked /\ d.ads[i].expires > now
    IN  forget([d EXCEPT
            !.ads = [i \in Identities |-> IF i \in live \ blocked THEN NoAd ELSE @[i]],
            !.retired = [i \in Identities |->
                IF kept(i) THEN merge_retirement(@[i], d.ads[i].generation,
                                    Max({d.ads[i].expires,
                                         bounded_absent_deadline(d.ads[i].expires)}),
                                    "LiveAdvertisement")
                ELSE @[i]],
            !.absent[o] = @ - Cardinality({i \in live : kept(i) /\ d.retired[i].source = "Absent"})],
            {i[1] : i \in live \ blocked})

remove_owner(o) ==
    /\ owners' = [owners EXCEPT ![o] = NoAuthority]
    /\ transaction' = [transaction EXCEPT ![o] = NoTransaction]
    /\ \E d \in prune(RetireAll(Directory, o)) : Store(d)
    /\ UNCHANGED <<now, epochs, fences>>

Tick ==
    /\ now < MaxTime /\ now' = now + 1
    /\ fences' = [i \in Identities |-> [fences[i] EXCEPT !.until =
                     [g \in Generations |-> IF @[g] <= now' THEN 0 ELSE @[g]]]]
    /\ UNCHANGED <<advertisements, retired, absent, expired, owners, transaction, epochs>>

\* A requested deadline before now stands for none other than now: both are over.
DirectoryNext ==
    \/ Tick \/ query
    \/ \E i \in Identities, g \in Generations, t \in now .. MaxTime :
          publish(i, g, t) \/ invalidate(i, g, t)
    \/ \E o \in Owners : \/ Stage(o, TRUE) \/ Stage(o, FALSE) \/ Bind(o) \/ Finalize(o)
                         \/ RollBack(o) \/ remove_owner(o)

DirectorySpec == DirectoryInit /\ [][DirectoryNext]_directoryVars
-----------------------------------------------------------------------------
\* A query answers only with an advertisement its owner published under the
\* registration it holds now, whatever time t the asker's own clock shows, and
\* never with a generation whose invalidation was acknowledged in that
\* registration and is still retained: across expiry, republication, staged and
\* rolled-back registrations.
HitsAreCurrent ==
    \A k \in Keys, t \in Times : \A o \in Hits(k, t) :
        /\ advertisements[<<k, o>>].epoch = owners[o].current
        /\ ~ /\ fences[<<k, o>>].epoch = owners[o].current
             /\ fences[<<k, o>>].until[advertisements[<<k, o>>].generation] > now

\* absent_counts (and absent_len, their sum) count the retained retirements of
\* absent bundles: an upgrade to LiveAdvertisement, a prune and the removal of an
\* owner all return the allowance they took.
AbsentCountExact ==
    \A o \in Owners :
        absent[o] = Cardinality({i \in Of(o) : retired[i].source = "Absent"})

\* The capacity of identities admits every retirement that a removal may need, so
\* remove_owner never meets "bundle retirement capacity invariant blocked owner
\* removal" and leaves no advertisement behind.
RemovalNeverBlocked ==
    \A o \in Owners :
        /\ Live(RetireAll(Directory, o)) \cap Of(o) = {}
        /\ Cardinality(Retired(RetireAll(Directory, o))) <= IdentityGlobal

\* An owner that holds an authority is not fenced by what an earlier registration
\* of the same instance retired: every retirement of its identities was asked for
\* under the authority it holds, or comes from its own removal.
FreshOwnerUnfenced ==
    \A i \in Retired(Directory) :
        owners[i[2]].current # None =>
            /\ fences[i].epoch = owners[i[2]].current
            /\ fences[i].top >= retired[i].generation

\* An advertisement that has not expired disappears only when it is retired (its
\* generation stays fenced until it would have expired) or when another
\* registration of its owner is finalized; a staged registration that is rolled
\* back loses none.
Lost(i) == /\ advertisements[i] # NoAd /\ advertisements[i].expires > now
           /\ advertisements'[i] = NoAd
NoAdvertisementLost ==
    [][\A i \in Identities : Lost(i) =>
          \/ /\ retired'[i].generation >= advertisements[i].generation
             /\ retired'[i].until >= advertisements[i].expires
          \/ /\ IsPending(owners[i[2]]) /\ ~IsPending(owners'[i[2]])
             /\ owners'[i[2]].current = owners[i[2]].pending.next]_directoryVars

\* The types of the directory, its allowance of absent retirements (decrement_absent) and
\* the room it keeps for the retirements of a removal (ensure_new_identity).
DirectoryInv == DirectoryTypeOK /\ AbsentCountExact /\ RemovalNeverBlocked
==============================================================================
