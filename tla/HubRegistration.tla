--------------------------- MODULE HubRegistration ---------------------------
(***************************************************************************)
(* Registration of one instance at the hub (kvbm-hub registration/ and     *)
(* registry/): the transaction that rotates its credential, writes the     *)
(* peer registry and enters it with the feature managers, its rollback,    *)
(* unregistration, and the removals the liveness reaper and the heartbeat  *)
(* make at any time, whose callback runs after the registry lock is        *)
(* released.                                                               *)
(*                                                                         *)
(* Three locks are involved, the registry's, the credential table's and    *)
(* each manager's; a step holds one of them.  A manager is reduced to its  *)
(* set of member instances, and the indexer's to the owner authority of    *)
(* its bundle directory as well.                                           *)
(***************************************************************************)
EXTENDS OwnerAuthority

CONSTANTS
    Calls,              \* concurrent register and unregister requests
    Features,           \* feature managers attached to the hub
    BackendFails,       \* may a registry backend fail to unregister?
    MaxEpoch,           \* bound: registrations attempted
    MaxIncarnation      \* bound: registry writes

ASSUME RegistrationConstants ==
    /\ "indexer" \in Features /\ BackendFails \in BOOLEAN
    /\ MaxEpoch \in Nat /\ MaxIncarnation \in Nat

VARIABLES
    registry,           \* by_instance: the current incarnation, or None
    last_incarnation,
    state,              \* CredentialState of the instance
    calls,              \* request -> where it is in its handler
    removals,           \* removal callbacks that have not returned
    members,            \* managers that list the instance
    authority,          \* the bundle directory's authority of the instance
    held,               \* credentials (by epoch) returned to the client
    epochs,             \* credentials generated so far
    disturbed           \* history: have requests overlapped, has a backend failed?

registrationVars == <<registry, last_incarnation, state, calls, removals, members, authority,
                      held, epochs>>

Registration(i, e, f) == [incarnation |-> i, epoch |-> e, features |-> f]
NoRegistration == Registration(None, None, {})
Credential(kind, reg, removed) == [kind |-> kind, reg |-> reg, removed |-> removed]
NoCredential == Credential("None", NoRegistration, {})
OfIncarnation(kind, i) == Credential(kind, Registration(i, None, {}), {})
Idle == [pc |-> "idle", epoch |-> None, previous |-> NoRegistration, features |-> {},
         attempted |-> None, target |-> None, left |-> {}, after |-> "idle"]

\* The authority a registration stages or replays at the indexer manager.
AuthorityOf(e, f) == IF "indexer" \in f THEN e ELSE None

RegistrationTypeOK ==
    /\ last_incarnation \in 0 .. MaxIncarnation /\ registry \in 0 .. last_incarnation
    /\ state.kind \in {"None", "Removed", "Reserved", "Active", "Registering",
                       "Unregistering", "Revoking"}
    /\ state.reg.epoch \in 0 .. MaxEpoch /\ state.removed \subseteq 1 .. MaxIncarnation
    /\ members \subseteq Features /\ held \subseteq 1 .. epochs
    /\ authority.current \in 0 .. MaxEpoch

\* A hub may start over a registry that already holds the instance: the startup
\* snapshot reserves its incarnation (synchronize_reservations).
RegistrationInit ==
    /\ \E i \in {None, 1} :
         /\ registry = i /\ last_incarnation = i
         /\ state = IF i = None THEN NoCredential ELSE OfIncarnation("Reserved", i)
    /\ calls = [c \in Calls |-> Idle] /\ removals = {} /\ members = {}
    /\ authority = NoAuthority /\ held = {} /\ epochs = 0
    /\ disturbed = [overlap |-> FALSE, backend |-> FALSE]

Go(c, pc) == calls' = [calls EXCEPT ![c].pc = pc]
Mine(c) == state.kind = "Registering" /\ state.reg.epoch = calls[c].epoch
At(c, pc) == calls[c].pc = pc
managerVars == <<members, authority>>
registryVars == <<registry, last_incarnation>>

\* FeatureManager::on_unregister of one manager; the indexer also drops its owner.
on_unregister(f) ==
    /\ members' = members \ {f}
    /\ authority' = IF f = "indexer" THEN NoAuthority ELSE authority
-----------------------------------------------------------------------------
(***************************************************************************)
(* The registration transaction.                                           *)
(***************************************************************************)
begin_registration_AnyState(c, f) ==
    /\ At(c, "idle") /\ epochs < MaxEpoch
    /\ epochs' = epochs + 1
    /\ state' = Credential("Registering", Registration(None, epochs + 1, {}), {})
    /\ calls' = [calls EXCEPT ![c] =
          [Idle EXCEPT !.pc = "stage", !.epoch = epochs + 1, !.features = f,
                       !.previous = IF state.kind = "Active" THEN state.reg ELSE NoRegistration]]
    /\ UNCHANGED <<registryVars, removals, managerVars, held>>
begin_registration(c, f) ==
    /\ At(c, "idle") /\ epochs < MaxEpoch
    /\ \/ state.kind \in {"None", "Removed"}
       \/ state.kind = "Active" /\ state.reg.epoch \in held
    /\ epochs' = epochs + 1
    /\ state' = Credential("Registering", Registration(None, epochs + 1, {}), {})
    /\ calls' = [calls EXCEPT ![c] =
          [Idle EXCEPT !.pc = "stage", !.epoch = epochs + 1, !.features = f,
                       !.previous = IF state.kind = "Active" THEN state.reg ELSE NoRegistration]]
    /\ UNCHANGED <<registryVars, removals, managerVars, held>>

stage_manager_registrations(c) ==
    LET outcome == stage_owner_transition(authority,
                       AuthorityOf(calls[c].epoch, calls[c].features), calls[c].epoch)
    IN  /\ At(c, "stage")
        /\ authority' = outcome.owner
        /\ Go(c, IF outcome.ok THEN "write" ELSE "reject")
        /\ UNCHANGED <<registryVars, state, removals, members, held, epochs>>

\* registry.register, which another instance's claim on the worker may refuse.
register(c) ==
    /\ At(c, "write")
    /\ \/ /\ last_incarnation < MaxIncarnation
          /\ last_incarnation' = last_incarnation + 1 /\ registry' = last_incarnation + 1
          /\ calls' = [calls EXCEPT ![c].pc = "record", ![c].attempted = last_incarnation + 1]
       \/ Go(c, "reject") /\ UNCHANGED registryVars
    /\ UNCHANGED <<state, removals, managerVars, held, epochs>>

record_registry_write(c) ==
    LET i == calls[c].attempted IN
    /\ At(c, "record")
    /\ state' = IF Mine(c) THEN [state EXCEPT !.reg.incarnation = i] ELSE state
    /\ calls' = [calls EXCEPT ![c].pc = IF Mine(c) /\ i \notin state.removed
                                        THEN "features" ELSE "rollback",
                              ![c].left = calls[c].features]
    /\ UNCHANGED <<registryVars, removals, managerVars, held, epochs>>

\* on_register of each requested feature: the manager enters the instance or
\* refuses the configuration.
on_register(c) ==
    /\ At(c, "features")
    /\ \E f \in calls[c].left :
         \/ /\ members' = members \cup {f}
            /\ calls' = [calls EXCEPT ![c].left = @ \ {f}]
         \/ Go(c, "rollback") /\ UNCHANGED members
    /\ UNCHANGED <<registryVars, state, removals, authority, held, epochs>>

\* commit_registration of every manager, then the transport's register_peer.
bind_managers(c) ==
    LET outcome == bind_owner_registration(authority, calls[c].epoch, calls[c].attempted)
    IN  /\ At(c, "features") /\ calls[c].left = {}
        /\ authority' = outcome.owner
        /\ \E next \in {"commit", "rollback"} : (next = "commit" => outcome.ok) /\ Go(c, next)
        /\ UNCHANGED <<registryVars, state, removals, members, held, epochs>>

commit_registration_IgnoreRemoved(c) ==
    /\ At(c, "commit") /\ Mine(c)
    /\ state' = Credential("Active", Registration(calls[c].attempted, calls[c].epoch,
                                                  calls[c].features), {})
    /\ Go(c, "finalize")
    /\ UNCHANGED <<registryVars, removals, managerVars, held, epochs>>
commit_registration(c) ==
    /\ At(c, "commit")
    /\ IF Mine(c) /\ state.reg.incarnation = calls[c].attempted
                  /\ calls[c].attempted \notin state.removed
       THEN /\ state' = Credential("Active", Registration(calls[c].attempted, calls[c].epoch,
                                                          calls[c].features), {})
            /\ Go(c, "finalize")
       ELSE Go(c, "rollback") /\ UNCHANGED state
    /\ UNCHANGED <<registryVars, removals, managerVars, held, epochs>>

\* on_register_any of every manager.
on_register_any(c) ==
    /\ At(c, "finalize")
    /\ authority' = finalize_owner_registration(authority, calls[c].attempted).owner
    /\ calls' = [calls EXCEPT ![c].pc = "drop", ![c].left = calls[c].previous.features
                                                           \ calls[c].features]
    /\ UNCHANGED <<registryVars, state, removals, members, held, epochs>>

\* on_unregister of the features the new registration no longer has.
drop_feature(c) ==
    /\ At(c, "drop")
    /\ \E f \in calls[c].left :
         on_unregister(f) /\ calls' = [calls EXCEPT ![c].left = @ \ {f}]
    /\ UNCHANGED <<registryVars, state, removals, held, epochs>>

\* The response carries the credential; it may be lost.
respond(c) ==
    /\ At(c, "drop") /\ calls[c].left = {}
    /\ held' \in {held, held \cup {calls[c].epoch}}
    /\ calls' = [calls EXCEPT ![c] = Idle]
    /\ UNCHANGED <<registryVars, state, removals, managerVars, epochs>>
-----------------------------------------------------------------------------
(***************************************************************************)
(* Rollback.                                                               *)
(***************************************************************************)
Replay(c) == LET p == calls[c].previous
             IN  stage_owner_transition(authority, AuthorityOf(p.epoch, p.features), p.epoch)
HasPrevious(c) == calls[c].previous # NoRegistration

\* rollback_failed_registry_write: the registry still holds the previous write.
reject_NoAbort(c) ==
    /\ At(c, "reject")
    /\ authority' = IF HasPrevious(c) THEN Replay(c).owner ELSE authority
    /\ calls' = [calls EXCEPT ![c] = Idle]
    /\ UNCHANGED <<registryVars, state, removals, members, held, epochs>>
reject(c) ==
    LET outcome == IF HasPrevious(c) THEN Replay(c) ELSE Outcome(authority, TRUE, FALSE)
    IN  /\ At(c, "reject")
        /\ authority' = outcome.owner
        /\ calls' = [calls EXCEPT ![c].pc = IF outcome.ok THEN "abort" ELSE "fail_closed",
                                  ![c].target = calls[c].previous.incarnation]
        /\ UNCHANGED <<registryVars, state, removals, members, held, epochs>>

\* rollback_registration: without a previous registration the write is removed;
\* with one, restore_registration writes it again under a fresh incarnation.
rollback(c) ==
    /\ At(c, "rollback")
    /\ \/ /\ ~HasPrevious(c)
          /\ calls' = [calls EXCEPT ![c].pc = "remove", ![c].target = calls[c].attempted,
                                    ![c].after = "reserve"]
          /\ UNCHANGED registryVars
       \/ /\ HasPrevious(c) /\ last_incarnation < MaxIncarnation
          /\ last_incarnation' = last_incarnation + 1 /\ registry' = last_incarnation + 1
          /\ calls' = [calls EXCEPT ![c].pc = "restore", ![c].target = last_incarnation + 1,
                                    ![c].left = calls[c].features]
       \/ /\ HasPrevious(c)
          /\ calls' = [calls EXCEPT ![c].pc = "remove", ![c].target = calls[c].attempted,
                                    ![c].after = "reserve"]
          /\ UNCHANGED registryVars
    /\ UNCHANGED <<state, removals, managerVars, held, epochs>>

\* The restored write fails later: it is removed, then the attempted one.
Unrestore(c) == calls' = [calls EXCEPT ![c].pc = "remove", ![c].after = "rollback_failed"]

\* restore_registration_after_registry: replay the previous authority, give each
\* attempted feature its previous registration or none, bind and re-announce.
restore_registration(c) ==
    /\ At(c, "restore")
    /\ authority' = Replay(c).owner
    /\ IF Replay(c).ok THEN Go(c, "restore_features") ELSE Unrestore(c)
    /\ UNCHANGED <<registryVars, state, removals, members, held, epochs>>

restore_feature_Keep(c) ==
    /\ At(c, "restore_features")
    /\ \E f \in calls[c].left :
         /\ members' = members \cup {f} /\ UNCHANGED authority
         /\ calls' = [calls EXCEPT ![c].left = @ \ {f}]
    /\ UNCHANGED <<registryVars, state, removals, held, epochs>>
restore_feature(c) ==
    /\ At(c, "restore_features")
    /\ \E f \in calls[c].left :
         \/ /\ f \in calls[c].previous.features
            /\ \/ members' = members \cup {f} /\ calls' = [calls EXCEPT ![c].left = @ \ {f}]
               \/ Unrestore(c) /\ UNCHANGED members
            /\ UNCHANGED authority
         \/ /\ f \notin calls[c].previous.features
            /\ on_unregister(f) /\ calls' = [calls EXCEPT ![c].left = @ \ {f}]
    /\ UNCHANGED <<registryVars, state, removals, held, epochs>>

restore_bind(c) ==
    LET outcome == bind_owner_registration(authority, calls[c].previous.epoch, calls[c].target)
    IN  /\ At(c, "restore_features") /\ calls[c].left = {}
        /\ authority' = outcome.owner
        /\ \/ outcome.ok /\ calls' = [calls EXCEPT ![c].pc = "abort", ![c].after = "restored"]
           \/ Unrestore(c)
        /\ UNCHANGED <<registryVars, state, removals, members, held, epochs>>

\* After the restored write, the attempted one is removed as well.
rollback_failed(c) ==
    /\ At(c, "rollback_failed")
    /\ calls' = [calls EXCEPT ![c].pc = "remove", ![c].target = calls[c].attempted,
                              ![c].after = "reserve"]
    /\ UNCHANGED <<registryVars, state, removals, managerVars, held, epochs>>

\* abort_registration: the previous registration becomes active again under the
\* restored incarnation, unless that incarnation was removed meanwhile; then the
\* credential goes first and the managers are cleaned up after it.
abort_registration(c) ==
    /\ At(c, "abort")
    /\ IF Mine(c) /\ HasPrevious(c) /\ calls[c].target \notin state.removed
       THEN /\ state' = Credential("Active", [calls[c].previous EXCEPT !.incarnation =
                                                  calls[c].target], {})
            /\ IF calls[c].after = "restored" THEN Go(c, "restored")
               ELSE calls' = [calls EXCEPT ![c] = Idle]
       ELSE /\ state' = IF Mine(c) THEN NoCredential ELSE state
            /\ calls' = [calls EXCEPT ![c].pc = "cleanup", ![c].left = Features,
                                      ![c].after = IF @ = "restored" THEN "remove" ELSE "idle"]
    /\ UNCHANGED <<registryVars, removals, managerVars, held, epochs>>

\* on_register_any for the restored registration.
restored(c) ==
    /\ At(c, "restored")
    /\ authority' = finalize_owner_registration(authority, calls[c].target).owner
    /\ calls' = [calls EXCEPT ![c] = Idle]
    /\ UNCHANGED <<registryVars, state, removals, members, held, epochs>>

\* fail_closed_registration reserves what the registry still holds, read before.
reserve(c) ==
    /\ At(c, "reserve")
    /\ calls' = [calls EXCEPT ![c].pc = "fail_closed", ![c].target = registry]
    /\ UNCHANGED <<registryVars, state, removals, managerVars, held, epochs>>

fail_closed_registration_NoCleanup(c) ==
    /\ At(c, "fail_closed")
    /\ state' = IF calls[c].target # None THEN OfIncarnation("Reserved", calls[c].target)
                ELSE NoCredential
    /\ calls' = [calls EXCEPT ![c] = Idle]
    /\ UNCHANGED <<registryVars, removals, managerVars, held, epochs>>
fail_closed_registration(c) ==
    LET i == calls[c].target IN
    /\ At(c, "fail_closed")
    /\ state' = IF ~Mine(c) THEN state
                ELSE IF i # None THEN OfIncarnation("Reserved", i) ELSE NoCredential
    /\ calls' = [calls EXCEPT ![c].pc = "cleanup", ![c].left = Features, ![c].after = "idle"]
    /\ UNCHANGED <<registryVars, removals, managerVars, held, epochs>>

\* cleanup_managers, manager by manager.
cleanup_managers(c) ==
    /\ At(c, "cleanup")
    /\ \/ \E f \in calls[c].left :
             on_unregister(f) /\ calls' = [calls EXCEPT ![c].left = @ \ {f}]
       \/ /\ calls[c].left = {} /\ UNCHANGED managerVars
          /\ calls' = IF calls[c].after = "remove"
                      THEN [calls EXCEPT ![c].pc = "remove", ![c].after = "idle"]
                      ELSE [calls EXCEPT ![c] = Idle]
    /\ UNCHANGED <<registryVars, state, removals, held, epochs>>
-----------------------------------------------------------------------------
(***************************************************************************)
(* Removal: by a call, whose callback runs inline, or by the reaper or the *)
(* heartbeat.                                                              *)
(***************************************************************************)
Removal(i, by) == [incarnation |-> i, by |-> by, phase |-> "begin", left |-> {}]

\* remove_registry_incarnation and unregister_instance: the callback of a removal,
\* and the revocation of an incarnation that is not there any more, are the same
\* call of revoke.  A failing backend leaves the entry and is only logged, or the
\* credential of an unregistration is restored.
remove(c) ==
    /\ At(c, "remove")
    /\ \/ /\ registry' = IF registry = calls[c].target THEN None ELSE registry
          /\ removals' = removals \cup {Removal(calls[c].target, c)} /\ UNCHANGED state
       \/ /\ BackendFails
          /\ state' = IF state.kind = "Unregistering" /\ state.reg.incarnation = calls[c].target
                      THEN [state EXCEPT !.kind = "Active"] ELSE state
          /\ UNCHANGED <<registry, removals>>
    /\ Go(c, "await")
    /\ UNCHANGED <<last_incarnation, managerVars, held, epochs>>

await(c) ==
    /\ At(c, "await") /\ \A r \in removals : r.by # c
    /\ calls' = IF calls[c].after = "idle" THEN [calls EXCEPT ![c] = Idle]
                ELSE [calls EXCEPT ![c].pc = calls[c].after]
    /\ UNCHANGED <<registryVars, state, removals, managerVars, held, epochs>>

begin_unregister(c) ==
    /\ At(c, "idle") /\ state.kind = "Active" /\ state.reg.epoch \in held
    /\ state' = [state EXCEPT !.kind = "Unregistering"]
    /\ calls' = [calls EXCEPT ![c] = [Idle EXCEPT !.pc = "remove",
                                                  !.target = state.reg.incarnation]]
    /\ UNCHANGED <<registryVars, removals, managerVars, held, epochs>>

\* prune_stale or a heartbeat's unregister removes the current incarnation.
Evict ==
    /\ registry # None
    /\ registry' = None /\ removals' = removals \cup {Removal(registry, "reaper")}
    /\ UNCHANGED <<last_incarnation, state, calls, managerVars, held, epochs>>

begin_revocation(r) ==
    LET i == r.incarnation
        Ignore(s) == state' = s /\ removals' = removals \ {r}
    IN
    /\ r \in removals /\ r.phase = "begin"
    /\ CASE state.kind = "None" -> Ignore(OfIncarnation("Removed", i))
         [] state.kind = "Reserved" ->
              Ignore(IF state.reg.incarnation = i THEN NoCredential ELSE state)
         [] state.kind = "Registering" -> Ignore([state EXCEPT !.removed = @ \cup {i}])
         [] state.kind \in {"Active", "Unregistering"} /\ state.reg.incarnation = i ->
              /\ state' = OfIncarnation("Revoking", i)
              /\ removals' = (removals \ {r}) \cup {[r EXCEPT !.phase = "cleanup",
                                                              !.left = Features]}
         [] OTHER -> Ignore(state)
    /\ UNCHANGED <<registryVars, calls, managerVars, held, epochs>>

revoke(r) ==
    /\ r \in removals /\ r.phase = "cleanup"
    /\ \/ \E f \in r.left :
             /\ on_unregister(f) /\ UNCHANGED state
             /\ removals' = (removals \ {r}) \cup {[r EXCEPT !.left = @ \ {f}]}
       \/ /\ r.left = {} /\ UNCHANGED managerVars
          /\ removals' = removals \ {r}
          /\ state' = IF state = OfIncarnation("Revoking", r.incarnation)
                      THEN NoCredential ELSE state
    /\ UNCHANGED <<registryVars, calls, held, epochs>>
-----------------------------------------------------------------------------
Handle(c) ==
    \/ stage_manager_registrations(c) \/ register(c) \/ record_registry_write(c)
    \/ on_register(c) \/ bind_managers(c) \/ commit_registration(c) \/ on_register_any(c)
    \/ drop_feature(c) \/ respond(c)
    \/ reject(c) \/ rollback(c) \/ restore_registration(c) \/ restore_feature(c)
    \/ restore_bind(c) \/ rollback_failed(c) \/ abort_registration(c) \/ restored(c)
    \/ reserve(c) \/ fail_closed_registration(c) \/ cleanup_managers(c)
    \/ remove(c) \/ await(c)
RunCallback == \E r \in removals : begin_revocation(r) \/ revoke(r)

RegistrationStep ==
    \/ \E c \in Calls : \/ \E f \in SUBSET Features : begin_registration(c, f)
                        \/ begin_unregister(c) \/ Handle(c)
    \/ Evict \/ RunCallback

\* Two handlers at once, or a removal that added no callback.
Disturbed ==
    [overlap |-> disturbed.overlap \/ \E c, d \in Calls : c # d /\ calls'[c].pc # "idle"
                                                               /\ calls'[d].pc # "idle",
     backend |-> disturbed.backend \/ \E c \in Calls : At(c, "remove") /\ calls'[c].pc = "await"
                                                           /\ removals' = removals]

\* Bound: a behaviour has overlapping requests or failing backends, not both.
DisturbanceBound == ~(Disturbed.overlap /\ Disturbed.backend)

RegistrationNext == RegistrationStep /\ disturbed' = Disturbed /\ DisturbanceBound
RegistrationSpec ==
    RegistrationInit /\ [][RegistrationNext]_<<registrationVars, disturbed>>

\* Handlers that were entered and callbacks that are due go on running.
RegistrationFairness == WF_registrationVars((\E c \in Calls : Handle(c)) \/ RunCallback)
FairRegistrationSpec == RegistrationSpec /\ RegistrationFairness
-----------------------------------------------------------------------------
Quiet == removals = {} /\ \A c \in Calls : At(c, "idle")

\* Requests of one instance are serialized by its credential: while a handler is
\* between its first and its deciding step, the credential is Registering under that
\* handler's epoch, whatever other requests and removals do.
OneTransaction ==
    \A c \in Calls : calls[c].epoch # None
                   /\ calls[c].pc \notin {"finalize", "drop", "restored", "cleanup", "remove",
                                         "await"}
        => Mine(c)

\* An active registration's authority is its own: the bundle directory never
\* accepts another registration's credential while this one is committed.
NoForeignAuthority ==
    state.kind = "Active" => authority.current \in {None, state.reg.epoch}

\* The types; one transaction of the instance at a time (begin_registration), and no
\* other registration's authority while one is committed (stage_owner_transition).
RegistrationInv == RegistrationTypeOK /\ OneTransaction /\ NoForeignAuthority

\* Once every handler and callback has returned, the credential table speaks of
\* the incarnation the registry holds and an active one is there: no removal is
\* forgotten, whenever it overtook a commit or a rollback, and none revokes a later
\* write.  (A reservation made after a backend failed to unregister, or by requests
\* that overlapped, may outlive the entry it stands for: fail_closed_registration does
\* not ask whether the incarnation it reserves was removed.)
CredentialMatchesRegistry ==
    Quiet /\ ~disturbed.backend =>
        /\ registry # None =>
               state.kind \in {"Active", "Reserved"} /\ state.reg.incarnation = registry
        /\ state.kind = "Active" => state.reg.incarnation = registry
        /\ state.kind = "Reserved" /\ ~disturbed.overlap => state.reg.incarnation = registry

\* Once every handler and callback has returned, an instance without an active
\* registration is listed by no manager and owns nothing in the bundle directory.
NoTraceAfterDeparture ==
    Quiet /\ state.kind # "Active" => members = {} /\ authority = NoAuthority

\* Once every handler and callback has returned, an active registration has all its
\* features: it is listed by exactly their managers and holds its authority, after
\* any failed re-registration and its rollback.  (A retry that overlaps a failing
\* request may lose features to that request's late cleanup_managers.)
ActiveIsWhole ==
    Quiet /\ state.kind = "Active" /\ ~disturbed.overlap =>
        /\ members = state.reg.features
        /\ authority = Install(AuthorityOf(state.reg.epoch, state.reg.features))

\* A busy credential (a registration, unregistration or revocation in progress)
\* does not stay busy: the next request is not refused for ever.
BusyEnds ==
    (state.kind \in {"Registering", "Unregistering", "Revoking"})
        ~> (state.kind \notin {"Registering", "Unregistering", "Revoking"})
==============================================================================
