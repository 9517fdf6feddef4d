--------------------------- MODULE OwnerAuthority ---------------------------
(***************************************************************************)
(* The two-phase transfer of one owner's mutation authority in the hub's   *)
(* bundle directory (kvbm-hub features/indexer/bundle).  A registration    *)
(* stages the next authority, which hides the previous one; binding ties   *)
(* it to a registry write; finalizing installs it.  Replaying the previous *)
(* authority through the staging hook rolls the transfer back.             *)
(*                                                                         *)
(* An authority is named by its registration epoch, which is generated     *)
(* together with its credential; None stands for NextAuthority::Removed    *)
(* and for an owner without authority.                                     *)
(***************************************************************************)
EXTENDS Naturals

None == 0
NoPending == [previous |-> None, next |-> None, transaction |-> None, incarnation |-> None]
NoAuthority == [current |-> None, pending |-> NoPending]
IsPending(a) == a.pending # NoPending

\* What a call on the owner's authority does: its new value, whether the call
\* succeeds, and whether it clears the owner's directory metadata.
Outcome(a, ok, clears) == [owner |-> a, ok |-> ok, clears |-> clears]
Install(next) == [current |-> next, pending |-> NoPending]

stage_owner_transition(a, next, transaction) ==
    CASE IsPending(a) /\ a.pending.next = next ->
           IF a.pending.transaction = transaction THEN Outcome(a, TRUE, FALSE)
           ELSE Outcome(Install(next), TRUE, TRUE)
      [] IsPending(a) /\ a.pending.next # next ->
           IF a.pending.previous = next THEN Outcome(Install(next), TRUE, FALSE)
           ELSE Outcome(a, FALSE, FALSE)
      [] ~IsPending(a) /\ a.current = next -> Outcome(a, TRUE, FALSE)
      [] ~IsPending(a) /\ a.current # next ->
           Outcome([current |-> None,
                    pending |-> [previous |-> a.current, next |-> next,
                                 transaction |-> transaction, incarnation |-> None]],
                   TRUE, FALSE)

bind_owner_registration(a, transaction, incarnation) ==
    IF ~IsPending(a) THEN Outcome(a, TRUE, FALSE)
    ELSE IF \/ a.pending.transaction # transaction
            \/ a.pending.incarnation \notin {None, incarnation}
         THEN Outcome(a, FALSE, FALSE)
         ELSE Outcome([a EXCEPT !.pending.incarnation = incarnation], TRUE, FALSE)

finalize_owner_registration(a, incarnation) ==
    IF ~IsPending(a) THEN Outcome(a, TRUE, FALSE)
    ELSE IF a.pending.incarnation # incarnation THEN Outcome(a, FALSE, FALSE)
         ELSE Outcome(Install(a.pending.next), TRUE, TRUE)
==============================================================================
