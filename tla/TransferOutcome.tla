--------------------------- MODULE TransferOutcome ---------------------------
(***************************************************************************)
(* What a TransferHandle of the offload engine promises to its holder,     *)
(* whatever pipelines, routes and queues the transfer passes through:      *)
(* one decision between cancellation and commitment, one result that       *)
(* agrees with it and with every fault, no source guard held behind a      *)
(* published result, and a confirmed cancellation only after the result.   *)
(***************************************************************************)
CONSTANT Transfers

VARIABLES
    submitted,        \* the transfer was enqueued
    decision,         \* "Open", "Committed" or "Cancelled"
    requested,        \* the holder called cancel()
    holding,          \* some source or pending guard of the transfer is alive
    fault,            \* a committed part of the transfer failed
    unproven,         \* the end of some physical work was never proved
    result,           \* the terminal status, or "none"
    live              \* some part of the transfer still owns a cancellation unit

outcomeVars == <<submitted, decision, requested, holding, fault, unproven, result, live>>

OutcomeInit ==
    /\ submitted = [t \in Transfers |-> FALSE]
    /\ decision = [t \in Transfers |-> "Open"]
    /\ requested = [t \in Transfers |-> FALSE]
    /\ holding = [t \in Transfers |-> FALSE]
    /\ fault = [t \in Transfers |-> FALSE]
    /\ unproven = [t \in Transfers |-> FALSE]
    /\ result = [t \in Transfers |-> "none"]
    /\ live = [t \in Transfers |-> FALSE]

Submit(t) ==
    /\ ~ submitted[t]
    /\ submitted' = [submitted EXCEPT ![t] = TRUE]
    /\ live' = [live EXCEPT ![t] = TRUE]
    /\ \E held \in BOOLEAN : holding' = [holding EXCEPT ![t] = held]
    /\ UNCHANGED <<decision, requested, fault, unproven, result>>

\* A request cancels the transfer if nothing is committed yet.
Cancel(t) ==
    /\ submitted[t] /\ ~ requested[t]
    /\ requested' = [requested EXCEPT ![t] = TRUE]
    /\ decision' = [decision EXCEPT ![t] = IF @ = "Open" THEN "Cancelled" ELSE @]
    /\ UNCHANGED <<submitted, holding, fault, unproven, result, live>>

\* The source blocks may turn out to be gone, and nothing is held then.
Commit(t) ==
    /\ submitted[t] /\ decision[t] = "Open" /\ result[t] = "none"
    /\ decision' = [decision EXCEPT ![t] = "Committed"]
    /\ \E held \in BOOLEAN :
        /\ held => holding[t]
        /\ holding' = [holding EXCEPT ![t] = held]
    /\ UNCHANGED <<submitted, requested, fault, unproven, result, live>>

\* Guards are released, and committed routes may take new ones.  Unproven
\* physical work keeps its own for ever.
Hold(t) ==
    /\ submitted[t] /\ result[t] = "none"
    /\ \E held \in BOOLEAN :
        /\ held => decision[t] = "Committed"
        /\ unproven[t] => held
        /\ holding' = [holding EXCEPT ![t] = held]
    /\ UNCHANGED <<submitted, decision, requested, fault, unproven, result, live>>

Fault(t) ==
    /\ decision[t] = "Committed" /\ result[t] = "none"
    /\ fault' = [fault EXCEPT ![t] = TRUE]
    /\ \E held \in BOOLEAN :
        /\ unproven[t] => held
        /\ holding' = [holding EXCEPT ![t] = held]
    /\ UNCHANGED <<submitted, decision, requested, unproven, result, live>>

Retain(t) ==
    /\ decision[t] = "Committed" /\ result[t] = "none" /\ holding[t]
    /\ fault' = [fault EXCEPT ![t] = TRUE]
    /\ unproven' = [unproven EXCEPT ![t] = TRUE]
    /\ UNCHANGED <<submitted, decision, requested, holding, result, live>>

\* The results that agree with the decision: a committed transfer tells of
\* its faults, and only a cancelled one is reported so.
Results(t) ==
    CASE decision[t] = "Open" -> {"Complete", "Failed"}
      [] decision[t] = "Cancelled" -> {"Complete", "Failed", "Cancelled"}
      [] decision[t] = "Committed" -> IF fault[t] THEN {"Failed"} ELSE {"Complete"}

Publish(t) ==
    /\ submitted[t] /\ result[t] = "none" /\ ~ holding[t] /\ ~ unproven[t]
    /\ \E r \in Results(t) : result' = [result EXCEPT ![t] = r]
    /\ UNCHANGED <<submitted, decision, requested, holding, fault, unproven, live>>

\* The last unit is gone: with a request, the cancellation is confirmed.
Close(t) ==
    /\ live[t] /\ result[t] # "none"
    /\ live' = [live EXCEPT ![t] = FALSE]
    /\ UNCHANGED <<submitted, decision, requested, holding, fault, unproven, result>>

OutcomeNext ==
    \E t \in Transfers :
        \/ Submit(t) \/ Cancel(t) \/ Commit(t) \/ Hold(t) \/ Fault(t)
        \/ Retain(t) \/ Publish(t) \/ Close(t)

OutcomeSpec == OutcomeInit /\ [][OutcomeNext]_outcomeVars

----------------------------------------------------------------------------
\* Every variable stays in its type.
OutcomeTypeOK ==
    /\ submitted \in [Transfers -> BOOLEAN]
    /\ decision \in [Transfers -> {"Open", "Committed", "Cancelled"}]
    /\ requested \in [Transfers -> BOOLEAN]
    /\ holding \in [Transfers -> BOOLEAN]
    /\ fault \in [Transfers -> BOOLEAN]
    /\ unproven \in [Transfers -> BOOLEAN]
    /\ result \in [Transfers -> {"none", "Complete", "Failed", "Cancelled"}]
    /\ live \in [Transfers -> BOOLEAN]

\* A published result never tells of a guard still held, of physical work still
\* running, of a fault as of a success, or of a committed transfer as cancelled,
\* even when the decision is taken after it (TransferState::finalize).
ResultIsTrue ==
    \A t \in Transfers : result[t] # "none" =>
        ~ holding[t] /\ ~ unproven[t] /\ result[t] \in Results(t)

\* Faults and unproven work belong to committed transfers, and what is unproven
\* is still held (LocalPhysicalOwnership).
FaultsAreCommitted ==
    \A t \in Transfers :
        /\ unproven[t] => fault[t] /\ holding[t]
        /\ fault[t] => decision[t] = "Committed"
        /\ decision[t] = "Committed" => submitted[t]

\* A cancellation is confirmed, the last unit being gone, only when the result
\* is out and every guard is released (CancelConfirmation).
ConfirmedIsSettled ==
    \A t \in Transfers : submitted[t] /\ ~ live[t] => result[t] # "none" /\ ~ holding[t]

\* Nothing is published before a transfer is enqueued (TransferHandle).
NothingBeforeSubmit == \A t \in Transfers : ~ submitted[t] => result[t] = "none"

\* The promises of a handle.
OutcomeInv ==
    /\ OutcomeTypeOK /\ ResultIsTrue /\ FaultsAreCommitted
    /\ ConfirmedIsSettled /\ NothingBeforeSubmit
==============================================================================
