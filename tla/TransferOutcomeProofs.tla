------------------------ MODULE TransferOutcomeProofs ------------------------
(***************************************************************************)
(* The contract of a TransferHandle keeps its promises for every set of    *)
(* transfers.  The pipelines of Offload implement the contract, so they    *)
(* keep them as well.                                                      *)
(***************************************************************************)
EXTENDS TransferOutcome, TLAPS

\* The promises hold before anything is enqueued (OffloadEngineBuilder::build).
LEMMA OutcomeInitInv == OutcomeInit => OutcomeInv
BY DEF OutcomeInit, OutcomeInv, OutcomeTypeOK, ResultIsTrue, FaultsAreCommitted,
       ConfirmedIsSettled, NothingBeforeSubmit

\* No step breaks the promises (TransferState, CancellationUnit): a result is published only when nothing is held,
\* and after it neither guards nor faults change.
LEMMA OutcomeStepInv == OutcomeInv /\ [OutcomeNext]_outcomeVars => OutcomeInv'
<1> SUFFICES ASSUME OutcomeInv, [OutcomeNext]_outcomeVars PROVE OutcomeInv'
  OBVIOUS
<1> USE DEF OutcomeInv, OutcomeTypeOK, ResultIsTrue, FaultsAreCommitted,
            ConfirmedIsSettled, NothingBeforeSubmit, Results
<1>1. ASSUME NEW t \in Transfers, Submit(t) PROVE OutcomeInv'
  BY <1>1 DEF Submit
<1>2. ASSUME NEW t \in Transfers, Cancel(t) PROVE OutcomeInv'
  BY <1>2 DEF Cancel
<1>3. ASSUME NEW t \in Transfers, Commit(t) PROVE OutcomeInv'
  BY <1>3 DEF Commit
<1>4. ASSUME NEW t \in Transfers, Hold(t) PROVE OutcomeInv'
  BY <1>4 DEF Hold
<1>5. ASSUME NEW t \in Transfers, Fault(t) PROVE OutcomeInv'
  BY <1>5 DEF Fault
<1>6. ASSUME NEW t \in Transfers, Retain(t) PROVE OutcomeInv'
  BY <1>6 DEF Retain
<1>7. ASSUME NEW t \in Transfers, Publish(t) PROVE OutcomeInv'
  BY <1>7 DEF Publish
<1>8. ASSUME NEW t \in Transfers, Close(t) PROVE OutcomeInv'
  BY <1>8 DEF Close
<1>9. CASE UNCHANGED outcomeVars
  BY <1>9 DEF outcomeVars
<1>10. QED
  BY <1>1, <1>2, <1>3, <1>4, <1>5, <1>6, <1>7, <1>8, <1>9 DEF OutcomeNext

\* The TransferHandle never lies: in every reachable state a published result agrees
\* with the decision and the faults, nothing is held behind it, and a confirmed
\* cancellation is over.
THEOREM OutcomeSafety == OutcomeSpec => []OutcomeInv
<1>1. QED
  BY OutcomeInitInv, OutcomeStepInv, PTL DEF OutcomeSpec
==============================================================================
