--------------------------- MODULE MCTransferSession --------------------------
(***************************************************************************)
(* A pull of everything from a holder with one resident block and one to   *)
(* be staged, and from one with nothing; a pull of one block as a complete *)
(* lineage.                                                                *)
(***************************************************************************)
EXTENDS TransferSession

CONSTANTS h1, h2

SomeTransfers ==
    {[find |-> <<{h1}, {h2}>>, selector |-> {}, complete |-> FALSE],
     [find |-> <<{h1}>>, selector |-> {{h1}}, complete |-> TRUE],
     [find |-> << >>, selector |-> {}, complete |-> FALSE]}
==============================================================================
