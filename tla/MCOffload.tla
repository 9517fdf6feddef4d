------------------------------ MODULE MCOffload ------------------------------
(***************************************************************************)
(* Instances of Offload: two transfers that compete for a hash in one      *)
(* pipeline, and one transfer that chains to a local route and the         *)
(* remote one.                                                             *)
(***************************************************************************)
EXTENDS Offload, Sequences, TLC

CONSTANTS t1, t2, h1, h2

OneTransfer == {t1}
TwoTransfers == {t1, t2}

Overlapping == t1 :> {h1, h2} @@ t2 :> {h1}
OneEach == t1 :> {h1} @@ t2 :> {h1}
Single == t1 :> {h1}

NoRoutes == << >>
OneRoute == <<"G3">>
==============================================================================
