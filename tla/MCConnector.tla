---------------------------- MODULE MCConnector ----------------------------
(***************************************************************************)
(* One request, of a bundle cache or of an ordinary one, with a load and a  *)
(* save or two saves, preempted once and perhaps restored, beside requests  *)
(* the connector does not track and whose passes may write freed blocks.    *)
(***************************************************************************)
EXTENDS Connector
=============================================================================
