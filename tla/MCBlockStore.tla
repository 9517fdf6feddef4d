---------------------------- MODULE MCBlockStore ----------------------------
(***************************************************************************)
(* Small instances of BlockStore for TLC.                                  *)
(***************************************************************************)
EXTENDS BlockStore, TLC

=============================================================================
