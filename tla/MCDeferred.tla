----------------------------- MODULE MCDeferred -----------------------------
(***************************************************************************)
(* Instances of Deferred for TLC.                                          *)
(***************************************************************************)
EXTENDS Deferred

MCPayloads == Programs \X Offsets
=============================================================================
