--------------------------- MODULE MCPdaAccounts ---------------------------
(***************************************************************************)
(* Instances of PdaAccounts for TLC.                                       *)
(***************************************************************************)
EXTENDS PdaAccounts, TLC

SymmetricAccounts == Permutations(Pdas) \cup Permutations(Users)
=============================================================================
