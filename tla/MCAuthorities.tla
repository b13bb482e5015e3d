--------------------------- MODULE MCAuthorities ---------------------------
(***************************************************************************)
(* Instances of Authorities for TLC.                                       *)
(***************************************************************************)
EXTENDS Authorities, TLC

(***************************************************************************)
(* Ids other than the zero id are interchangeable, and so are wallets.     *)
(***************************************************************************)
Symmetric == Permutations(Ids \ {ZeroId}) \cup Permutations(Wallets)
=============================================================================
