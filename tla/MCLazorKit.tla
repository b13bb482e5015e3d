----------------------------- MODULE MCLazorKit -----------------------------
(***************************************************************************)
(* Instance of LazorKit for TLC: sessions with a lifetime limit.           *)
(***************************************************************************)
EXTENDS LazorKit

KitPolicies ==
    { {[kind |-> "Limit", target |-> "SOL", amount |-> 1, spent |-> 0,
        window |-> 0, lastReset |-> 0, expiresAt |-> 0]} }

KitPayloads == (Programs \X Offsets) \cup (SessionIds \X (KitPolicies \cup {{}}))
=============================================================================
