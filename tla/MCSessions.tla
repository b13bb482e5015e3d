----------------------------- MODULE MCSessions -----------------------------
(***************************************************************************)
(* Instances of Sessions for TLC: the action sets that callers submit.     *)
(***************************************************************************)
EXTENDS Sessions

CONSTANTS P, Q

Act(kind, target, amount, window, expiresAt) ==
    [kind |-> kind, target |-> target, amount |-> amount, spent |-> 0,
     window |-> window, lastReset |-> 0, expiresAt |-> expiresAt]

(***************************************************************************)
(* SOL: a recurring limit with a lifetime limit, a lifetime limit that     *)
(* expires under a per-transaction one, and three sets that are refused.   *)
(***************************************************************************)
SolPolicies ==
    { {Act("Recurring", "SOL", 2, 2, 0), Act("Limit", "SOL", 3, 0, 0)},
      {Act("MaxPerTx", "SOL", 1, 0, 0), Act("Limit", "SOL", 2, 0, 2)},
      {Act("Recurring", "SOL", 1, 0, 0)},
      {Act("Limit", "SOL", 1, 0, 0), Act("Limit", "SOL", 2, 0, 0)},
      {Act("Whitelist", P, 0, 0, 0), Act("Blacklist", P, 0, 0, 0)} }

(***************************************************************************)
(* Programs and tokens: lists that expire, a limit on a mint only.         *)
(***************************************************************************)
TokenPolicies ==
    { {Act("Whitelist", P, 0, 0, 1), Act("Limit", "mint", 1, 0, 0)},
      {Act("Blacklist", Q, 0, 0, 1), Act("MaxPerTx", "mint", 1, 0, 0)},
      {} }

SolPayloads == SessionIds \X (SolPolicies \cup {{}})

TokenPayloads == SessionIds \X TokenPolicies
=============================================================================
