-------------------------- MODULE MCTokenAccounts --------------------------
(***************************************************************************)
(* Instances of TokenAccounts for TLC.                                     *)
(***************************************************************************)
EXTENDS TokenAccounts, TLC

CONSTANTS A, B, C, W, K

MCSession == <<W, K>>

Limit(kind, amount) ==
    [kind |-> kind, target |-> "mint", amount |-> amount, spent |-> 0,
     window |-> 0, lastReset |-> 0, expiresAt |-> 0]

MCPolicies == { {Limit("Limit", 3), Limit("MaxPerTx", 2)} }

SmallPolicies == { {Limit("Limit", 1)} }

Token(program, owner, amount) ==
    [program |-> program, mint |-> "mint", owner |-> owner, amount |-> amount,
     delegate |-> "none", close |-> "none"]

(***************************************************************************)
(* The whole supply in one account of the vault, next to a closed account  *)
(* and to one of a foreign program; or in two accounts and a user's.       *)
(***************************************************************************)
TwoVaultAccounts ==
    (A :> Token("token", "vault", 1)) @@ (B :> Token("token", "vault", 1))
      @@ (C :> Token("token", "user", 0))

OneVaultAccount ==
    (A :> Token("token", "vault", 2)) @@ (B :> Token("none", "user", 0))
      @@ (C :> Token("foreign", "vault", 2))

MCInitialTokens == {TwoVaultAccounts, OneVaultAccount}

(***************************************************************************)
(* All in one account of the vault, which has an empty one beside it.      *)
(***************************************************************************)
FullAndEmpty ==
    (A :> Token("token", "vault", 4)) @@ (B :> Token("token", "vault", 0))
      @@ (C :> Token("token", "user", 0))

OneFullAccount == {FullAndEmpty}
=============================================================================
