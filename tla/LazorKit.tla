------------------------------ MODULE LazorKit ------------------------------
(***************************************************************************)
(* The whole program: authorities, deferred execution and sessions of the  *)
(* same wallets, with instructions of all kinds in any order.              *)
(*                                                                         *)
(* Deferred and Sessions share the authorities, their counters and the     *)
(* clock; here they share the vaults too.  ExecuteDeferred makes its calls *)
(* with the vault's signature and without limits, so the vault may end up  *)
(* anyhow.                                                                 *)
(***************************************************************************)
EXTENDS Deferred, Sessions

kitVars == <<vars, dvars, svars>>

-----------------------------------------------------------------------------
(***************************************************************************)
(* The calls of ExecuteDeferred.                                           *)
(***************************************************************************)
MoveVault(w) ==
    /\ \E balances \in Balances, controls \in Controls :
         /\ vault' = [vault EXCEPT ![w] = balances]
         /\ control' = [control EXCEPT ![w] = controls]
    /\ UNCHANGED <<session, sclosing, exec, granted, spent>>

(***************************************************************************)
(* process_instruction: one instruction of a transaction.  While the calls *)
(* of a session run, only they and what follows them can happen.           *)
(***************************************************************************)
KitInstruction ==
    \/ SessionInstruction /\ UNCHANGED dvars
    \/ /\ ~ Running
       /\ \/ Instruction /\ UNCHANGED <<dvars, svars>>
          \/ (Authorizations \/ Reclaims) /\ UNCHANGED svars
          \/ \E w \in Wallets : Executions(w) /\ MoveVault(w)

Closing == closing # {} \/ dclosing # {} \/ sclosing # {}

KitEndTx ==
    /\ ~ Running
    /\ Closing
    /\ EndTx \/ (closing = {} /\ UNCHANGED vars)
    /\ RemoveDeferred
    /\ RemoveSessions

KitTick == ~ Running /\ ~ Closing /\ Tick /\ UNCHANGED <<dvars, svars>>

KitInit == DeferredInit /\ SessionInit

KitNext ==
    \/ KitInstruction
    \/ KitEndTx
    \/ KitTick
    \/ ~ Running /\ ~ Closing /\ HorizonReached /\ UNCHANGED <<dvars, svars>>

KitSpec == KitInit /\ [][KitNext]_kitVars

-----------------------------------------------------------------------------
(***************************************************************************)
(* Authorizations that may still be executed.                              *)
(***************************************************************************)
Pending ==
    {[wallet |-> d[1][1], grant |-> deferred[d].grant] :
       d \in {e \in DeferredIds : IsDeferred(e) /\ slot <= deferred[e].expiresAt}}

Kit == INSTANCE VaultControl WITH
    held <- VaultHeld, budget <- SessionBudgets, pending <- Pending,
    acts <- slotOps, signer <- by

(***************************************************************************)
(* The program implements VaultControl: a vault changes only by an act of  *)
(* an authority, by a live session within its budget, by an unexpired      *)
(* authorization that is used up by it, or by a deposit.  And the rights   *)
(* an authority gave end with their own expiry, a revocation or their use, *)
(* not when the authority that gave them is removed or transferred.        *)
(***************************************************************************)
KitImplementsVaultControl == Kit!Spec

(***************************************************************************)
(* A session whose creator is gone can still be ended: whenever a session  *)
(* exists and the slot has room, some authority of the wallet can revoke   *)
(* it, although authorities come and go.                                   *)
(***************************************************************************)
SessionsAreRevocable ==
    ~ Running /\ slotOps < OpsPerSlot =>
      \A s \in SessionIds :
         IsSession(s) => \E acct \in Accounts :
                            ENABLED (RevokeSession(s[1], acct, s)
                                     /\ UNCHANGED dvars)
=============================================================================
