---------------------------- MODULE VaultControl ----------------------------
(***************************************************************************)
(* What LazorKit promises about its vaults, without accounts, transactions *)
(* or loops of calls: a vault changes only                                 *)
(*   - by an act that an authority signed,                                 *)
(*   - by a live session, within what is left of its lifetime budgets,     *)
(*   - by one pending authorization, which is used up,                     *)
(*   - by a deposit.                                                       *)
(* The detailed specifications implement this one, each with a refinement  *)
(* mapping of its own.                                                     *)
(***************************************************************************)
EXTENDS Integers

CONSTANTS
    Wallets,    \* each has one vault
    SessionIds, \* pairs of a wallet and a session key
    Assets      \* what vaults hold

VARIABLES
    held,       \* what each vault holds between two instructions
    budget,     \* what each session may still take of each asset
    pending,    \* authorizations that may be executed, with their wallets
    acts,       \* instructions signed in the current slot
    signer      \* who signed the last one

promise == <<held, budget, pending, acts, signer>>

-----------------------------------------------------------------------------
Budgets == SessionIds \X Assets

(***************************************************************************)
(* A budget is capped when the session has a lifetime limit on the asset.  *)
(***************************************************************************)
Budget ==
    [live: BOOLEAN, capped: BOOLEAN, limit: Nat, left: Nat, taken: Nat]

Fresh(b) == b.taken = 0 /\ b.left = b.limit

Ends(old, new) == new = [old EXCEPT !.live = FALSE, !.left = 0]

OnlyVaultOf(w) == \A v \in Wallets \ {w} : held'[v] = held[v]

(***************************************************************************)
(* An authority acts: it may move a vault, grant a session, end one, or    *)
(* add an authorization.                                                   *)
(***************************************************************************)
Signed ==
    /\ acts' = acts + 1
    /\ signer' # {}
    /\ \E w \in Wallets : OnlyVaultOf(w)
    /\ pending \subseteq pending'
    /\ \A b \in Budgets :
         \/ budget'[b] = budget[b]
         \/ Fresh(budget'[b])
         \/ Ends(budget[b], budget'[b])

(***************************************************************************)
(* A session spends.  What leaves the vault comes off the budget; more may *)
(* be charged than has left.                                               *)
(***************************************************************************)
Spend(s) ==
    /\ \A asset \in Assets :
         LET old == budget[<<s, asset>>]
             new == budget'[<<s, asset>>]
             out == held[s[1]][asset] - held'[s[1]][asset]
         IN  /\ old.live
             /\ new = [old EXCEPT !.left = new.left, !.taken = new.taken]
             /\ old.capped =>
                  /\ new.taken >= old.taken + (IF out > 0 THEN out ELSE 0)
                  /\ new.left + new.taken <= old.left + old.taken
             /\ ~ old.capped => new = old
    /\ \A b \in Budgets : b[1] # s => budget'[b] = budget[b]
    /\ OnlyVaultOf(s[1])
    /\ UNCHANGED <<pending, acts, signer>>

(***************************************************************************)
(* Somebody runs a pending authorization, which is pending no longer.      *)
(***************************************************************************)
RunPending(p) ==
    /\ p \in pending
    /\ pending' = pending \ {p}
    /\ OnlyVaultOf(p.wallet)
    /\ UNCHANGED <<budget, acts, signer>>

Deposit ==
    /\ \A w \in Wallets, asset \in Assets : held'[w][asset] >= held[w][asset]
    /\ UNCHANGED <<budget, pending, acts, signer>>

(***************************************************************************)
(* Time passes, transactions end, rent is reclaimed, wallets are created:  *)
(* rights may end, vaults stay.                                            *)
(***************************************************************************)
Lapse ==
    /\ UNCHANGED held
    /\ pending' \subseteq pending
    /\ \A b \in Budgets :
         budget'[b] = budget[b] \/ Ends(budget[b], budget'[b])

Init ==
    /\ budget = [b \in Budgets |->
                   [live |-> FALSE, capped |-> FALSE, limit |-> 0,
                    left |-> 0, taken |-> 0]]
    /\ pending = {}
    /\ acts = 0
    /\ signer = {}

Next ==
    \/ Signed
    \/ \E s \in SessionIds : Spend(s)
    \/ \E p \in pending : RunPending(p)
    \/ Deposit
    \/ Lapse

Spec == Init /\ [][Next]_promise
=============================================================================
