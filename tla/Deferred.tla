------------------------------ MODULE Deferred ------------------------------
(***************************************************************************)
(* Deferred execution: a passkey Owner or Admin signs the hashes of an     *)
(* instruction list in one transaction (Authorize), anybody runs it from a *)
(* later one (ExecuteDeferred), and whoever paid for the account takes the *)
(* rent back once the authorization has expired (ReclaimDeferred).         *)
(*                                                                         *)
(* The module adds the DeferredExec accounts to Authorities.  Such an      *)
(* account's address is derived from the authority and its counter, so it  *)
(* is named <<authority, counter>>.  A pair of hashes is represented by    *)
(* what was hashed: SHA-256 is taken to be injective.                      *)
(***************************************************************************)
EXTENDS Authorities, FiniteSets

CONSTANTS
    Programs,           \* instruction lists, with the accounts they name
    SelfCalling,        \* the ones that call this program
    Payers,             \* accounts that pay for and receive rent
    MIN_EXPIRY_SLOTS,   \* 10
    MAX_EXPIRY_SLOTS    \* 9000

Offsets == MIN_EXPIRY_SLOTS .. MAX_EXPIRY_SLOTS

ASSUME DeferredAssumption ==
    /\ SelfCalling \subseteq Programs
    /\ MIN_EXPIRY_SLOTS \in Nat
    /\ MAX_EXPIRY_SLOTS \in Nat
    /\ Programs \X Offsets \subseteq Payloads

VARIABLES
    deferred,       \* the data of every DeferredExec account
    dclosing,       \* the ones closed by the transaction that is running
    grants,         \* history: every authorization that was stored
    settlements     \* history: every execution and every reclaim

dvars == <<deferred, dclosing, grants, settlements>>

allVars == <<vars, dvars>>

-----------------------------------------------------------------------------
DeferredIds == Accounts \X Counters

(***************************************************************************)
(* DeferredExecAccount.  The grant is its ordinal in the history, 0 for an *)
(* account that holds none.                                                *)
(***************************************************************************)
DeferredData ==
    [disc: {"absent", "zeroed", "deferred"}, ixs: Programs \cup {ZeroId},
     payer: Payers \cup {ZeroId}, expiresAt: Nat, grant: Nat]

NoDeferred(disc) ==
    [disc |-> disc, ixs |-> ZeroId, payer |-> ZeroId, expiresAt |-> 0,
     grant |-> 0]

IsDeferred(d) == deferred[d].disc = "deferred"

\* Mutant of Allocatable: the account is written whatever it holds.
AllocatableAlways(d) == TRUE

(***************************************************************************)
(* Authorize looks neither at the length nor at the owner of the account:  *)
(* it is the System Program's Allocate that fails when the account has     *)
(* data or belongs to a program.                                           *)
(***************************************************************************)
Allocatable(d) == deferred[d].disc = "absent"

(***************************************************************************)
(* The address comes from the counter that authentication just committed.  *)
(***************************************************************************)
DeferredAddress(acct) == <<acct, CounterAfter(acct)>>

ExpiryInWindow(offset) ==
    /\ offset >= MIN_EXPIRY_SLOTS
    /\ offset <= MAX_EXPIRY_SLOTS

(***************************************************************************)
(* What is written once the authority has been authenticated.              *)
(***************************************************************************)
StoreGrant(acct, payer, ixs, offset) ==
    LET d == DeferredAddress(acct)
        g == Cardinality(grants) + 1
    IN  /\ Allocatable(d)
        /\ deferred' = [deferred EXCEPT ![d] =
                          [disc |-> "deferred", ixs |-> ixs, payer |-> payer,
                           expiresAt |-> slot + offset, grant |-> g]]
        /\ grants' = grants \cup
             {[id |-> g, pda |-> d, ixs |-> ixs, payer |-> payer,
               expiresAt |-> slot + offset]}
        /\ UNCHANGED <<dclosing, settlements>>

\* Mutant of Authorize: the counter is not committed.
AuthorizeUncommitted(w, acct, payer, ixs, offset) ==
    /\ ExpiryInWindow(offset)
    /\ Actor(acct, w)
    /\ MayUse(acct, "Authorize")
    /\ Authenticate(acct, "Authorize", <<ixs, offset>>)
    /\ StoreGrant(acct, payer, ixs, offset)
    /\ UNCHANGED <<wallets, auth, closing, slot, uses, inc>>

Authorize(w, acct, payer, ixs, offset) ==
    /\ ExpiryInWindow(offset)
    /\ UseAuthority(w, acct, "Authorize", <<ixs, offset>>)
    /\ StoreGrant(acct, payer, ixs, offset)

\* Mutant of NotExpired: one slot of grace.
NotExpiredGrace(d) == ~ (slot > deferred[d].expiresAt + 1)

\* Mutant of Reclaimable: the last slot of the window counts as expired.
ReclaimableEarly(d) == ~ (slot < deferred[d].expiresAt)

\* Mutant of Reclaimable: the authority must still exist.
ReclaimableByAuthority(d) ==
    ~ (slot <= deferred[d].expiresAt) /\ IsAuthority(d[1])

(***************************************************************************)
(* Execution until the last slot of the window, reclaim after it.          *)
(***************************************************************************)
NotExpired(d) == ~ (slot > deferred[d].expiresAt)

Reclaimable(d) == ~ (slot <= deferred[d].expiresAt)

\* Mutant of CloseDeferred: the account is tagged as closed, not zeroed.
CloseDeferredByTag(d) ==
    /\ deferred' = [deferred EXCEPT ![d].disc = "closed"]
    /\ dclosing' = dclosing \cup {d}

(***************************************************************************)
(* Both instructions drain the account into refund and zero its data.      *)
(***************************************************************************)
CloseDeferred(d) ==
    /\ deferred' = [deferred EXCEPT ![d] = NoDeferred("zeroed")]
    /\ dclosing' = dclosing \cup {d}

Settle(d, kind, ixs, refund) ==
    settlements' = settlements \cup
      {[n |-> Cardinality(settlements) + 1, grant |-> deferred[d].grant,
        pda |-> d, kind |-> kind, ixs |-> ixs, to |-> refund, at |-> slot]}

(***************************************************************************)
(* The submitted instructions and the accounts they name hash to what was  *)
(* stored.                                                                 *)
(***************************************************************************)
HashesMatch(d, ixs) == deferred[d].ixs = ixs

(***************************************************************************)
(* Any signer may submit this.  The stored authority is not looked at.     *)
(***************************************************************************)
ExecuteDeferred(w, d, refund, ixs) ==
    /\ w \in wallets
    /\ IsDeferred(d)
    /\ BelongsTo(d[1], w)
    /\ deferred[d].payer = refund
    /\ NotExpired(d)
    /\ HashesMatch(d, ixs)
    /\ ixs \notin SelfCalling
    /\ CloseDeferred(d)
    /\ Settle(d, "executed", ixs, refund)
    /\ UNCHANGED <<vars, grants>>

(***************************************************************************)
(* The payer signs and names any account as the destination.               *)
(***************************************************************************)
ReclaimDeferred(d, payer, refund) ==
    /\ IsDeferred(d)
    /\ deferred[d].payer = payer
    /\ Reclaimable(d)
    /\ CloseDeferred(d)
    /\ Settle(d, "reclaimed", deferred[d].ixs, refund)
    /\ UNCHANGED <<vars, grants>>

-----------------------------------------------------------------------------
(***************************************************************************)
(* The end of a transaction removes closed accounts of both kinds.         *)
(***************************************************************************)
RemoveDeferred ==
    /\ \E funded \in SUBSET dclosing :
         deferred' = [d \in DeferredIds |->
                        IF d \in dclosing \ funded THEN NoDeferred("absent")
                        ELSE deferred[d]]
    /\ dclosing' = {}
    /\ UNCHANGED <<grants, settlements>>

DeferredEndTx ==
    /\ closing # {} \/ dclosing # {}
    /\ EndTx \/ (closing = {} /\ UNCHANGED vars)
    /\ RemoveDeferred

DeferredTick == dclosing = {} /\ Tick /\ UNCHANGED dvars

(***************************************************************************)
(* expiry_offset is a u16; the values around the window stand for the rest.*)
(***************************************************************************)
SubmittedOffsets == MIN_EXPIRY_SLOTS - 1 .. MAX_EXPIRY_SLOTS + 1

Reclaims ==
    \E d \in DeferredIds, payer \in Payers, refund \in Payers :
       ReclaimDeferred(d, payer, refund)

Authorizations ==
    \E w \in Wallets, acct \in Accounts, payer \in Payers, ixs \in Programs,
       offset \in SubmittedOffsets : Authorize(w, acct, payer, ixs, offset)

Executions(w) ==
    \E d \in DeferredIds, refund \in Payers, ixs \in Programs :
       ExecuteDeferred(w, d, refund, ixs)

DeferredInstruction ==
    Authorizations \/ (\E w \in Wallets : Executions(w)) \/ Reclaims

DeferredInit ==
    /\ Init
    /\ deferred = [d \in DeferredIds |-> NoDeferred("absent")]
    /\ dclosing = {}
    /\ grants = {}
    /\ settlements = {}

DeferredNext ==
    \/ DeferredInstruction
    \/ Instruction /\ UNCHANGED dvars
    \/ DeferredEndTx
    \/ DeferredTick
    \/ HorizonReached /\ dclosing = {} /\ UNCHANGED dvars

DeferredSpec == DeferredInit /\ [][DeferredNext]_allVars

(***************************************************************************)
(* Time passes, transactions end, and a payer who can take rent back does. *)
(***************************************************************************)
DeferredFairness ==
    /\ WF_allVars(DeferredTick)
    /\ WF_allVars(DeferredEndTx)
    /\ WF_allVars(Reclaims)

DeferredFairSpec == DeferredSpec /\ DeferredFairness

-----------------------------------------------------------------------------
(***************************************************************************)
(* The authorities on their own, with all their uses.                      *)
(***************************************************************************)
Abstract == INSTANCE Authorities WITH SubmittedUses <- Uses

(***************************************************************************)
(* Deferred execution implements Authorities: Authorize is one regular use *)
(* of an authority, and neither an execution nor a reclaim touches an      *)
(* authority or its counter.  What holds of every behaviour of Authorities *)
(* (an Owner remains, no assertion is accepted twice) so holds here.       *)
(***************************************************************************)
ImplementsAuthorities == Abstract!Spec

(***************************************************************************)
(* Type correctness.                                                       *)
(***************************************************************************)
DeferredTypeOK ==
    /\ deferred \in [DeferredIds -> DeferredData]
    /\ dclosing \subseteq DeferredIds

(***************************************************************************)
(* Every stored authorization is held by its account or has been settled,  *)
(* exactly once: none is executed twice, executed and reclaimed, or lost   *)
(* to another authorization stored at the same address (which happens when *)
(* an authority is created again or its counter wraps).                    *)
(***************************************************************************)
SettledOnce ==
    \A g \in grants :
       LET held == IsDeferred(g.pda) /\ deferred[g.pda].grant = g.id
           done == {s \in settlements : s.grant = g.id}
       IN  Cardinality(done) = IF held THEN 0 ELSE 1

(***************************************************************************)
(* What the vault signs for in ExecuteDeferred was signed by a passkey:    *)
(* the authority accepted an assertion over exactly these instructions and *)
(* an expiry offset, and the execution came within that offset.            *)
(***************************************************************************)
ExecutedAsSigned ==
    \A s \in settlements :
       s.kind = "executed" =>
         \E e \in accepted[s.pda[1]], offset \in Offsets :
            /\ e.ch.disc = "Authorize"
            /\ e.ch.payload = <<s.ixs, offset>>
            /\ e.at <= s.at
            /\ s.at <= e.at + offset

(***************************************************************************)
(* Nobody reclaims the rent of an authorization that could still run, and  *)
(* nobody but the payer receives it when the authorization runs.           *)
(***************************************************************************)
WindowsAreDisjoint ==
    \A s \in settlements, g \in grants :
       s.grant = g.id =>
         IF s.kind = "executed" THEN s.at <= g.expiresAt /\ s.to = g.payer
         ELSE s.at > g.expiresAt

(***************************************************************************)
(* No authorization keeps its rent for ever: whatever happens to the       *)
(* authority that signed it, its account is closed in the end, provided    *)
(* that the clock passes its expiry.                                       *)
(***************************************************************************)
RentIsRecovered ==
    \A d \in DeferredIds :
       (IsDeferred(d) /\ deferred[d].expiresAt < MaxSlot) ~> ~ IsDeferred(d)
=============================================================================
