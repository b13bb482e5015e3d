--------------------------- MODULE DeferredProofs ---------------------------
(***************************************************************************)
(* Proofs about Deferred: deferred execution implements the authorities it *)
(* is built on, every authorization is settled exactly once, and what runs *)
(* is what a passkey signed, within the window it signed.                  *)
(***************************************************************************)
EXTENDS Deferred, AuthoritiesProofs, FiniteSetTheorems

USE DEF Owner, Admin, Spender, Ed25519, Secp256r1

-----------------------------------------------------------------------------
(* The steps of Deferred, seen from the authorities. *)

(***************************************************************************)
(* An authorization is one use of its authority, over a payload that       *)
(* callers may submit: the expiry window is checked first.                 *)
(***************************************************************************)
LEMMA AuthorizeIsUse ==
    ASSUME NEW w, NEW acct, NEW payer, NEW ixs \in Programs,
           NEW offset \in SubmittedOffsets, Authorize(w, acct, payer, ixs, offset)
    PROVE  /\ offset \in Offsets
           /\ <<ixs, offset>> \in Payloads
           /\ UseAuthority(w, acct, "Authorize", <<ixs, offset>>)
  <1>1. offset \in Int /\ ExpiryInWindow(offset)
    BY DeferredAssumption DEF SubmittedOffsets, Authorize
  <1>2. offset \in Offsets
    BY <1>1, DeferredAssumption DEF Offsets, ExpiryInWindow
  <1>3. <<ixs, offset>> \in Payloads
    BY <1>2, DeferredAssumption
  <1> QED
    BY <1>2, <1>3 DEF Authorize

(***************************************************************************)
(* What a step may do to the deferred accounts when the authorities are    *)
(* used in any way: modules that add more instructions take such steps     *)
(* too, so what is proved of them holds there as well.                     *)
(***************************************************************************)
AnyDeferred ==
    \/ DeferredInstruction
    \/ [AnyNext]_vars /\ RemoveDeferred
    \/ [AnyNext]_vars /\ UNCHANGED dvars

AnyDeferredSpec == DeferredInit /\ [][AnyDeferred]_allVars

(***************************************************************************)
(* The steps of Deferred are such steps.                                   *)
(***************************************************************************)
LEMMA DeferredStepIsOpen == [DeferredNext]_allVars => [AnyDeferred]_allVars
  <1> SUFFICES ASSUME [DeferredNext]_allVars PROVE [AnyDeferred]_allVars
    OBVIOUS
  <1>1. CASE Instruction /\ UNCHANGED dvars
    BY <1>1 DEF Next, AnyNext, AnyDeferred
  <1>2. CASE DeferredEndTx
    BY <1>2 DEF DeferredEndTx, Next, AnyNext, AnyDeferred
  <1>3. CASE DeferredTick
    BY <1>3 DEF DeferredTick, Next, AnyNext, AnyDeferred
  <1>4. CASE HorizonReached /\ UNCHANGED dvars
    BY <1>4 DEF Next, AnyNext, AnyDeferred
  <1>5. CASE DeferredInstruction
    BY <1>5 DEF AnyDeferred
  <1> QED
    BY <1>1, <1>2, <1>3, <1>4, <1>5 DEF DeferredNext

(***************************************************************************)
(* So are its behaviours.                                                  *)
(***************************************************************************)
LEMMA DeferredIsOpen == DeferredSpec => AnyDeferredSpec
  BY DeferredStepIsOpen, PTL DEF DeferredSpec, AnyDeferredSpec

(***************************************************************************)
(* The steps, one by one: a use of an authority that stores a grant, an    *)
(* execution, a reclaim, or a step of the authorities at which closed      *)
(* accounts are removed or nothing happens to deferred accounts.           *)
(***************************************************************************)
LEMMA DeferredSteps ==
    ASSUME [AnyDeferred]_allVars
    PROVE  \/ \E w \in Wallets, acct \in Accounts, payer \in Payers,
                 ixs \in Programs, offset \in SubmittedOffsets :
                Authorize(w, acct, payer, ixs, offset)
           \/ \E w \in Wallets, d \in DeferredIds, refund \in Payers,
                 ixs \in Programs : ExecuteDeferred(w, d, refund, ixs)
           \/ \E d \in DeferredIds, payer \in Payers, refund \in Payers :
                ReclaimDeferred(d, payer, refund)
           \/ [AnyNext]_vars /\ RemoveDeferred
           \/ [AnyNext]_vars /\ UNCHANGED dvars
  <1>1. CASE UNCHANGED allVars
    BY <1>1 DEF allVars
  <1>2. CASE DeferredInstruction
    BY <1>2 DEF DeferredInstruction, Authorizations, Executions, Reclaims
  <1> QED
    BY <1>1, <1>2 DEF AnyDeferred

(***************************************************************************)
(* Every such step is a step of the authorities with every use.            *)
(***************************************************************************)
LEMMA DeferredStepIsAny == [AnyDeferred]_allVars => [AnyNext]_vars
  <1> SUFFICES ASSUME [AnyDeferred]_allVars PROVE [AnyNext]_vars
    OBVIOUS
  <1>1. ASSUME NEW w \in Wallets, NEW acct \in Accounts, NEW payer \in Payers,
               NEW ixs \in Programs, NEW offset \in SubmittedOffsets,
               Authorize(w, acct, payer, ixs, offset)
        PROVE  AnyNext
    BY <1>1, AuthorizeIsUse DEF AnyNext, AnyUse, Uses
  <1>2. ASSUME NEW w \in Wallets, NEW d \in DeferredIds, NEW refund \in Payers,
               NEW ixs \in Programs, ExecuteDeferred(w, d, refund, ixs)
        PROVE  UNCHANGED vars
    BY <1>2 DEF ExecuteDeferred, vars
  <1>3. ASSUME NEW d \in DeferredIds, NEW payer \in Payers,
               NEW refund \in Payers, ReclaimDeferred(d, payer, refund)
        PROVE  UNCHANGED vars
    BY <1>3 DEF ReclaimDeferred, vars
  <1> QED
    BY <1>1, <1>2, <1>3, DeferredSteps

(***************************************************************************)
(* So every behaviour with deferred execution is one of the authorities.   *)
(***************************************************************************)
LEMMA DeferredIsAny == AnyDeferredSpec => AnySpec
  <1>1. DeferredInit => Init
    BY DEF DeferredInit
  <1> QED
    BY <1>1, DeferredStepIsAny, PTL DEF AnyDeferredSpec, AnySpec

(***************************************************************************)
(* What is proved of the authorities holds with deferred execution: types, *)
(* an Owner in every wallet, and no assertion accepted twice.              *)
(***************************************************************************)
THEOREM DeferredKeepsAuthorities ==
    DeferredSpec => []TypeOK /\ []HasOwner /\ []NoReplay
  BY DeferredIsOpen, DeferredIsAny, TypeAny, OwnerAny, ReplayAny, PTL

-----------------------------------------------------------------------------
(* The inductive invariant. *)

(***************************************************************************)
(* The histories number their entries, grants from 1 without a repetition. *)
(***************************************************************************)
Histories ==
    /\ IsFiniteSet(grants) /\ IsFiniteSet(settlements)
    /\ \A g \in grants :
         /\ g.id \in 1 .. Cardinality(grants)
         /\ g.pda \in DeferredIds
         /\ g.expiresAt \in Nat
    /\ \A g, h \in grants : g.id = h.id => g = h

Holds(d, g) == IsDeferred(d) /\ deferred[d].grant = g.id

(***************************************************************************)
(* A live account holds a grant, as it was stored.                         *)
(***************************************************************************)
LiveHoldGrants ==
    \A d \in DeferredIds : IsDeferred(d) =>
       \E g \in grants :
          /\ g.pda = d
          /\ g.id = deferred[d].grant
          /\ g.ixs = deferred[d].ixs
          /\ g.payer = deferred[d].payer
          /\ g.expiresAt = deferred[d].expiresAt

(***************************************************************************)
(* An account that the running transaction closed holds zeroes until its   *)
(* removal: no grant is stored on it, so its removal loses none.           *)
(***************************************************************************)
ClosedHoldNothing == \A d \in dclosing : deferred[d].disc = "zeroed"

(***************************************************************************)
(* A grant that its account does not hold any more is settled, one that it *)
(* holds is not, and none is settled twice.                                *)
(***************************************************************************)
Settlements ==
    /\ \A s \in settlements : \E g \in grants : s.grant = g.id /\ s.pda = g.pda
    /\ \A s, t \in settlements : s.grant = t.grant => s = t
    /\ \A g \in grants :
         Holds(g.pda, g) <=> ~ \E s \in settlements : s.grant = g.id

(***************************************************************************)
(* Every grant was signed: its authority accepted an assertion over its    *)
(* instructions and the offset its expiry comes from.                      *)
(***************************************************************************)
SignedFor(g) ==
    \E e \in accepted[g.pda[1]], offset \in Offsets :
       /\ e.ch.disc = "Authorize"
       /\ e.ch.payload = <<g.ixs, offset>>
       /\ e.at <= slot
       /\ g.expiresAt = e.at + offset

GrantsAreSigned == \A g \in grants : SignedFor(g)

DeferredInv ==
    /\ DeferredTypeOK
    /\ Histories
    /\ LiveHoldGrants
    /\ ClosedHoldNothing
    /\ Settlements

-----------------------------------------------------------------------------
(* What a step does to the deferred accounts and the histories. *)

(***************************************************************************)
(* A new grant goes to an account without data.                            *)
(***************************************************************************)
Stores(d, g) ==
    /\ d \in DeferredIds
    /\ Allocatable(d)
    /\ g.ixs \in Programs /\ g.payer \in Payers /\ g.expiresAt \in Nat
    /\ g.pda = d
    /\ g.id = Cardinality(grants) + 1
    /\ deferred' = [deferred EXCEPT ![d] =
         [disc |-> "deferred", ixs |-> g.ixs, payer |-> g.payer,
          expiresAt |-> g.expiresAt, grant |-> g.id]]
    /\ grants' = grants \cup {g}
    /\ UNCHANGED <<dclosing, settlements>>

(***************************************************************************)
(* A live account is closed and its grant settled.                         *)
(***************************************************************************)
Settles(d, s) ==
    /\ d \in DeferredIds
    /\ IsDeferred(d)
    /\ CloseDeferred(d)
    /\ s.grant = deferred[d].grant
    /\ s.pda = d
    /\ settlements' = settlements \cup {s}
    /\ UNCHANGED grants

(***************************************************************************)
(* What Authorize stores.                                                  *)
(***************************************************************************)
GrantRecord(acct, payer, ixs, offset) ==
    [id |-> Cardinality(grants) + 1, pda |-> DeferredAddress(acct),
     ixs |-> ixs, payer |-> payer, expiresAt |-> slot + offset]

(***************************************************************************)
(* Authorize stores one grant at an address of its authority.              *)
(***************************************************************************)
LEMMA AuthorizeStores ==
    ASSUME TypeOK, NEW w \in Wallets, NEW acct \in Accounts,
           NEW payer \in Payers, NEW ixs \in Programs,
           NEW offset \in SubmittedOffsets,
           Authorize(w, acct, payer, ixs, offset)
    PROVE  Stores(DeferredAddress(acct), GrantRecord(acct, payer, ixs, offset))
  <1>1. DeferredAddress(acct) \in DeferredIds
    BY OdometerTyping DEF DeferredAddress, DeferredIds
  <1>2. slot + offset \in Nat
    <2>1. slot \in Nat
      BY ConstantsAssumption DEF TypeOK
    <2>2. offset \in Offsets
      BY AuthorizeIsUse
    <2> QED
      BY <2>1, <2>2, DeferredAssumption DEF Offsets
  <1>3. StoreGrant(acct, payer, ixs, offset)
    BY DEF Authorize
  <1> QED
    BY <1>1, <1>2, <1>3 DEF StoreGrant, Stores, GrantRecord

(***************************************************************************)
(* The entry that an execution or a reclaim adds to the history.           *)
(***************************************************************************)
SettlementRecord(d, kind, ixs, refund) ==
    [n |-> Cardinality(settlements) + 1, grant |-> deferred[d].grant,
     pda |-> d, kind |-> kind, ixs |-> ixs, to |-> refund, at |-> slot]

(***************************************************************************)
(* ExecuteDeferred settles the grant of one live account.                  *)
(***************************************************************************)
LEMMA ExecuteSettles ==
    ASSUME NEW w, NEW d \in DeferredIds, NEW refund, NEW ixs,
           ExecuteDeferred(w, d, refund, ixs)
    PROVE  Settles(d, SettlementRecord(d, "executed", ixs, refund))
  BY DEF ExecuteDeferred, Settle, Settles, SettlementRecord

(***************************************************************************)
(* ReclaimDeferred settles the grant of one live account as well.          *)
(***************************************************************************)
LEMMA ReclaimSettles ==
    ASSUME NEW d \in DeferredIds, NEW payer, NEW refund,
           ReclaimDeferred(d, payer, refund)
    PROVE  Settles(d, SettlementRecord(d, "reclaimed", deferred[d].ixs, refund))
  BY DEF ReclaimDeferred, Settle, Settles, SettlementRecord

(***************************************************************************)
(* The four effects a step may have.                                       *)
(***************************************************************************)
LEMMA DeferredEffect ==
    ASSUME TypeOK, [AnyDeferred]_allVars
    PROVE  \/ \E d, g : Stores(d, g)
           \/ \E d, s : Settles(d, s)
           \/ RemoveDeferred
           \/ UNCHANGED dvars
  BY DeferredSteps, AuthorizeStores, ExecuteSettles, ReclaimSettles

-----------------------------------------------------------------------------
(* Every effect keeps the invariant. *)

(***************************************************************************)
(* A live account, after it was stored, holds what was stored, and every   *)
(* other account is as before.                                             *)
(***************************************************************************)
LEMMA AfterStores ==
    ASSUME DeferredTypeOK, Histories, NEW d, NEW g, Stores(d, g)
    PROVE  /\ Cardinality(grants) \in Nat
           /\ IsFiniteSet(grants')
           /\ Cardinality(grants') = Cardinality(grants) + 1
           /\ \A h \in grants : h.id # g.id
           /\ deferred'[d] = [disc |-> "deferred", ixs |-> g.ixs,
                              payer |-> g.payer, expiresAt |-> g.expiresAt,
                              grant |-> g.id]
           /\ \A e \in DeferredIds \ {d} : deferred'[e] = deferred[e]
  <1>1. IsFiniteSet(grants) /\ Cardinality(grants) \in Nat
    BY FS_CardinalityType DEF Histories
  <1>2. \A h \in grants : h.id # g.id
    BY <1>1 DEF Histories, Stores
  <1>3. g \notin grants
    BY <1>2
  <1>4. IsFiniteSet(grants') /\ Cardinality(grants') = Cardinality(grants) + 1
    BY <1>1, <1>3, FS_AddElement DEF Stores
  <1> QED
    BY <1>1, <1>2, <1>4 DEF Stores, DeferredTypeOK

(***************************************************************************)
(* Storing a grant keeps the invariant: its ordinal is new, so no          *)
(* settlement refers to it yet.                                            *)
(***************************************************************************)
LEMMA StoresKeeps ==
    ASSUME DeferredInv, NEW d, NEW g, Stores(d, g)
    PROVE  DeferredInv'
  <1> USE DEF DeferredInv
  <1>1. /\ Cardinality(grants) \in Nat
        /\ IsFiniteSet(grants')
        /\ Cardinality(grants') = Cardinality(grants) + 1
        /\ \A h \in grants : h.id # g.id
        /\ deferred'[d] = [disc |-> "deferred", ixs |-> g.ixs,
                           payer |-> g.payer, expiresAt |-> g.expiresAt,
                           grant |-> g.id]
        /\ \A e \in DeferredIds \ {d} : deferred'[e] = deferred[e]
    BY AfterStores
  <1>2. /\ d \in DeferredIds /\ g.pda = d
        /\ deferred[d].disc = "absent" /\ ~ IsDeferred(d)
        /\ g.ixs \in Programs /\ g.payer \in Payers /\ g.expiresAt \in Nat
        /\ g.id = Cardinality(grants) + 1
        /\ grants' = grants \cup {g}
        /\ dclosing' = dclosing /\ settlements' = settlements
    BY DEF Stores, Allocatable, IsDeferred
  <1>3. DeferredTypeOK'
    BY <1>1, <1>2 DEF DeferredTypeOK, DeferredData, Stores
  <1>4. Histories'
    BY <1>1, <1>2 DEF Histories
  <1>5. LiveHoldGrants'
    BY <1>1, <1>2 DEF LiveHoldGrants, IsDeferred
  <1>6. Settlements'
    <2>1. \A s \in settlements : s.grant # g.id
      BY <1>1 DEF Settlements
    <2>2. \A h \in grants' :
            Holds(h.pda, h)' <=> ~ \E s \in settlements' : s.grant = h.id
      <3>1. Holds(g.pda, g)'
        BY <1>1, <1>2 DEF Holds, IsDeferred
      <3>2. ASSUME NEW h \in grants
            PROVE  Holds(h.pda, h)' <=> Holds(h.pda, h)
        <4>1. CASE h.pda = d
          BY <1>1, <1>2, <4>1 DEF Holds, IsDeferred
        <4>2. CASE h.pda # d
          BY <1>1, <4>2 DEF Holds, IsDeferred, Histories
        <4> QED
          BY <4>1, <4>2
      <3> QED
        BY <1>2, <2>1, <3>1, <3>2 DEF Settlements
    <2> QED
      BY <1>2, <2>1, <2>2 DEF Settlements
  <1>7. ClosedHoldNothing'
    BY <1>1, <1>2 DEF ClosedHoldNothing, DeferredTypeOK
  <1> QED
    BY <1>3, <1>4, <1>5, <1>6, <1>7

(***************************************************************************)
(* Settling keeps the invariant: the account held exactly one grant, which *)
(* was not settled before and is held by no account after.                 *)
(***************************************************************************)
LEMMA SettlesKeeps ==
    ASSUME DeferredInv, NEW d, NEW s, Settles(d, s)
    PROVE  DeferredInv'
  <1> USE DEF DeferredInv
  <1>1. /\ d \in DeferredIds /\ IsDeferred(d)
        /\ deferred' = [deferred EXCEPT ![d] = NoDeferred("zeroed")]
        /\ dclosing' = dclosing \cup {d}
        /\ s.grant = deferred[d].grant /\ s.pda = d
        /\ settlements' = settlements \cup {s} /\ grants' = grants
    BY DEF Settles, CloseDeferred
  <1>2. /\ deferred'[d] = NoDeferred("zeroed")
        /\ NoDeferred("zeroed").disc = "zeroed"
        /\ \A e \in DeferredIds \ {d} : deferred'[e] = deferred[e]
    BY <1>1 DEF DeferredTypeOK, NoDeferred
  <1>3. NoDeferred("zeroed") \in DeferredData
    BY DEF NoDeferred, DeferredData
  <1>4. DeferredTypeOK'
    BY <1>1, <1>3 DEF DeferredTypeOK
  <1>5. Histories'
    BY <1>1, FS_AddElement DEF Histories
  <1>6. LiveHoldGrants'
    BY <1>1, <1>2 DEF LiveHoldGrants, IsDeferred
  <1>7. ClosedHoldNothing'
    BY <1>1, <1>2, <1>4 DEF ClosedHoldNothing, DeferredTypeOK
  <1>8. PICK g \in grants : g.pda = d /\ g.id = deferred[d].grant
    BY <1>1 DEF LiveHoldGrants
  <1>9. Holds(g.pda, g) /\ ~ Holds(g.pda, g)'
    BY <1>1, <1>2, <1>8 DEF Holds, IsDeferred
  <1>10. \A t \in settlements : t.grant # s.grant
    BY <1>1, <1>8, <1>9 DEF Settlements
  <1>11. Settlements'
    <2>1. \A h \in grants' :
            Holds(h.pda, h)' <=> ~ \E t \in settlements' : t.grant = h.id
      <3> SUFFICES ASSUME NEW h \in grants
                   PROVE  Holds(h.pda, h)'
                            <=> ~ \E t \in settlements' : t.grant = h.id
        BY <1>1
      <3>1. CASE h.id = g.id
        <4>1. h = g
          BY <3>1 DEF Histories
        <4> QED
          BY <1>1, <1>8, <1>9, <4>1
      <3>2. CASE h.id # g.id
        <4>1. s.grant # h.id
          BY <1>1, <1>8, <3>2
        <4>2. Holds(h.pda, h)' <=> Holds(h.pda, h)
          <5>1. CASE h.pda = d
            BY <1>1, <1>2, <1>8, <3>2, <5>1 DEF Holds, IsDeferred
          <5>2. CASE h.pda # d
            BY <1>2, <5>2 DEF Holds, IsDeferred, Histories
          <5> QED
            BY <5>1, <5>2
        <4> QED
          BY <1>1, <4>1, <4>2 DEF Settlements
      <3> QED
        BY <3>1, <3>2
    <2> QED
      BY <1>1, <1>8, <1>10, <2>1 DEF Settlements
  <1> QED
    BY <1>4, <1>5, <1>6, <1>7, <1>11

(***************************************************************************)
(* The end of a transaction removes no live account.                       *)
(***************************************************************************)
LEMMA RemoveDeferredKeeps ==
    ASSUME DeferredInv, RemoveDeferred
    PROVE  DeferredInv'
  <1> USE DEF DeferredInv
  <1>1. /\ grants' = grants /\ settlements' = settlements
        /\ dclosing' = {}
    BY DEF RemoveDeferred
  <1>2. PICK funded \in SUBSET dclosing :
          deferred' = [d \in DeferredIds |->
                         IF d \in dclosing \ funded THEN NoDeferred("absent")
                         ELSE deferred[d]]
    BY DEF RemoveDeferred
  <1>3. \A d \in DeferredIds :
          \/ deferred'[d] = deferred[d]
          \/ ~ IsDeferred(d) /\ deferred'[d] = NoDeferred("absent")
    BY <1>2 DEF ClosedHoldNothing, IsDeferred
  <1>4. NoDeferred("absent").disc = "absent"
    BY DEF NoDeferred
  <1>5. \A d \in DeferredIds :
          /\ IsDeferred(d)' <=> IsDeferred(d)
          /\ IsDeferred(d) => deferred'[d] = deferred[d]
    BY <1>3, <1>4 DEF IsDeferred
  <1>6. DeferredTypeOK'
    <2>1. NoDeferred("absent") \in DeferredData
      BY DEF NoDeferred, DeferredData
    <2> QED
      BY <1>1, <1>2, <2>1 DEF DeferredTypeOK
  <1>7. Histories'
    BY <1>1 DEF Histories
  <1>8. LiveHoldGrants'
    BY <1>1, <1>5 DEF LiveHoldGrants
  <1>9. ClosedHoldNothing'
    BY <1>1 DEF ClosedHoldNothing
  <1>10. \A g \in grants : Holds(g.pda, g)' <=> Holds(g.pda, g)
    BY <1>5 DEF Holds, Histories
  <1>11. Settlements'
    BY <1>1, <1>10 DEF Settlements
  <1> QED
    BY <1>6, <1>7, <1>8, <1>9, <1>11

(***************************************************************************)
(* The invariant is inductive.                                             *)
(***************************************************************************)
LEMMA DeferredInvStep ==
    TypeOK /\ DeferredInv /\ [AnyDeferred]_allVars => DeferredInv'
  <1> SUFFICES ASSUME TypeOK, DeferredInv, [AnyDeferred]_allVars
               PROVE  DeferredInv'
    OBVIOUS
  <1>1. CASE UNCHANGED dvars
    <2> USE <1>1 DEF dvars
    <2>1. DeferredTypeOK' /\ Histories'
      BY DEF DeferredInv, DeferredTypeOK, Histories
    <2>2. LiveHoldGrants' /\ ClosedHoldNothing'
      BY DEF DeferredInv, LiveHoldGrants, ClosedHoldNothing, IsDeferred
    <2>3. Settlements'
      BY DEF DeferredInv, Settlements, Holds, IsDeferred
    <2> QED
      BY <2>1, <2>2, <2>3 DEF DeferredInv
  <1> QED
    BY <1>1, DeferredEffect, StoresKeeps, SettlesKeeps, RemoveDeferredKeeps

(***************************************************************************)
(* At the start there are no accounts, grants or settlements.              *)
(***************************************************************************)
LEMMA DeferredInvInit == DeferredInit => DeferredInv
  <1> SUFFICES ASSUME DeferredInit PROVE DeferredInv
    OBVIOUS
  <1>1. /\ deferred = [d \in DeferredIds |-> NoDeferred("absent")]
        /\ dclosing = {} /\ grants = {} /\ settlements = {}
    BY DEF DeferredInit
  <1>2. /\ NoDeferred("absent") \in DeferredData
        /\ NoDeferred("absent").disc = "absent"
    BY DEF NoDeferred, DeferredData
  <1>3. DeferredTypeOK
    BY <1>1, <1>2 DEF DeferredTypeOK
  <1>4. Histories
    BY <1>1, FS_EmptySet DEF Histories
  <1>5. LiveHoldGrants /\ ClosedHoldNothing /\ Settlements
    BY <1>1, <1>2
    DEF LiveHoldGrants, ClosedHoldNothing, Settlements, IsDeferred
  <1> QED
    BY <1>3, <1>4, <1>5 DEF DeferredInv

(***************************************************************************)
(* The invariant holds in every reachable state.                           *)
(***************************************************************************)
LEMMA DeferredInvariant == AnyDeferredSpec => []DeferredInv
  BY DeferredIsAny, TypeAny, DeferredInvInit, DeferredInvStep, PTL
  DEF AnyDeferredSpec

(***************************************************************************)
(* Every DeferredExec account holds what its type allows, whatever is      *)
(* submitted, executed, reclaimed and created again at its address.        *)
(***************************************************************************)
THEOREM DeferredTypeCorrect == DeferredSpec => []DeferredTypeOK
  <1>1. DeferredInv => DeferredTypeOK
    BY DEF DeferredInv
  <1> QED
    BY <1>1, DeferredIsOpen, DeferredInvariant, PTL

(***************************************************************************)
(* The invariant implies SettledOnce.                                      *)
(***************************************************************************)
LEMMA SettledAny == AnyDeferredSpec => []SettledOnce
  <1>1. DeferredInv => SettledOnce
    <2> SUFFICES ASSUME DeferredInv, NEW g \in grants
                 PROVE  Cardinality({s \in settlements : s.grant = g.id})
                          = IF Holds(g.pda, g) THEN 0 ELSE 1
      BY DEF SettledOnce, Holds
    <2>1. CASE Holds(g.pda, g)
      <3>1. {s \in settlements : s.grant = g.id} = {}
        BY <2>1 DEF DeferredInv, Settlements
      <3> QED
        BY <2>1, <3>1, FS_EmptySet
    <2>2. CASE ~ Holds(g.pda, g)
      <3>1. PICK s \in settlements : s.grant = g.id
        BY <2>2 DEF DeferredInv, Settlements
      <3>2. {t \in settlements : t.grant = g.id} = {s}
        BY <3>1 DEF DeferredInv, Settlements
      <3> QED
        BY <2>2, <3>2, FS_Singleton
    <2> QED
      BY <2>1, <2>2
  <1> QED
    BY <1>1, DeferredInvariant, PTL

(***************************************************************************)
(* An authorization is settled exactly once: while its account holds it,   *)
(* never; afterwards, by one execution or one reclaim.                     *)
(***************************************************************************)
THEOREM SettledExactlyOnce == DeferredSpec => []SettledOnce
  BY SettledAny, DeferredIsOpen, PTL

-----------------------------------------------------------------------------
(* Windows. *)

(***************************************************************************)
(* What a settlement's grant says is what its account said when it was     *)
(* closed.                                                                 *)
(***************************************************************************)
LEMMA HeldGrant ==
    ASSUME DeferredInv, NEW d \in DeferredIds, IsDeferred(d),
           NEW g \in grants, g.id = deferred[d].grant
    PROVE  /\ g.pda = d
           /\ g.ixs = deferred[d].ixs
           /\ g.payer = deferred[d].payer
           /\ g.expiresAt = deferred[d].expiresAt
  BY DEF DeferredInv, LiveHoldGrants, Histories

(***************************************************************************)
(* An execution is recorded within the window of its grant, with the payer *)
(* as the destination; a reclaim after the window.                         *)
(***************************************************************************)
LEMMA WindowsStep ==
    TypeOK /\ DeferredInv /\ WindowsAreDisjoint /\ [AnyDeferred]_allVars
      => WindowsAreDisjoint'
  <1> SUFFICES ASSUME TypeOK, DeferredInv, WindowsAreDisjoint,
                      [AnyDeferred]_allVars
               PROVE  WindowsAreDisjoint'
    OBVIOUS
  <1>0. slot \in Int
    BY ConstantsAssumption DEF TypeOK
  <1>1. ASSUME NEW d, NEW g, Stores(d, g)
        PROVE  WindowsAreDisjoint'
    <2>1. \A h \in grants : h.id # g.id
      BY <1>1, AfterStores DEF DeferredInv
    <2>2. \A s \in settlements : s.grant # g.id
      BY <2>1 DEF DeferredInv, Settlements
    <2> QED
      BY <1>1, <2>2 DEF Stores, WindowsAreDisjoint
  <1>2. ASSUME NEW w \in Wallets, NEW d \in DeferredIds, NEW refund \in Payers,
               NEW ixs \in Programs, ExecuteDeferred(w, d, refund, ixs)
        PROVE  WindowsAreDisjoint'
    <2> DEFINE new == SettlementRecord(d, "executed", ixs, refund)
    <2>1. /\ IsDeferred(d) /\ grants' = grants
          /\ settlements' = settlements \cup {new}
      BY <1>2, ExecuteSettles DEF Settles
    <2>2. deferred[d].payer = refund /\ ~ (slot > deferred[d].expiresAt)
      BY <1>2 DEF ExecuteDeferred, NotExpired
    <2>3. /\ new.grant = deferred[d].grant /\ new.kind = "executed"
          /\ new.at = slot /\ new.to = refund
      BY DEF SettlementRecord
    <2>4. deferred[d].expiresAt \in Nat
      BY DEF DeferredInv, DeferredTypeOK, DeferredData
    <2> HIDE DEF new
    <2>5. \A g \in grants : new.grant = g.id =>
            new.at <= g.expiresAt /\ new.to = g.payer
      <3> SUFFICES ASSUME NEW g \in grants, g.id = deferred[d].grant
                   PROVE  slot <= g.expiresAt /\ refund = g.payer
        BY <2>3
      <3>1. /\ g.payer = deferred[d].payer
            /\ g.expiresAt = deferred[d].expiresAt
        BY <2>1, HeldGrant
      <3> QED
        BY <1>0, <2>2, <2>4, <3>1
    <2> QED
      BY <2>1, <2>3, <2>5 DEF WindowsAreDisjoint
  <1>3. ASSUME NEW d \in DeferredIds, NEW payer \in Payers,
               NEW refund \in Payers, ReclaimDeferred(d, payer, refund)
        PROVE  WindowsAreDisjoint'
    <2> DEFINE new == SettlementRecord(d, "reclaimed", deferred[d].ixs, refund)
    <2>1. /\ IsDeferred(d) /\ grants' = grants
          /\ settlements' = settlements \cup {new}
      BY <1>3, ReclaimSettles DEF Settles
    <2>2. ~ (slot <= deferred[d].expiresAt)
      BY <1>3 DEF ReclaimDeferred, Reclaimable
    <2>3. /\ new.grant = deferred[d].grant /\ new.kind = "reclaimed"
          /\ new.at = slot
      BY DEF SettlementRecord
    <2>4. deferred[d].expiresAt \in Nat
      BY DEF DeferredInv, DeferredTypeOK, DeferredData
    <2> HIDE DEF new
    <2>5. \A g \in grants : new.grant = g.id => new.at > g.expiresAt
      <3> SUFFICES ASSUME NEW g \in grants, g.id = deferred[d].grant
                   PROVE  slot > g.expiresAt
        BY <2>3
      <3>1. g.expiresAt = deferred[d].expiresAt
        BY <2>1, HeldGrant
      <3> QED
        BY <1>0, <2>2, <2>4, <3>1
    <2> QED
      BY <2>1, <2>3, <2>5 DEF WindowsAreDisjoint
  <1>4. CASE RemoveDeferred \/ UNCHANGED dvars
    BY <1>4 DEF RemoveDeferred, dvars, WindowsAreDisjoint
  <1> QED
    BY <1>1, <1>2, <1>3, <1>4, DeferredSteps, AuthorizeStores

(***************************************************************************)
(* So the windows hold with any instructions added.                        *)
(***************************************************************************)
LEMMA WindowsAny == AnyDeferredSpec => []WindowsAreDisjoint
  <1>1. DeferredInit => WindowsAreDisjoint
    BY DEF DeferredInit, WindowsAreDisjoint
  <1> QED
    BY <1>1, WindowsStep, DeferredIsAny, TypeAny, DeferredInvariant, PTL
    DEF AnyDeferredSpec

(***************************************************************************)
(* Nobody reclaims an authorization that could still run, and its          *)
(* execution pays the rent back to whoever paid it.                        *)
(***************************************************************************)
THEOREM WindowsHold == DeferredSpec => []WindowsAreDisjoint
  BY WindowsAny, DeferredIsOpen, PTL

-----------------------------------------------------------------------------
(* Signatures. *)

(***************************************************************************)
(* What a passkey authority accepts is over the instruction and payload at *)
(* hand.                                                                   *)
(***************************************************************************)
LEMMA PasskeySigned ==
    ASSUME TypeOK, NEW acct \in Accounts, NEW op, NEW payload,
           Authenticate(acct, op, payload), auth[acct].type = Secp256r1
    PROVE  \E e \in accepted'[acct] :
             e.ch.disc = op /\ e.ch.payload = payload /\ e.at = slot
  <1>1. auth[acct].type # Ed25519
    OBVIOUS
  <1>2. PICK signedSlot, counter :
          accepted' = [accepted EXCEPT ![acct] = @ \cup
            {[inc |-> inc[acct], n |-> uses[acct] + 1, at |-> slot,
              ch |-> Challenge(op, payload, signedSlot, counter)]}]
    BY <1>1, Zenon DEF Authenticate
  <1> DEFINE e == [inc |-> inc[acct], n |-> uses[acct] + 1, at |-> slot,
                   ch |-> Challenge(op, payload, signedSlot, counter)]
  <1>3. e.ch.disc = op /\ e.ch.payload = payload /\ e.at = slot
    BY DEF Challenge
  <1>4. e \in accepted'[acct]
    BY <1>2 DEF TypeOK
  <1> QED
    BY <1>3, <1>4

(***************************************************************************)
(* Histories of assertions only grow, and the clock never goes back.       *)
(***************************************************************************)
LEMMA HistoryGrows ==
    ASSUME TypeOK, [AnyNext]_vars, NEW x \in Accounts
    PROVE  accepted[x] \subseteq accepted'[x] /\ slot <= slot'
  <1>1. HistoryStep(x)
    BY HistoryEffect
  <1>2. slot \in Int
    BY ConstantsAssumption DEF TypeOK
  <1>3. accepted[x] \subseteq accepted'[x]
    BY <1>1 DEF HistoryStep, Untouched, Created, Asserted, Accepts
  <1>4. slot <= slot'
    BY <1>1, <1>2 DEF HistoryStep, Clock, OneOp
  <1> QED
    BY <1>3, <1>4

(***************************************************************************)
(* What was signed for stays signed for.                                   *)
(***************************************************************************)
LEMMA SignedForStays ==
    ASSUME TypeOK, TypeOK', [AnyNext]_vars, NEW g, g.pda \in DeferredIds,
           SignedFor(g)
    PROVE  SignedFor(g)'
  <1>1. g.pda[1] \in Accounts
    BY DEF DeferredIds
  <1>2. accepted[g.pda[1]] \subseteq accepted'[g.pda[1]] /\ slot <= slot'
    BY <1>1, HistoryGrows
  <1>3. PICK e \in accepted[g.pda[1]], offset \in Offsets :
          /\ e.ch.disc = "Authorize"
          /\ e.ch.payload = <<g.ixs, offset>>
          /\ e.at <= slot
          /\ g.expiresAt = e.at + offset
    BY DEF SignedFor
  <1>4. e.at \in Int /\ slot \in Int /\ slot' \in Int
    BY <1>1, EntryTyping, ConstantsAssumption DEF TypeOK
  <1>5. e.at <= slot'
    BY <1>2, <1>3, <1>4
  <1> QED
    BY <1>2, <1>3, <1>5 DEF SignedFor

(***************************************************************************)
(* What Authorize stores has just been signed for.                         *)
(***************************************************************************)
LEMMA AuthorizeSigns ==
    ASSUME TypeOK, NEW w \in Wallets, NEW acct \in Accounts,
           NEW payer \in Payers, NEW ixs \in Programs,
           NEW offset \in SubmittedOffsets,
           Authorize(w, acct, payer, ixs, offset),
           NEW g, g = GrantRecord(acct, payer, ixs, offset)
    PROVE  SignedFor(g)'
  <1>1. /\ offset \in Offsets
        /\ UseAuthority(w, acct, "Authorize", <<ixs, offset>>)
    BY AuthorizeIsUse
  <1>2. /\ auth[acct].type = Secp256r1 /\ slot' = slot
        /\ Authenticate(acct, "Authorize", <<ixs, offset>>)
    BY <1>1 DEF UseAuthority, MayUse
  <1>3. \E e \in accepted'[acct] :
          /\ e.ch.disc = "Authorize" /\ e.ch.payload = <<ixs, offset>>
          /\ e.at = slot
    BY <1>2, PasskeySigned
  <1>4. slot \in Int
    BY ConstantsAssumption DEF TypeOK
  <1> QED
    BY <1>1, <1>2, <1>3, <1>4 DEF SignedFor, GrantRecord, DeferredAddress

(***************************************************************************)
(* Every step keeps the signatures behind the grants, and executes only    *)
(* what they cover.                                                        *)
(***************************************************************************)
LEMMA SignedStep ==
    TypeOK /\ TypeOK' /\ DeferredInv /\ GrantsAreSigned /\ ExecutedAsSigned
      /\ [AnyDeferred]_allVars => GrantsAreSigned' /\ ExecutedAsSigned'
  <1> SUFFICES ASSUME TypeOK, TypeOK', DeferredInv, GrantsAreSigned,
                      ExecutedAsSigned, [AnyDeferred]_allVars
               PROVE  GrantsAreSigned' /\ ExecutedAsSigned'
    OBVIOUS
  <1>1. [AnyNext]_vars
    BY DeferredStepIsAny
  <1>2. \A g \in grants : SignedFor(g)'
    BY <1>1, SignedForStays DEF GrantsAreSigned, DeferredInv, Histories
  <1>3. GrantsAreSigned'
    <2>1. ASSUME NEW w \in Wallets, NEW acct \in Accounts,
                 NEW payer \in Payers, NEW ixs \in Programs,
                 NEW offset \in SubmittedOffsets,
                 Authorize(w, acct, payer, ixs, offset)
          PROVE  GrantsAreSigned'
      <3>1. PICK g : /\ g = GrantRecord(acct, payer, ixs, offset)
                     /\ grants' = grants \cup {g}
        BY <2>1, AuthorizeStores DEF Stores
      <3>2. SignedFor(g)'
        BY <2>1, <3>1, AuthorizeSigns
      <3> QED
        BY <1>2, <3>1, <3>2 DEF GrantsAreSigned
    <2>2. ASSUME NEW d, NEW s, Settles(d, s)
          PROVE  GrantsAreSigned'
      BY <1>2, <2>2 DEF Settles, GrantsAreSigned
    <2>3. CASE RemoveDeferred \/ UNCHANGED dvars
      BY <1>2, <2>3 DEF RemoveDeferred, dvars, GrantsAreSigned
    <2> QED
      BY <2>1, <2>2, <2>3, DeferredSteps, ExecuteSettles, ReclaimSettles
  <1>4. ASSUME NEW s \in settlements, s.kind = "executed"
        PROVE  \E e \in accepted'[s.pda[1]], offset \in Offsets :
                  /\ e.ch.disc = "Authorize"
                  /\ e.ch.payload = <<s.ixs, offset>>
                  /\ e.at <= s.at
                  /\ s.at <= e.at + offset
    <2>1. s.pda[1] \in Accounts
      BY DEF DeferredInv, Settlements, Histories, DeferredIds
    <2>2. accepted[s.pda[1]] \subseteq accepted'[s.pda[1]]
      BY <1>1, <2>1, HistoryGrows
    <2> QED
      BY <1>4, <2>2 DEF ExecutedAsSigned
  <1>5. ASSUME NEW w \in Wallets, NEW d \in DeferredIds, NEW refund \in Payers,
               NEW ixs \in Programs, ExecuteDeferred(w, d, refund, ixs)
        PROVE  ExecutedAsSigned'
    <2> DEFINE new == SettlementRecord(d, "executed", ixs, refund)
    <2>1. /\ IsDeferred(d) /\ settlements' = settlements \cup {new}
      BY <1>5, ExecuteSettles DEF Settles
    <2>2. /\ UNCHANGED vars
          /\ deferred[d].ixs = ixs /\ ~ (slot > deferred[d].expiresAt)
      BY <1>5 DEF ExecuteDeferred, NotExpired, HashesMatch
    <2>3. PICK g \in grants : g.id = deferred[d].grant
      BY <2>1 DEF DeferredInv, LiveHoldGrants
    <2>4. g.pda = d /\ g.ixs = ixs /\ g.expiresAt = deferred[d].expiresAt
      BY <2>1, <2>2, <2>3, HeldGrant
    <2>5. PICK e \in accepted[d[1]], offset \in Offsets :
            /\ e.ch.disc = "Authorize"
            /\ e.ch.payload = <<ixs, offset>>
            /\ e.at <= slot
            /\ g.expiresAt = e.at + offset
      BY <2>4 DEF GrantsAreSigned, SignedFor
    <2>6. slot \in Int /\ deferred[d].expiresAt \in Int
      BY ConstantsAssumption
      DEF TypeOK, DeferredInv, DeferredTypeOK, DeferredData
    <2>7. slot <= e.at + offset
      BY <2>2, <2>4, <2>5, <2>6
    <2>8. /\ new.pda = d /\ new.ixs = ixs /\ new.at = slot
          /\ accepted' = accepted
      BY <2>2 DEF SettlementRecord, vars
    <2> HIDE DEF new
    <2>9. \E f \in accepted'[new.pda[1]], o \in Offsets :
             /\ f.ch.disc = "Authorize"
             /\ f.ch.payload = <<new.ixs, o>>
             /\ f.at <= new.at
             /\ new.at <= f.at + o
      BY <2>5, <2>7, <2>8
    <2> QED
      BY <1>4, <2>1, <2>9 DEF ExecutedAsSigned
  <1>6. ASSUME NEW d \in DeferredIds, NEW payer \in Payers,
               NEW refund \in Payers, ReclaimDeferred(d, payer, refund)
        PROVE  ExecutedAsSigned'
    <2> DEFINE new == SettlementRecord(d, "reclaimed", deferred[d].ixs, refund)
    <2>1. settlements' = settlements \cup {new}
      BY <1>6, ReclaimSettles DEF Settles
    <2>2. new.kind # "executed"
      BY DEF SettlementRecord
    <2> HIDE DEF new
    <2> QED
      BY <1>4, <2>1, <2>2 DEF ExecutedAsSigned
  <1>7. ASSUME NEW d, NEW g, Stores(d, g)
        PROVE  ExecutedAsSigned'
    BY <1>4, <1>7 DEF Stores, ExecutedAsSigned
  <1>8. ASSUME RemoveDeferred \/ UNCHANGED dvars
        PROVE  ExecutedAsSigned'
    BY <1>4, <1>8 DEF RemoveDeferred, dvars, ExecutedAsSigned
  <1>9. ASSUME NEW w \in Wallets, NEW acct \in Accounts, NEW payer \in Payers,
               NEW ixs \in Programs, NEW offset \in SubmittedOffsets,
               Authorize(w, acct, payer, ixs, offset)
        PROVE  ExecutedAsSigned'
    BY <1>7, <1>9, AuthorizeStores
  <1>10. ExecutedAsSigned'
    BY <1>5, <1>6, <1>8, <1>9, DeferredSteps
  <1> QED
    BY <1>3, <1>10

(***************************************************************************)
(* So executions are signed with any instructions added.                   *)
(***************************************************************************)
LEMMA SignedAny == AnyDeferredSpec => []ExecutedAsSigned
  <1>1. DeferredInit => GrantsAreSigned /\ ExecutedAsSigned
    BY DEF DeferredInit, GrantsAreSigned, ExecutedAsSigned
  <1> QED
    BY <1>1, SignedStep, DeferredIsAny, TypeAny, DeferredInvariant, PTL
    DEF AnyDeferredSpec

(***************************************************************************)
(* What the vault signs for in ExecuteDeferred was signed by a passkey     *)
(* authority, for exactly these instructions, and runs within the offset   *)
(* that the passkey signed.                                                *)
(***************************************************************************)
THEOREM ExecutionsAreSigned == DeferredSpec => []ExecutedAsSigned
  BY SignedAny, DeferredIsOpen, PTL

-----------------------------------------------------------------------------
(* The refinement.  Abstract is Authorities with every use submitted, so   *)
(* its actions are those of Authorities and only its Instruction differs.  *)

(***************************************************************************)
(* The vocabulary of the two is the same.                                  *)
(***************************************************************************)
LEMMA SameVocabulary ==
    /\ vars = Abstract!vars
    /\ Accounts = Abstract!Accounts
    /\ Keys = Abstract!Keys
    /\ SubmittedRoles = Abstract!SubmittedRoles
    /\ Uses = Abstract!Uses
    /\ Absent = Abstract!Absent
    /\ Zeroed = Abstract!Zeroed
    /\ \A acct, w : Actor(acct, w) <=> Abstract!Actor(acct, w)
    /\ \A acct :
         /\ IsVacant(acct) <=> Abstract!IsVacant(acct)
         /\ IsAuthority(acct) <=> Abstract!IsAuthority(acct)
         /\ CounterAfter(acct) = Abstract!CounterAfter(acct)
         /\ UsesAfter(acct) = Abstract!UsesAfter(acct)
    /\ \A type, id, key :
         KeyMatchesType(type, id, key) <=> Abstract!KeyMatchesType(type, id, key)
    /\ \A type, role, key :
         NewAuthority(type, role, key) = Abstract!NewAuthority(type, role, key)
  <1> USE DEF Abstract!Ed25519, Abstract!Secp256r1
  <1>1. vars = Abstract!vars
    BY DEF vars, Abstract!vars
  <1>2. /\ Accounts = Abstract!Accounts /\ Keys = Abstract!Keys
        /\ SubmittedRoles = Abstract!SubmittedRoles /\ Uses = Abstract!Uses
    BY DEF Accounts, Keys, SubmittedRoles, Uses, Abstract!Accounts,
       Abstract!Keys, Abstract!SubmittedRoles, Abstract!Uses
  <1>3. Absent = Abstract!Absent /\ Zeroed = Abstract!Zeroed
    BY DEF Absent, Zeroed, ZeroBytes, Abstract!Absent, Abstract!Zeroed,
       Abstract!ZeroBytes
  <1>4. \A acct :
          /\ IsVacant(acct) <=> Abstract!IsVacant(acct)
          /\ IsAuthority(acct) <=> Abstract!IsAuthority(acct)
          /\ CounterAfter(acct) = Abstract!CounterAfter(acct)
          /\ UsesAfter(acct) = Abstract!UsesAfter(acct)
    BY DEF IsVacant, IsAuthority, CounterAfter, UsesAfter, Odometer,
       Abstract!IsVacant, Abstract!IsAuthority, Abstract!CounterAfter,
       Abstract!UsesAfter, Abstract!Odometer
  <1>5. \A acct, w : Actor(acct, w) <=> Abstract!Actor(acct, w)
    BY <1>4 DEF Actor, BelongsTo, Abstract!Actor, Abstract!BelongsTo
  <1>6. \A type, id, key :
          KeyMatchesType(type, id, key) <=> Abstract!KeyMatchesType(type, id, key)
    BY DEF KeyMatchesType, Abstract!KeyMatchesType
  <1>7. \A type, role, key :
          NewAuthority(type, role, key) = Abstract!NewAuthority(type, role, key)
    BY DEF NewAuthority, Abstract!NewAuthority
  <1> QED
    BY <1>1, <1>2, <1>3, <1>4, <1>5, <1>6, <1>7

(***************************************************************************)
(* Authentication is the same.                                             *)
(***************************************************************************)
LEMMA SameAuthentication ==
    \A acct, op, payload :
       Authenticate(acct, op, payload)
         <=> Abstract!Authenticate(acct, op, payload)
  BY SameVocabulary
  DEF Authenticate, Signers, Keys, Ed25519Authentic, Counters, Challenge,
      Secp256r1Authentic, FreshSlot, Odometer, Abstract!Authenticate,
      Abstract!Signers, Abstract!Keys, Abstract!Ed25519Authentic,
      Abstract!Counters, Abstract!Challenge, Abstract!Secp256r1Authentic,
      Abstract!FreshSlot, Abstract!Odometer, Abstract!Ed25519,
      Abstract!Secp256r1

(***************************************************************************)
(* Every instruction and every act of the runtime is the same.             *)
(***************************************************************************)
LEMMA SameActions ==
    /\ \A w, id, type, key :
         CreateWallet(w, id, type, key)
           <=> Abstract!CreateWallet(w, id, type, key)
    /\ \A w, acct, id, type, role, key :
         AddAuthority(w, acct, id, type, role, key)
           <=> Abstract!AddAuthority(w, acct, id, type, role, key)
    /\ \A w, acct, id, type, key :
         TransferOwnership(w, acct, id, type, key)
           <=> Abstract!TransferOwnership(w, acct, id, type, key)
    /\ \A w, acct, target :
         RemoveAuthority(w, acct, target)
           <=> Abstract!RemoveAuthority(w, acct, target)
    /\ \A w, acct, op, payload :
         UseAuthority(w, acct, op, payload)
           <=> Abstract!UseAuthority(w, acct, op, payload)
    /\ EndTx <=> Abstract!EndTx
    /\ Tick <=> Abstract!Tick
  <1> USE DEF Abstract!Owner, Abstract!Admin, Abstract!Spender,
              Abstract!Ed25519, Abstract!Secp256r1
  <1>1. \A w, id, type, key :
          CreateWallet(w, id, type, key)
            <=> Abstract!CreateWallet(w, id, type, key)
    BY SameVocabulary DEF CreateWallet, Abstract!CreateWallet
  <1>2. \A w, acct, id, type, role, key :
          AddAuthority(w, acct, id, type, role, key)
            <=> Abstract!AddAuthority(w, acct, id, type, role, key)
    BY SameVocabulary, SameAuthentication
    DEF AddAuthority, MayAdd, Abstract!AddAuthority, Abstract!MayAdd
  <1>3. \A w, acct, id, type, key :
          TransferOwnership(w, acct, id, type, key)
            <=> Abstract!TransferOwnership(w, acct, id, type, key)
    BY SameVocabulary, SameAuthentication
    DEF TransferOwnership, MayOwn, Abstract!TransferOwnership, Abstract!MayOwn
  <1>4. \A w, acct, target :
          RemoveAuthority(w, acct, target)
            <=> Abstract!RemoveAuthority(w, acct, target)
    BY SameVocabulary, SameAuthentication
    DEF RemoveAuthority, MayRemove, BelongsTo, Abstract!RemoveAuthority,
        Abstract!MayRemove, Abstract!BelongsTo
  <1>5. \A w, acct, op, payload :
          UseAuthority(w, acct, op, payload)
            <=> Abstract!UseAuthority(w, acct, op, payload)
    BY SameVocabulary, SameAuthentication
    DEF UseAuthority, MayUse, Abstract!UseAuthority, Abstract!MayUse
  <1>6. EndTx <=> Abstract!EndTx
    BY SameVocabulary DEF EndTx, Abstract!EndTx
  <1>7. Tick <=> Abstract!Tick
    BY DEF Tick, Abstract!Tick
  <1> QED
    BY <1>1, <1>2, <1>3, <1>4, <1>5, <1>6, <1>7

(***************************************************************************)
(* A step of the authorities with every use is a step of Abstract.         *)
(***************************************************************************)
LEMMA AnyStepIsAbstract == [AnyNext]_vars => [Abstract!Next]_(Abstract!vars)
  <1> SUFFICES ASSUME [AnyNext]_vars PROVE [Abstract!Next]_(Abstract!vars)
    OBVIOUS
  <1>1. CASE UNCHANGED vars
    BY <1>1 DEF vars, Abstract!vars
  <1>2. CASE HorizonReached
    BY <1>2 DEF HorizonReached, vars, Abstract!vars
  <1>3. CASE EndTx \/ Tick
    BY <1>3, SameActions DEF Abstract!Next
  <1>4. CASE Instruction \/ AnyUse
    <2>1. Abstract!Instruction
      BY <1>4, SameActions, SameVocabulary, ConstantsAssumption
      DEF Instruction, AnyUse, Abstract!Instruction
    <2> QED
      BY <2>1 DEF Abstract!Next
  <1> QED
    BY <1>1, <1>2, <1>3, <1>4 DEF AnyNext, Next

(***************************************************************************)
(* Deferred execution implements Authorities: initial states are initial   *)
(* states; Authorize is one use of its authority, an execution and a       *)
(* reclaim are stutters, and every other step is a step of the authorities *)
(* or, when it only deletes deferred accounts, a stutter.                  *)
(***************************************************************************)
THEOREM DeferredImplementsAuthorities == DeferredSpec => ImplementsAuthorities
  <1>1. DeferredInit => Abstract!Init
    BY SameVocabulary DEF DeferredInit, Init, Abstract!Init
  <1>2. [DeferredNext]_allVars => [Abstract!Next]_(Abstract!vars)
    BY DeferredStepIsOpen, DeferredStepIsAny, AnyStepIsAbstract
  <1> QED
    BY <1>1, <1>2, PTL DEF DeferredSpec, ImplementsAuthorities, Abstract!Spec
=============================================================================
