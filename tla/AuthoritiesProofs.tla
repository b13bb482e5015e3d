-------------------------- MODULE AuthoritiesProofs --------------------------
(***************************************************************************)
(* Proofs about Authorities, for every set of wallets and ids and every    *)
(* value of the bounds: roles, owners and life cycles first, then that no  *)
(* passkey assertion is accepted twice, for every odometer modulus and     *)
(* every block capacity that OdometerAssumption allows.                    *)
(***************************************************************************)
EXTENDS Authorities, TLAPS

USE DEF Owner, Admin, Spender, Ed25519, Secp256r1

-----------------------------------------------------------------------------
(* Every use. *)

(***************************************************************************)
(* Spec lets callers submit SubmittedUses.  The modules that extend        *)
(* Authorities add the other uses as actions of their own, so the proofs   *)
(* are about every use, whichever way it is submitted.                     *)
(***************************************************************************)
AnyUse ==
    \E w \in Wallets, acct \in Accounts, op \in Uses, payload \in Payloads :
       UseAuthority(w, acct, op, payload)

AnyNext == Next \/ AnyUse

AnySpec == Init /\ [][AnyNext]_vars

(***************************************************************************)
(* What holds with every use holds with the submitted ones.                *)
(***************************************************************************)
LEMMA SpecIsAny == Spec => AnySpec
  <1>1. [Next]_vars => [AnyNext]_vars
    BY DEF AnyNext
  <1> QED
    BY <1>1, PTL DEF Spec, AnySpec

-----------------------------------------------------------------------------
(* Typing. *)

(***************************************************************************)
(* The odometer stays a counter: wrapping_add never leaves u32.            *)
(***************************************************************************)
LEMMA OdometerTyping ==
    ASSUME TypeOK, NEW acct \in Accounts
    PROVE  /\ Odometer(acct) \in Counters
           /\ CounterAfter(acct) \in Counters
           /\ UsesAfter(acct) \in Nat
  <1>1. auth[acct] \in AuthorityData /\ uses[acct] \in Nat
    BY DEF TypeOK
  <1>2. CounterMod \in Nat \ {0} /\ auth[acct].counter \in Nat
    BY <1>1, ConstantsAssumption DEF AuthorityData, Counters
  <1>3. Odometer(acct) \in Counters
    BY <1>2 DEF Odometer, Counters
  <1> QED
    BY <1>1, <1>3 DEF CounterAfter, UsesAfter, AuthorityData

(***************************************************************************)
(* What Authenticate writes is well typed.                                 *)
(***************************************************************************)
LEMMA AuthenticateTyping ==
    ASSUME TypeOK, NEW acct \in Accounts, NEW op \in Ops,
           NEW payload \in SignedPayloads, Authenticate(acct, op, payload)
    PROVE  /\ slotOps' \in 0 .. OpsPerSlot
           /\ accepted' \in [Accounts -> SUBSET Assertions]
           /\ by' \subseteq Accounts
  <1>1. slotOps' \in 0 .. OpsPerSlot
    BY ConstantsAssumption DEF TypeOK, Authenticate
  <1>2. by' \subseteq Accounts
    BY DEF Authenticate
  <1>3. CASE UNCHANGED accepted
    BY <1>1, <1>2, <1>3 DEF TypeOK
  <1>4. ASSUME NEW signedSlot \in 0 .. MaxSlot, NEW counter \in Counters,
               accepted' = [accepted EXCEPT ![acct] = @ \cup
                 {[inc |-> inc[acct], n |-> uses[acct] + 1, at |-> slot,
                   ch |-> Challenge(op, payload, signedSlot, counter)]}]
        PROVE  accepted' \in [Accounts -> SUBSET Assertions]
    <2>1. [inc |-> inc[acct], n |-> uses[acct] + 1, at |-> slot,
           ch |-> Challenge(op, payload, signedSlot, counter)] \in Assertions
      BY ConstantsAssumption DEF Challenge, Assertions, TypeOK
    <2> QED
      BY <1>4, <2>1 DEF TypeOK
  <1> QED
    BY <1>1, <1>2, <1>3, <1>4 DEF Authenticate

(***************************************************************************)
(* The record AddAuthority, TransferOwnership and CreateWallet write is    *)
(* authority data.                                                         *)
(***************************************************************************)
LEMMA NewAuthorityTyping ==
    ASSUME NEW type \in {Ed25519, Secp256r1}, NEW role \in Roles,
           NEW key \in Keys
    PROVE  NewAuthority(type, role, key) \in AuthorityData
  BY ConstantsAssumption DEF NewAuthority, AuthorityData, Counters

(***************************************************************************)
(* What closing (zeroed data) and deletion (no data) leave behind is       *)
(* authority data.                                                         *)
(***************************************************************************)
LEMMA ZeroBytesTyping == Zeroed \in AuthorityData /\ Absent \in AuthorityData
  BY ConstantsAssumption
  DEF Zeroed, Absent, ZeroBytes, AuthorityData, Roles, Keys, Counters

(***************************************************************************)
(* Every step, of an instruction or of the runtime, keeps the types.       *)
(***************************************************************************)
LEMMA TypeStep == TypeOK /\ [AnyNext]_vars => TypeOK'
  <1> SUFFICES ASSUME TypeOK, [AnyNext]_vars PROVE TypeOK'
    OBVIOUS
  <1>1. ASSUME NEW w \in Wallets, NEW id \in Ids, NEW type \in AuthTypes,
               NEW key \in Keys, CreateWallet(w, id, type, key)
        PROVE  TypeOK'
    <2>1. NewAuthority(type, Owner, key) \in AuthorityData
      BY NewAuthorityTyping, ConstantsAssumption DEF Roles
    <2> QED
      BY <1>1, <2>1, ConstantsAssumption DEF CreateWallet, TypeOK, Accounts
  <1>2. ASSUME NEW w \in Wallets, NEW acct \in Accounts, NEW id \in Ids,
               NEW type \in AuthTypes, NEW newRole \in SubmittedRoles,
               NEW key \in Keys,
               AddAuthority(w, acct, id, type, newRole, key)
        PROVE  TypeOK'
    <2>1. newRole \in Roles /\ type \in {Ed25519, Secp256r1}
      BY <1>2, ConstantsAssumption
      DEF AddAuthority, MayAdd, SubmittedRoles, Roles
    <2>2. NewAuthority(type, newRole, key) \in AuthorityData
      BY <2>1, NewAuthorityTyping
    <2>3. <<id, key, type, newRole>> \in SignedPayloads
      BY <2>1 DEF SignedPayloads
    <2>4. Authenticate(acct, "AddAuthority", <<id, key, type, newRole>>)
      BY <1>2 DEF AddAuthority
    <2>5. /\ slotOps' \in 0 .. OpsPerSlot
          /\ accepted' \in [Accounts -> SUBSET Assertions]
          /\ by' \subseteq Accounts
      BY <2>3, <2>4, AuthenticateTyping DEF Ops
    <2>6. auth' \in [Accounts -> AuthorityData]
      <3>1. [auth EXCEPT ![acct].counter = CounterAfter(acct)]
              \in [Accounts -> AuthorityData]
        BY OdometerTyping DEF TypeOK, AuthorityData
      <3>2. auth' = [[auth EXCEPT ![acct].counter = CounterAfter(acct)]
                       EXCEPT ![<<w, id>>] = NewAuthority(type, newRole, key)]
        BY <1>2 DEF AddAuthority
      <3> QED
        BY <2>2, <3>1, <3>2 DEF Accounts
    <2>7. uses' \in [Accounts -> Nat] /\ inc' \in [Accounts -> Nat]
      BY <1>2, OdometerTyping DEF AddAuthority, TypeOK, Accounts
    <2> QED
      <3>1. UNCHANGED <<wallets, closing, slot>>
        BY <1>2 DEF AddAuthority
      <3> QED
        BY <3>1, <2>5, <2>6, <2>7 DEF TypeOK
  <1>3. ASSUME NEW w \in Wallets, NEW acct \in Accounts, NEW id \in Ids,
               NEW type \in AuthTypes, NEW key \in Keys,
               TransferOwnership(w, acct, id, type, key)
        PROVE  TypeOK'
    <2>1. type \in {Ed25519, Secp256r1}
      BY ConstantsAssumption
    <2>2. NewAuthority(type, Owner, key) \in AuthorityData
      BY <2>1, NewAuthorityTyping DEF Roles
    <2>3. <<id, key, type>> \in SignedPayloads
      BY <2>1 DEF SignedPayloads
    <2>4. Authenticate(acct, "TransferOwnership", <<id, key, type>>)
      BY <1>3 DEF TransferOwnership
    <2>5. /\ slotOps' \in 0 .. OpsPerSlot
          /\ accepted' \in [Accounts -> SUBSET Assertions]
          /\ by' \subseteq Accounts
      BY <2>3, <2>4, AuthenticateTyping DEF Ops
    <2>6. auth' \in [Accounts -> AuthorityData]
      BY <1>3, <2>2, ZeroBytesTyping
      DEF TransferOwnership, TypeOK, Accounts
    <2>7. uses' \in [Accounts -> Nat] /\ inc' \in [Accounts -> Nat]
      BY <1>3, OdometerTyping DEF TransferOwnership, TypeOK, Accounts
    <2> QED
      BY <1>3, <2>5, <2>6, <2>7 DEF TransferOwnership, TypeOK
  <1>4. ASSUME NEW w \in Wallets, NEW acct \in Accounts,
               NEW target \in Accounts, RemoveAuthority(w, acct, target)
        PROVE  TypeOK'
    <2>1. Authenticate(acct, "RemoveAuthority", target)
      BY <1>4 DEF RemoveAuthority
    <2>2. /\ slotOps' \in 0 .. OpsPerSlot
          /\ accepted' \in [Accounts -> SUBSET Assertions]
          /\ by' \subseteq Accounts
      BY <2>1, AuthenticateTyping DEF SignedPayloads, Ops
    <2>3. auth' \in [Accounts -> AuthorityData]
      BY <1>4, OdometerTyping, ZeroBytesTyping
      DEF RemoveAuthority, TypeOK, AuthorityData
    <2>4. uses' \in [Accounts -> Nat]
      BY <1>4, OdometerTyping DEF RemoveAuthority, TypeOK
    <2> QED
      BY <1>4, <2>2, <2>3, <2>4 DEF RemoveAuthority, TypeOK
  <1>5. ASSUME NEW w \in Wallets, NEW acct \in Accounts,
               NEW op \in Uses, NEW payload \in Payloads,
               UseAuthority(w, acct, op, payload)
        PROVE  TypeOK'
    <2>1. Authenticate(acct, op, payload) /\ op \in Ops
      BY <1>5, ConstantsAssumption DEF UseAuthority, Ops
    <2>2. /\ slotOps' \in 0 .. OpsPerSlot
          /\ accepted' \in [Accounts -> SUBSET Assertions]
          /\ by' \subseteq Accounts
      BY <2>1, AuthenticateTyping DEF SignedPayloads, Ops
    <2>3. auth' \in [Accounts -> AuthorityData]
      BY <1>5, OdometerTyping DEF UseAuthority, TypeOK, AuthorityData
    <2>4. uses' \in [Accounts -> Nat]
      BY <1>5, OdometerTyping DEF UseAuthority, TypeOK
    <2> QED
      BY <1>5, <2>2, <2>3, <2>4 DEF UseAuthority, TypeOK
  <1>6. CASE EndTx
    BY <1>6, ZeroBytesTyping DEF EndTx, TypeOK
  <1>7. CASE Tick
    BY <1>7, ConstantsAssumption DEF Tick, TypeOK
  <1>8. CASE UNCHANGED vars
    BY <1>8 DEF vars, TypeOK
  <1> QED
    BY <1>1, <1>2, <1>3, <1>4, <1>5, <1>6, <1>7, <1>8, ConstantsAssumption
    DEF AnyNext, AnyUse, Next, Instruction, HorizonReached

(***************************************************************************)
(* Types, with every use submitted.                                        *)
(***************************************************************************)
LEMMA TypeAny == AnySpec => []TypeOK
  <1>1. Init => TypeOK
    <2> SUFFICES ASSUME Init PROVE TypeOK
      OBVIOUS
    <2>1. by \subseteq Accounts
      BY DEF Init
    <2>2. accepted \in [Accounts -> SUBSET Assertions]
      BY DEF Init
    <2>3. auth \in [Accounts -> AuthorityData]
      BY ZeroBytesTyping DEF Init
    <2> QED
      BY <2>1, <2>2, <2>3, ConstantsAssumption DEF Init, TypeOK
  <1> QED
    BY <1>1, TypeStep, PTL DEF AnySpec

(***************************************************************************)
(* Every authority account, role, counter and history entry of every       *)
(* reachable state has its type; in particular no role other than the      *)
(* three is ever stored, whatever byte a caller submits.                   *)
(***************************************************************************)
THEOREM TypeCorrect == Spec => []TypeOK
  BY TypeAny, SpecIsAny, PTL

-----------------------------------------------------------------------------
(* What each instruction does to the accounts. *)

(***************************************************************************)
(* An account after one use.                                               *)
(***************************************************************************)
Used(acct) == [auth[acct] EXCEPT !.counter = CounterAfter(acct)]

(***************************************************************************)
(* The fields of a freshly written authority.                              *)
(***************************************************************************)
LEMMA NewAuthorityFields ==
    ASSUME NEW type, NEW role, NEW key
    PROVE  /\ NewAuthority(type, role, key).disc = "authority"
           /\ NewAuthority(type, role, key).type = type
           /\ NewAuthority(type, role, key).role = role
           /\ NewAuthority(type, role, key).key = key
           /\ NewAuthority(type, role, key).counter = 0
  BY DEF NewAuthority

(***************************************************************************)
(* CreateWallet changes one account, which had no data, into an Owner.     *)
(***************************************************************************)
LEMMA CreateEffect ==
    ASSUME TypeOK, NEW w \in Wallets, NEW id \in Ids, NEW type, NEW key,
           CreateWallet(w, id, type, key)
    PROVE  /\ <<w, id>> \in Accounts
           /\ IsVacant(<<w, id>>)
           /\ auth'[<<w, id>>] = NewAuthority(type, Owner, key)
           /\ \A x \in Accounts : x # <<w, id>> => auth'[x] = auth[x]
  BY DEF CreateWallet, TypeOK, Accounts

(***************************************************************************)
(* AddAuthority writes one account that had no data and at most the        *)
(* counter of the actor.                                                   *)
(***************************************************************************)
LEMMA AddEffect ==
    ASSUME TypeOK, NEW w \in Wallets, NEW admin \in Accounts, NEW id \in Ids,
           NEW type, NEW newRole, NEW key,
           AddAuthority(w, admin, id, type, newRole, key)
    PROVE  /\ <<w, id>> \in Accounts
           /\ IsVacant(<<w, id>>)
           /\ IsAuthority(admin)
           /\ auth'[<<w, id>>] = NewAuthority(type, newRole, key)
           /\ auth'[admin] = Used(admin)
           /\ \A x \in Accounts \ {admin, <<w, id>>} : auth'[x] = auth[x]
  <1>1. <<w, id>> \in Accounts
    BY DEF Accounts
  <1>2. IsVacant(<<w, id>>) /\ IsAuthority(admin)
    BY DEF AddAuthority, Actor
  <1>3. admin # <<w, id>>
    BY <1>2 DEF IsVacant, IsAuthority
  <1>4. auth' = [auth EXCEPT ![admin].counter = CounterAfter(admin),
                             ![<<w, id>>] = NewAuthority(type, newRole, key)]
    BY DEF AddAuthority
  <1> QED
    BY <1>1, <1>2, <1>3, <1>4 DEF TypeOK, Used

(***************************************************************************)
(* RemoveAuthority zeroes one account that is neither the actor's nor an   *)
(* Owner, and writes at most the counter of the actor.                     *)
(***************************************************************************)
LEMMA RemoveEffect ==
    ASSUME TypeOK, NEW w \in Wallets, NEW admin \in Accounts,
           NEW target \in Accounts, RemoveAuthority(w, admin, target)
    PROVE  /\ admin # target
           /\ IsAuthority(admin)
           /\ IsAuthority(target)
           /\ auth[target].role # Owner
           /\ auth'[target] = Zeroed
           /\ auth'[admin] = Used(admin)
           /\ \A x \in Accounts \ {admin, target} : auth'[x] = auth[x]
  <1>1. IsAuthority(admin) /\ IsAuthority(target)
    BY DEF RemoveAuthority, Actor
  <1>2. admin # target /\ auth[target].role # Owner
    BY DEF RemoveAuthority, MayRemove
  <1>3. auth' = [auth EXCEPT ![admin].counter = CounterAfter(admin),
                             ![target] = Zeroed]
    BY DEF RemoveAuthority
  <1> QED
    BY <1>1, <1>2, <1>3 DEF TypeOK, Used

(***************************************************************************)
(* TransferOwnership zeroes the acting Owner and writes one Owner where    *)
(* there was no data.                                                      *)
(***************************************************************************)
LEMMA TransferEffect ==
    ASSUME TypeOK, NEW w \in Wallets, NEW current \in Accounts, NEW id \in Ids,
           NEW type, NEW key, TransferOwnership(w, current, id, type, key)
    PROVE  /\ <<w, id>> \in Accounts
           /\ IsVacant(<<w, id>>)
           /\ IsAuthority(current)
           /\ auth'[<<w, id>>] = NewAuthority(type, Owner, key)
           /\ auth'[current] = Zeroed
           /\ \A x \in Accounts \ {current, <<w, id>>} : auth'[x] = auth[x]
  <1>1. <<w, id>> \in Accounts
    BY DEF Accounts
  <1>2. IsVacant(<<w, id>>) /\ IsAuthority(current)
    BY DEF TransferOwnership, Actor
  <1>3. current # <<w, id>>
    BY <1>2 DEF IsVacant, IsAuthority
  <1>4. auth' = [auth EXCEPT ![<<w, id>>] = NewAuthority(type, Owner, key),
                             ![current] = Zeroed]
    BY DEF TransferOwnership
  <1> QED
    BY <1>1, <1>2, <1>3, <1>4 DEF TypeOK

(***************************************************************************)
(* Execute, CreateSession, RevokeSession and Authorize write at most the   *)
(* counter of the actor.                                                   *)
(***************************************************************************)
LEMMA UseEffect ==
    ASSUME TypeOK, NEW w \in Wallets, NEW acct \in Accounts, NEW op,
           NEW payload, UseAuthority(w, acct, op, payload)
    PROVE  /\ IsAuthority(acct)
           /\ auth'[acct] = Used(acct)
           /\ \A x \in Accounts \ {acct} : auth'[x] = auth[x]
  BY DEF UseAuthority, Actor, TypeOK, Used

(***************************************************************************)
(* Writing a counter leaves every other field of the account alone.        *)
(***************************************************************************)
LEMMA UsedKeeps ==
    ASSUME TypeOK, NEW acct \in Accounts
    PROVE  /\ Used(acct).disc = auth[acct].disc
           /\ Used(acct).role = auth[acct].role
           /\ Used(acct).type = auth[acct].type
           /\ Used(acct).key = auth[acct].key
           /\ Used(acct).counter = CounterAfter(acct)
  BY DEF Used, TypeOK, AuthorityData

(***************************************************************************)
(* Everything a step may do to one account: nothing, one use, creation on  *)
(* a vacant account, closing a live one, removal of a closed one.          *)
(***************************************************************************)
LEMMA StepEffect ==
    ASSUME TypeOK, [AnyNext]_vars, NEW x \in Accounts
    PROVE  \/ auth'[x] = auth[x] /\ (x \in closing' => x \in closing)
           \/ /\ IsAuthority(x) /\ auth'[x] = Used(x)
              /\ x \in closing' => x \in closing
           \/ /\ IsVacant(x) /\ auth'[x].disc = "authority"
              /\ x \in closing' => x \in closing
           \/ IsAuthority(x) /\ auth'[x] = Zeroed
           \/ x \in closing /\ auth'[x] = Absent /\ closing' = {}
  <1>1. ASSUME NEW w \in Wallets, NEW id \in Ids, NEW type \in AuthTypes,
               NEW key \in Keys, CreateWallet(w, id, type, key)
        PROVE  /\ closing' = closing
               /\ \/ auth'[x] = auth[x]
                  \/ IsVacant(x) /\ auth'[x].disc = "authority"
    <2>1. closing' = closing
      BY <1>1 DEF CreateWallet
    <2>2. CASE x = <<w, id>>
      <3>1. IsVacant(x) /\ auth'[x] = NewAuthority(type, Owner, key)
        BY <1>1, <2>2, CreateEffect
      <3> QED
        BY <2>1, <3>1, NewAuthorityFields
    <2>3. CASE x # <<w, id>>
      BY <1>1, <2>1, <2>3, CreateEffect
    <2> QED
      BY <2>2, <2>3
  <1>2. ASSUME NEW w \in Wallets, NEW acct \in Accounts, NEW id \in Ids,
               NEW type \in AuthTypes, NEW newRole \in SubmittedRoles,
               NEW key \in Keys,
               AddAuthority(w, acct, id, type, newRole, key)
        PROVE  /\ closing' = closing
               /\ \/ auth'[x] = auth[x]
                  \/ IsAuthority(x) /\ auth'[x] = Used(x)
                  \/ IsVacant(x) /\ auth'[x].disc = "authority"
    <2>1. closing' = closing
      BY <1>2 DEF AddAuthority
    <2>2. CASE x = <<w, id>>
      <3>1. IsVacant(x) /\ auth'[x] = NewAuthority(type, newRole, key)
        BY <1>2, <2>2, AddEffect
      <3> QED
        BY <2>1, <3>1, NewAuthorityFields
    <2>3. CASE x = acct
      <3>1. IsAuthority(acct) /\ auth'[acct] = Used(acct)
        BY <1>2, AddEffect
      <3> QED
        BY <2>1, <2>3, <3>1
    <2>4. CASE x # acct /\ x # <<w, id>>
      <3>0. \A y \in Accounts \ {acct, <<w, id>>} : auth'[y] = auth[y]
        BY <1>2, AddEffect
      <3>1. auth'[x] = auth[x]
        BY <2>4, <3>0
      <3> QED
        BY <2>1, <3>1
    <2> QED
      BY <2>2, <2>3, <2>4
  <1>3. ASSUME NEW w \in Wallets, NEW acct \in Accounts, NEW id \in Ids,
               NEW type \in AuthTypes, NEW key \in Keys,
               TransferOwnership(w, acct, id, type, key)
        PROVE  \/ auth'[x] = auth[x] /\ (x \in closing' => x \in closing)
               \/ /\ IsVacant(x) /\ auth'[x].disc = "authority"
                  /\ x \in closing' => x \in closing
               \/ IsAuthority(x) /\ auth'[x] = Zeroed
    <2>1. closing' = closing \cup {acct}
      BY <1>3 DEF TransferOwnership
    <2>2. CASE x = acct
      BY <1>3, <2>2, TransferEffect
    <2>3. CASE x = <<w, id>>
      <3>1. /\ IsVacant(x) /\ auth'[x] = NewAuthority(type, Owner, key)
            /\ IsAuthority(acct)
        BY <1>3, <2>3, TransferEffect
      <3>2. x # acct
        BY <3>1 DEF IsVacant, IsAuthority
      <3> QED
        BY <2>1, <3>1, <3>2, NewAuthorityFields
    <2>4. CASE x # acct /\ x # <<w, id>>
      <3>0. \A y \in Accounts \ {acct, <<w, id>>} : auth'[y] = auth[y]
        BY <1>3, TransferEffect
      <3>1. auth'[x] = auth[x]
        BY <2>4, <3>0
      <3> QED
        BY <2>1, <2>4, <3>1
    <2> QED
      BY <2>2, <2>3, <2>4
  <1>4. ASSUME NEW w \in Wallets, NEW acct \in Accounts,
               NEW target \in Accounts, RemoveAuthority(w, acct, target)
        PROVE  \/ auth'[x] = auth[x] /\ (x \in closing' => x \in closing)
               \/ /\ IsAuthority(x) /\ auth'[x] = Used(x)
                  /\ x \in closing' => x \in closing
               \/ IsAuthority(x) /\ auth'[x] = Zeroed
    <2>1. closing' = closing \cup {target}
      BY <1>4 DEF RemoveAuthority
    <2>2. CASE x = target
      BY <1>4, <2>2, RemoveEffect
    <2>3. CASE x = acct
      <3>1. IsAuthority(acct) /\ auth'[acct] = Used(acct) /\ acct # target
        BY <1>4, RemoveEffect
      <3> QED
        BY <2>1, <2>3, <3>1
    <2>4. CASE x # acct /\ x # target
      <3>0. \A y \in Accounts \ {acct, target} : auth'[y] = auth[y]
        BY <1>4, RemoveEffect
      <3>1. auth'[x] = auth[x]
        BY <2>4, <3>0
      <3> QED
        BY <2>1, <2>4, <3>1
    <2> QED
      BY <2>2, <2>3, <2>4
  <1>5. ASSUME NEW w \in Wallets, NEW acct \in Accounts,
               NEW op \in Uses, NEW payload \in Payloads,
               UseAuthority(w, acct, op, payload)
        PROVE  /\ closing' = closing
               /\ \/ auth'[x] = auth[x]
                  \/ IsAuthority(x) /\ auth'[x] = Used(x)
    <2>1. closing' = closing
      BY <1>5 DEF UseAuthority
    <2> QED
      BY <1>5, <2>1, UseEffect
  <1>6. CASE EndTx
    BY <1>6 DEF EndTx, TypeOK
  <1>7. CASE Tick \/ UNCHANGED vars
    BY <1>7 DEF Tick, vars
  <1> QED
    BY <1>1, <1>2, <1>3, <1>4, <1>5, <1>6, <1>7, ConstantsAssumption
    DEF AnyNext, AnyUse, Next, Instruction, HorizonReached

-----------------------------------------------------------------------------
(* Closed accounts. *)

(***************************************************************************)
(* A closed account holds nothing but zero bytes, within its transaction   *)
(* and, when it is funded again, after it.                                 *)
(***************************************************************************)
ClosedAreBlank ==
    /\ \A acct \in closing : auth[acct].disc = "zeroed"
    /\ \A acct \in Accounts : auth[acct].disc = "zeroed" => auth[acct] = Zeroed

(***************************************************************************)
(* Every step keeps closed accounts blank.                                 *)
(***************************************************************************)
LEMMA ClosedStep == TypeOK /\ ClosedAreBlank /\ [AnyNext]_vars => ClosedAreBlank'
  <1> SUFFICES ASSUME TypeOK, ClosedAreBlank, [AnyNext]_vars
               PROVE  ClosedAreBlank'
    OBVIOUS
  <1>1. closing' \subseteq Accounts
    BY TypeStep DEF TypeOK
  <1>2. ASSUME NEW x \in Accounts
        PROVE  /\ x \in closing' => auth'[x].disc = "zeroed"
               /\ auth'[x].disc = "zeroed" => auth'[x] = Zeroed
    <2>1. CASE auth'[x] = auth[x] /\ (x \in closing' => x \in closing)
      BY <2>1 DEF ClosedAreBlank
    <2>2. CASE /\ IsAuthority(x) /\ auth'[x] = Used(x)
               /\ x \in closing' => x \in closing
      BY <2>2, UsedKeeps DEF ClosedAreBlank, IsAuthority
    <2>3. CASE /\ IsVacant(x) /\ auth'[x].disc = "authority"
               /\ x \in closing' => x \in closing
      BY <2>3 DEF ClosedAreBlank, IsVacant
    <2>4. CASE IsAuthority(x) /\ auth'[x] = Zeroed
      BY <2>4 DEF Zeroed, ZeroBytes
    <2>5. CASE x \in closing /\ auth'[x] = Absent /\ closing' = {}
      BY <2>5 DEF Absent, ZeroBytes
    <2> QED
      BY <2>1, <2>2, <2>3, <2>4, <2>5, StepEffect
  <1> QED
    BY <1>1, <1>2 DEF ClosedAreBlank

(***************************************************************************)
(* Accounts closed by the running transaction hold zeroed data throughout. *)
(***************************************************************************)
LEMMA ClosedInvariant == AnySpec => []ClosedAreBlank
  <1>1. Init => ClosedAreBlank
    BY DEF Init, ClosedAreBlank, Absent, ZeroBytes
  <1> QED
    BY <1>1, ClosedStep, TypeAny, PTL DEF AnySpec

(***************************************************************************)
(* The life of an account, with every use submitted.                       *)
(***************************************************************************)
LEMMA LifecycleAny == AnySpec => Lifecycle
  <1>1. TypeOK /\ ClosedAreBlank /\ [AnyNext]_vars => LifecycleStep
    <2> SUFFICES ASSUME TypeOK, ClosedAreBlank, [AnyNext]_vars,
                        NEW x \in Accounts
                 PROVE  /\ auth[x].disc = "zeroed"
                             => auth'[x] \in {Zeroed, Absent}
                        /\ IsAuthority(x) =>
                             \/ auth'[x] = Zeroed
                             \/ auth'[x] = [auth[x] EXCEPT
                                              !.counter = auth'[x].counter]
      BY DEF LifecycleStep
    <2>0. auth[x] = [auth[x] EXCEPT !.counter = auth[x].counter]
      BY DEF TypeOK, AuthorityData
    <2>1. CASE auth'[x] = auth[x]
      BY <2>0, <2>1 DEF ClosedAreBlank
    <2>2. CASE IsAuthority(x) /\ auth'[x] = Used(x)
      BY <2>2, UsedKeeps DEF IsAuthority, Used
    <2>3. CASE IsVacant(x)
      BY <2>3 DEF IsVacant, IsAuthority
    <2>4. CASE IsAuthority(x) /\ auth'[x] = Zeroed
      BY <2>4 DEF IsAuthority
    <2>5. CASE x \in closing /\ auth'[x] = Absent
      BY <2>5 DEF ClosedAreBlank, IsAuthority
    <2> QED
      BY <2>1, <2>2, <2>3, <2>4, <2>5, StepEffect
  <1> QED
    BY <1>1, TypeAny, ClosedInvariant, PTL DEF AnySpec, Lifecycle

(***************************************************************************)
(* The life of an account: absent, live, zeroed, absent.  No reachable     *)
(* step revives a closed account on its zeroed data, or changes the role,  *)
(* type or key of a live one.                                              *)
(***************************************************************************)
THEOREM LifecycleHolds == Spec => Lifecycle
  BY LifecycleAny, SpecIsAny, PTL

-----------------------------------------------------------------------------
(* Owners and roles. *)

(***************************************************************************)
(* An Owner leaves only by TransferOwnership, which it authenticates, and  *)
(* which puts an Owner with a usable id on a vacant account of the wallet. *)
(***************************************************************************)
LEMMA OwnerLeaves ==
    ASSUME TypeOK, ClosedAreBlank, [AnyNext]_vars, NEW x \in Accounts,
           IsOwner(x), ~ IsOwner(x)'
    PROVE  /\ by' = {x}
           /\ \E id \in Ids \ {ZeroId} :
                ~ IsOwner(<<x[1], id>>) /\ IsOwner(<<x[1], id>>)'
  <1>1. /\ auth[x].disc = "authority" /\ auth[x].role = Owner
        /\ ~ (auth'[x].disc = "authority" /\ auth'[x].role = Owner)
    BY DEF IsOwner, IsAuthority
  <1>2. auth'[x] # auth[x]
    BY <1>1
  <1>3. auth'[x] # Used(x)
    BY <1>1, UsedKeeps
  <1>4. ~ IsVacant(x)
    BY <1>1 DEF IsVacant
  <1>5. ~ (x \in closing)
    BY <1>1 DEF ClosedAreBlank
  <1>6. ASSUME NEW w \in Wallets, NEW id \in Ids, NEW type \in AuthTypes,
               NEW key \in Keys, CreateWallet(w, id, type, key)
        PROVE  FALSE
    BY <1>2, <1>4, <1>6, CreateEffect
  <1>7. ASSUME NEW w \in Wallets, NEW acct \in Accounts, NEW id \in Ids,
               NEW type \in AuthTypes, NEW newRole \in SubmittedRoles,
               NEW key \in Keys,
               AddAuthority(w, acct, id, type, newRole, key)
        PROVE  FALSE
    BY <1>2, <1>3, <1>4, <1>7, AddEffect
  <1>8. ASSUME NEW w \in Wallets, NEW acct \in Accounts,
               NEW target \in Accounts, RemoveAuthority(w, acct, target)
        PROVE  FALSE
    BY <1>1, <1>2, <1>3, <1>8, RemoveEffect
  <1>9. ASSUME NEW w \in Wallets, NEW acct \in Accounts,
               NEW op \in Uses, NEW payload \in Payloads,
               UseAuthority(w, acct, op, payload)
        PROVE  FALSE
    BY <1>2, <1>3, <1>9, UseEffect
  <1>10. CASE EndTx
    BY <1>2, <1>5, <1>10 DEF EndTx
  <1>11. CASE Tick \/ UNCHANGED vars
    BY <1>2, <1>11 DEF Tick, vars
  <1>12. ASSUME NEW w \in Wallets, NEW acct \in Accounts, NEW id \in Ids,
                NEW type \in AuthTypes, NEW key \in Keys,
                TransferOwnership(w, acct, id, type, key)
         PROVE  /\ by' = {x}
                /\ \E i \in Ids \ {ZeroId} :
                     ~ IsOwner(<<x[1], i>>) /\ IsOwner(<<x[1], i>>)'
    <2>1. x = acct
      BY <1>2, <1>4, <1>12, TransferEffect
    <2>2. by' = {x} /\ x[1] = w /\ id \in Ids \ {ZeroId}
      BY <1>12, <2>1
      DEF TransferOwnership, Authenticate, Actor, BelongsTo, MayOwn
    <2>3. /\ IsVacant(<<w, id>>)
          /\ auth'[<<w, id>>] = NewAuthority(type, Owner, key)
      BY <1>12, TransferEffect
    <2>4. ~ IsOwner(<<w, id>>)
      BY <2>3 DEF IsVacant, IsOwner, IsAuthority
    <2>5. IsOwner(<<w, id>>)'
      BY <2>3, NewAuthorityFields DEF IsOwner, IsAuthority
    <2> QED
      BY <2>2, <2>4, <2>5
  <1> QED
    BY <1>6, <1>7, <1>8, <1>9, <1>10, <1>11, <1>12, ConstantsAssumption
    DEF AnyNext, AnyUse, Next, Instruction, HorizonReached

(***************************************************************************)
(* A wallet appears with its first Owner.                                  *)
(***************************************************************************)
LEMMA WalletAppears ==
    ASSUME TypeOK, [AnyNext]_vars, NEW w \in wallets', w \notin wallets
    PROVE  \E id \in Ids : IsOwner(<<w, id>>)'
  <1>1. wallets' # wallets
    OBVIOUS
  <1>2. PICK v \in Wallets, id \in Ids, type \in AuthTypes, key \in Keys :
          CreateWallet(v, id, type, key)
    <2>1. ASSUME NEW v \in Wallets, NEW acct \in Accounts, NEW id \in Ids,
                 NEW type, NEW newRole, NEW key,
                 AddAuthority(v, acct, id, type, newRole, key)
          PROVE  FALSE
      BY <1>1, <2>1 DEF AddAuthority
    <2>2. ASSUME NEW v \in Wallets, NEW acct \in Accounts, NEW id \in Ids,
                 NEW type, NEW key, TransferOwnership(v, acct, id, type, key)
          PROVE  FALSE
      BY <1>1, <2>2 DEF TransferOwnership
    <2>3. ASSUME NEW v \in Wallets, NEW acct \in Accounts,
                 NEW target \in Accounts, RemoveAuthority(v, acct, target)
          PROVE  FALSE
      BY <1>1, <2>3 DEF RemoveAuthority
    <2>4. ASSUME NEW v \in Wallets, NEW acct \in Accounts, NEW op,
                 NEW payload, UseAuthority(v, acct, op, payload)
          PROVE  FALSE
      BY <1>1, <2>4 DEF UseAuthority
    <2>5. ~ (EndTx \/ Tick \/ UNCHANGED vars)
      BY <1>1 DEF EndTx, Tick, vars
    <2> QED
      BY <2>1, <2>2, <2>3, <2>4, <2>5
      DEF AnyNext, AnyUse, Next, Instruction, HorizonReached
  <1>3. v = w
    BY <1>2 DEF CreateWallet
  <1>4. auth'[<<w, id>>] = NewAuthority(type, Owner, key)
    BY <1>2, <1>3, CreateEffect
  <1>5. IsOwner(<<w, id>>)'
    BY <1>4, NewAuthorityFields DEF IsOwner, IsAuthority
  <1> QED
    BY <1>5

(***************************************************************************)
(* An Owner remains, with every use submitted.  The induction needs        *)
(* ClosedAreBlank: the runtime deletes only accounts that are no Owners    *)
(* any more.                                                               *)
(***************************************************************************)
LEMMA OwnerAny == AnySpec => []HasOwner
  <1>1. Init => HasOwner
    BY DEF Init, HasOwner
  <1>2. TypeOK /\ ClosedAreBlank /\ HasOwner /\ [AnyNext]_vars => HasOwner'
    <2> SUFFICES ASSUME TypeOK, ClosedAreBlank, HasOwner, [AnyNext]_vars,
                        NEW w \in wallets'
                 PROVE  \E id \in Ids : IsOwner(<<w, id>>)'
      BY DEF HasOwner
    <2>1. CASE w \notin wallets
      BY <2>1, WalletAppears
    <2>2. CASE w \in wallets
      <3>1. PICK id \in Ids : IsOwner(<<w, id>>)
        BY <2>2 DEF HasOwner
      <3>2. <<w, id>> \in Accounts /\ <<w, id>>[1] = w
        BY <2>2 DEF TypeOK, Accounts
      <3>3. CASE ~ IsOwner(<<w, id>>)'
        <4>1. \E i \in Ids \ {ZeroId} : IsOwner(<<<<w, id>>[1], i>>)'
          BY <3>1, <3>2, <3>3, OwnerLeaves
        <4> QED
          BY <3>2, <4>1
      <3> QED
        BY <3>3
    <2> QED
      BY <2>1, <2>2
  <1> QED
    BY <1>1, <1>2, TypeAny, ClosedInvariant, PTL DEF AnySpec

(***************************************************************************)
(* No sequence of instructions, of any length and over any number of       *)
(* wallets and keys, leaves a wallet without an Owner.                     *)
(***************************************************************************)
THEOREM OwnerRemains == Spec => []HasOwner
  BY OwnerAny, SpecIsAny, PTL

(***************************************************************************)
(* Control remains, with every use submitted.                              *)
(***************************************************************************)
LEMMA ControlAny == AnySpec => ControlIsKept
  <1>1. TypeOK /\ ClosedAreBlank /\ [AnyNext]_vars => ControlStep
    <2> SUFFICES ASSUME TypeOK, ClosedAreBlank, [AnyNext]_vars,
                        NEW w \in Wallets, NEW id \in Ids \ {ZeroId},
                        IsOwner(<<w, id>>)
                 PROVE  \E i \in Ids \ {ZeroId} : IsOwner(<<w, i>>)'
      BY DEF ControlStep, Controllable
    <2>1. <<w, id>> \in Accounts /\ <<w, id>>[1] = w
      BY DEF Accounts
    <2>2. CASE ~ IsOwner(<<w, id>>)'
      <3>1. \E i \in Ids \ {ZeroId} : IsOwner(<<<<w, id>>[1], i>>)'
        BY <2>1, <2>2, OwnerLeaves
      <3> QED
        BY <2>1, <3>1
    <2> QED
      BY <2>2
  <1> QED
    BY <1>1, TypeAny, ClosedInvariant, PTL DEF AnySpec, ControlIsKept

(***************************************************************************)
(* A wallet with an Owner whose id is not the zero id keeps one.           *)
(***************************************************************************)
THEOREM ControlRemains == Spec => ControlIsKept
  BY ControlAny, SpecIsAny, PTL

(***************************************************************************)
(* In an existing wallet an authority appears only by AddAuthority or      *)
(* TransferOwnership, by an actor that may grant its role.                 *)
(***************************************************************************)
LEMMA AuthorityAppears ==
    ASSUME TypeOK, [AnyNext]_vars, NEW x \in Accounts, x[1] \in wallets,
           ~ IsAuthority(x), IsAuthority(x)'
    PROVE  Grantor(x, auth'[x].role)
  <1>1. auth[x].disc # "authority" /\ auth'[x].disc = "authority"
    BY DEF IsAuthority
  <1>2. auth'[x] # auth[x] /\ auth'[x] # Used(x) /\ auth'[x] \notin {Zeroed, Absent}
    BY <1>1, UsedKeeps DEF Zeroed, Absent, ZeroBytes
  <1>3. ASSUME NEW w \in Wallets, NEW id \in Ids, NEW type \in AuthTypes,
               NEW key \in Keys, CreateWallet(w, id, type, key)
        PROVE  FALSE
    <2>1. x = <<w, id>>
      BY <1>2, <1>3, CreateEffect
    <2> QED
      BY <1>3, <2>1 DEF CreateWallet
  <1>4. ASSUME NEW w \in Wallets, NEW acct \in Accounts, NEW id \in Ids,
               NEW type \in AuthTypes, NEW newRole \in SubmittedRoles,
               NEW key \in Keys,
               AddAuthority(w, acct, id, type, newRole, key)
        PROVE  Grantor(x, auth'[x].role)
    <2>1. x = <<w, id>> /\ auth'[x] = NewAuthority(type, newRole, key)
      <3>1. /\ auth'[<<w, id>>] = NewAuthority(type, newRole, key)
            /\ auth'[acct] = Used(acct)
            /\ \A y \in Accounts \ {acct, <<w, id>>} : auth'[y] = auth[y]
        BY <1>4, AddEffect
      <3> QED
        BY <1>2, <3>1
    <2>2. x[1] = w /\ auth'[x].role = newRole
      BY <2>1, NewAuthorityFields
    <2>3. by' = {acct} /\ IsAuthority(acct) /\ acct[1] = w
      BY <1>4 DEF AddAuthority, Authenticate, Actor, BelongsTo
    <2>4. auth[acct].role = Owner \/ auth[acct].role < newRole
      BY <1>4 DEF AddAuthority, MayAdd
    <2> QED
      BY <2>2, <2>3, <2>4 DEF Grantor
  <1>5. ASSUME NEW w \in Wallets, NEW acct \in Accounts, NEW id \in Ids,
               NEW type \in AuthTypes, NEW key \in Keys,
               TransferOwnership(w, acct, id, type, key)
        PROVE  Grantor(x, auth'[x].role)
    <2>1. x = <<w, id>>
      <3>1. /\ auth'[acct] = Zeroed
            /\ \A y \in Accounts \ {acct, <<w, id>>} : auth'[y] = auth[y]
        BY <1>5, TransferEffect
      <3> QED
        BY <1>2, <3>1
    <2>2. x[1] = w
      BY <2>1
    <2>3. by' = {acct} /\ IsAuthority(acct) /\ acct[1] = w
      BY <1>5 DEF TransferOwnership, Authenticate, Actor, BelongsTo
    <2>4. auth[acct].role = Owner
      BY <1>5 DEF TransferOwnership
    <2> QED
      BY <2>2, <2>3, <2>4 DEF Grantor
  <1>6. ASSUME NEW w \in Wallets, NEW acct \in Accounts,
               NEW target \in Accounts, RemoveAuthority(w, acct, target)
        PROVE  FALSE
    BY <1>2, <1>6, RemoveEffect
  <1>7. ASSUME NEW w \in Wallets, NEW acct \in Accounts,
               NEW op \in Uses, NEW payload \in Payloads,
               UseAuthority(w, acct, op, payload)
        PROVE  FALSE
    BY <1>2, <1>7, UseEffect
  <1>8. ~ (EndTx \/ Tick \/ UNCHANGED vars)
    BY <1>2 DEF EndTx, Tick, vars
  <1> QED
    BY <1>3, <1>4, <1>5, <1>6, <1>7, <1>8, ConstantsAssumption
    DEF AnyNext, AnyUse, Next, Instruction, HorizonReached

(***************************************************************************)
(* An authority that is no Owner leaves only by RemoveAuthority.           *)
(***************************************************************************)
LEMMA AuthorityLeaves ==
    ASSUME TypeOK, ClosedAreBlank, [AnyNext]_vars, NEW x \in Accounts,
           IsAuthority(x), ~ IsAuthority(x)', auth[x].role # Owner
    PROVE  Grantor(x, auth[x].role)
  <1>1. auth[x].disc = "authority" /\ auth'[x].disc # "authority"
    BY DEF IsAuthority
  <1>2. auth'[x] # auth[x] /\ auth'[x] # Used(x)
    BY <1>1, UsedKeeps
  <1>3. ~ IsVacant(x) /\ x \notin closing
    BY <1>1 DEF IsVacant, ClosedAreBlank
  <1>4. ASSUME NEW w \in Wallets, NEW id \in Ids, NEW type \in AuthTypes,
               NEW key \in Keys, CreateWallet(w, id, type, key)
        PROVE  FALSE
    BY <1>2, <1>3, <1>4, CreateEffect
  <1>5. ASSUME NEW w \in Wallets, NEW acct \in Accounts, NEW id \in Ids,
               NEW type \in AuthTypes, NEW newRole \in SubmittedRoles,
               NEW key \in Keys,
               AddAuthority(w, acct, id, type, newRole, key)
        PROVE  FALSE
    BY <1>2, <1>3, <1>5, AddEffect
  <1>6. ASSUME NEW w \in Wallets, NEW acct \in Accounts, NEW id \in Ids,
               NEW type \in AuthTypes, NEW key \in Keys,
               TransferOwnership(w, acct, id, type, key)
        PROVE  FALSE
    <2>1. x = acct
      BY <1>2, <1>3, <1>6, TransferEffect
    <2> QED
      BY <1>6, <2>1 DEF TransferOwnership
  <1>7. ASSUME NEW w \in Wallets, NEW acct \in Accounts,
               NEW target \in Accounts, RemoveAuthority(w, acct, target)
        PROVE  Grantor(x, auth[x].role)
    <2>1. x = target
      BY <1>2, <1>7, RemoveEffect
    <2>2. x[1] = w /\ by' = {acct} /\ IsAuthority(acct) /\ acct[1] = w
      BY <1>7, <2>1 DEF RemoveAuthority, Authenticate, Actor, BelongsTo
    <2>3. auth[acct].role = Owner \/ auth[acct].role < auth[x].role
      <3>1. \/ auth[acct].role = Owner
            \/ auth[acct].role = Admin /\ auth[x].role = Spender
        BY <1>7, <2>1 DEF RemoveAuthority, MayRemove
      <3> QED
        BY <3>1
    <2> QED
      BY <2>2, <2>3 DEF Grantor
  <1>8. ASSUME NEW w \in Wallets, NEW acct \in Accounts,
               NEW op \in Uses, NEW payload \in Payloads,
               UseAuthority(w, acct, op, payload)
        PROVE  FALSE
    BY <1>2, <1>8, UseEffect
  <1>9. CASE EndTx
    BY <1>2, <1>3, <1>9 DEF EndTx
  <1>10. CASE Tick \/ UNCHANGED vars
    BY <1>2, <1>10 DEF Tick, vars
  <1> QED
    BY <1>4, <1>5, <1>6, <1>7, <1>8, <1>9, <1>10, ConstantsAssumption
    DEF AnyNext, AnyUse, Next, Instruction, HorizonReached

(***************************************************************************)
(* The hierarchy of roles, with every use submitted.                       *)
(***************************************************************************)
LEMMA HierarchyAny == AnySpec => RoleHierarchy
  <1>1. TypeOK /\ ClosedAreBlank /\ [AnyNext]_vars => HierarchyStep
    <2> SUFFICES ASSUME TypeOK, ClosedAreBlank, [AnyNext]_vars,
                        NEW x \in Accounts, x[1] \in wallets
                 PROVE  /\ ~ IsAuthority(x) /\ IsAuthority(x)'
                             => Grantor(x, auth'[x].role)
                        /\ IsAuthority(x) /\ ~ IsAuthority(x)'
                             => IF auth[x].role # Owner
                                THEN Grantor(x, auth[x].role)
                                ELSE by' = {x} /\ OwnerAppears(x[1])
      BY DEF HierarchyStep
    <2>1. CASE ~ IsAuthority(x) /\ IsAuthority(x)'
      BY <2>1, AuthorityAppears
    <2>2. CASE /\ IsAuthority(x) /\ ~ IsAuthority(x)'
               /\ auth[x].role # Owner
      BY <2>2, AuthorityLeaves
    <2>3. CASE /\ IsAuthority(x) /\ ~ IsAuthority(x)'
               /\ auth[x].role = Owner
      <3>1. IsOwner(x) /\ ~ IsOwner(x)'
        BY <2>3 DEF IsOwner
      <3>2. by' = {x} /\ OwnerAppears(x[1])
        BY <3>1, OwnerLeaves DEF OwnerAppears
      <3> QED
        BY <2>3, <3>2
    <2> QED
      BY <2>1, <2>2, <2>3
  <1> QED
    BY <1>1, TypeAny, ClosedInvariant, PTL DEF AnySpec, RoleHierarchy

(***************************************************************************)
(* Authorities come and go only by the act of an Owner or of a higher role *)
(* of the same wallet, and Owners only by their own act and in exchange.   *)
(***************************************************************************)
THEOREM HierarchyHolds == Spec => RoleHierarchy
  BY HierarchyAny, SpecIsAny, PTL

-----------------------------------------------------------------------------
(* Replay: arithmetic. *)

(***************************************************************************)
(* wrapping_add(1) on a counter.                                           *)
(***************************************************************************)
LEMMA Wrap ==
    ASSUME NEW m \in Nat \ {0}, NEW c \in 0 .. m - 1
    PROVE  (c + 1) % m = IF c + 1 = m THEN 0 ELSE c + 1
  <1>1. CASE c + 1 = m
    <2>1. m % m = 0
      OBVIOUS
    <2> QED
      BY <1>1, <2>1
  <1>2. CASE c + 1 < m
    BY <1>2
  <1> QED
    BY <1>1, <1>2

(***************************************************************************)
(* Two ordinals with the same counter are a whole turn apart.              *)
(***************************************************************************)
LEMMA WholeTurn ==
    ASSUME NEW m \in Nat \ {0}, NEW c \in 0 .. m - 1, NEW p \in Nat,
           NEW q \in Nat, p * m + c < q * m + c
    PROVE  (q * m + c) - (p * m + c) >= m
  <1>1. p * m \in Nat /\ q * m \in Nat
    OBVIOUS
  <1>2. p < q
    <2>1. SUFFICES ASSUME q <= p PROVE q * m <= p * m
      BY <1>1
    <2> QED
      BY <2>1
  <1>3. (q - p) * m >= m
    BY <1>2
  <1>4. (q - p) * m = q * m - p * m
    OBVIOUS
  <1> QED
    BY <1>1, <1>3, <1>4

(***************************************************************************)
(* A slot adds one block's worth of instructions to a span of slots.       *)
(***************************************************************************)
LEMMA OneMoreSlot ==
    ASSUME NEW k \in Nat, NEW d \in Int
    PROVE  k * (d + 1) = k * d + k
  OBVIOUS

(***************************************************************************)
(* The capacity of d full slots and a bit is below that of a whole window. *)
(***************************************************************************)
LEMMA Capacity ==
    ASSUME NEW d \in Nat, d < MaxSlotAge, NEW k \in Nat, k < OpsPerSlot
    PROVE  OpsPerSlot * d + k < CounterMod
  <1>1. OpsPerSlot \in Nat /\ MaxSlotAge \in Nat /\ CounterMod \in Nat
    BY ConstantsAssumption
  <1>2. OpsPerSlot * (d + 1) = OpsPerSlot * d + OpsPerSlot
    BY <1>1
  <1>3. OpsPerSlot * (d + 1) <= OpsPerSlot * MaxSlotAge
    BY <1>1
  <1>4. OpsPerSlot * MaxSlotAge <= CounterMod
    BY OdometerAssumption
  <1>5. /\ OpsPerSlot * d \in Nat
        /\ OpsPerSlot * MaxSlotAge \in Nat
    BY <1>1
  <1> QED
    BY <1>1, <1>2, <1>3, <1>4, <1>5

-----------------------------------------------------------------------------
(* What a step does to the history of one account. *)

OneOp == slot' = slot /\ slotOps < OpsPerSlot /\ slotOps' = slotOps + 1

Clock ==
    \/ OneOp
    \/ slot' = slot /\ slotOps' = slotOps
    \/ slot' = slot + 1 /\ slotOps' = 0

(***************************************************************************)
(* The account accepts nothing and its counter stays.                      *)
(***************************************************************************)
Untouched(x) ==
    /\ accepted'[x] = accepted[x]
    /\ uses'[x] = uses[x]
    /\ inc'[x] = inc[x]
    /\ auth'[x].disc = "authority" =>
         IsAuthority(x) /\ auth'[x].counter = auth[x].counter

(***************************************************************************)
(* The account starts a new life with counter 0.                           *)
(***************************************************************************)
Created(x) ==
    /\ accepted'[x] = accepted[x]
    /\ uses'[x] = 0
    /\ inc'[x] = inc[x] + 1
    /\ auth'[x].counter = 0

Entry(x, ch) ==
    [inc |-> inc[x], n |-> uses[x] + 1, at |-> slot, ch |-> ch]

Accepts(x, ch) ==
    /\ ch.slot \in Nat
    /\ ch.counter = Odometer(x)
    /\ FreshSlot(ch.slot)
    /\ accepted'[x] = accepted[x] \cup {Entry(x, ch)}

(***************************************************************************)
(* The account accepts one assertion and its counter advances.             *)
(***************************************************************************)
Asserted(x) ==
    /\ IsAuthority(x)
    /\ \E ch : Accepts(x, ch)
    /\ uses'[x] = uses[x] + 1
    /\ inc'[x] = inc[x]
    /\ auth'[x].disc = "authority" => auth'[x].counter = Odometer(x)

HistoryStep(x) ==
    \/ Clock /\ Untouched(x)
    \/ Clock /\ Created(x)
    \/ OneOp /\ Asserted(x)

(***************************************************************************)
(* What authentication records: the accepted assertion, its counter and    *)
(* its slot.                                                               *)
(***************************************************************************)
LEMMA AuthenticateEffect ==
    ASSUME TypeOK, NEW acct \in Accounts, NEW op, NEW payload,
           Authenticate(acct, op, payload)
    PROVE  /\ slotOps < OpsPerSlot /\ slotOps' = slotOps + 1
           /\ \A x \in Accounts : x # acct => accepted'[x] = accepted[x]
           /\ \/ /\ accepted'[acct] = accepted[acct]
                 /\ CounterAfter(acct) = auth[acct].counter
                 /\ UsesAfter(acct) = uses[acct]
              \/ /\ \E ch : Accepts(acct, ch)
                 /\ CounterAfter(acct) = Odometer(acct)
                 /\ UsesAfter(acct) = uses[acct] + 1
  <1>1. slotOps < OpsPerSlot /\ slotOps' = slotOps + 1
    BY DEF Authenticate
  <1>2. CASE auth[acct].type = Ed25519 /\ UNCHANGED accepted
    <2>1. auth[acct].type # Secp256r1
      BY <1>2
    <2>2. CounterAfter(acct) = auth[acct].counter /\ UsesAfter(acct) = uses[acct]
      BY <2>1 DEF CounterAfter, UsesAfter
    <2> QED
      BY <1>1, <1>2, <2>2
  <1>3. CASE auth[acct].type = Secp256r1
    <2>0. auth[acct].type # Ed25519
      BY <1>3
    <2>1. PICK signer \in Signers, stackHeight \in 1 .. 2,
               signedSlot \in 0 .. MaxSlot, counter \in Counters :
            /\ Secp256r1Authentic(acct, signer, stackHeight,
                                  Challenge(op, payload, signedSlot, counter))
            /\ accepted' = [accepted EXCEPT ![acct] = @ \cup
                 {[inc |-> inc[acct], n |-> uses[acct] + 1, at |-> slot,
                   ch |-> Challenge(op, payload, signedSlot, counter)]}]
      BY <2>0, Zenon DEF Authenticate
    <2> DEFINE ch == Challenge(op, payload, signedSlot, counter)
    <2>2. ch.slot = signedSlot /\ ch.counter = counter
      BY DEF Challenge
    <2>3. ch.slot \in Nat
      BY <2>2, ConstantsAssumption
    <2>4. FreshSlot(ch.slot) /\ ch.counter = Odometer(acct)
      BY <2>1 DEF Secp256r1Authentic
    <2>5. accepted'[acct] = accepted[acct] \cup {Entry(acct, ch)}
      BY <2>1 DEF TypeOK, Entry
    <2>6. \A x \in Accounts : x # acct => accepted'[x] = accepted[x]
      BY <2>1 DEF TypeOK
    <2>7. Accepts(acct, ch)
      BY <2>3, <2>4, <2>5 DEF Accepts
    <2>8. /\ CounterAfter(acct) = Odometer(acct)
          /\ UsesAfter(acct) = uses[acct] + 1
      BY <1>3 DEF CounterAfter, UsesAfter
    <2> HIDE DEF ch
    <2> QED
      BY <1>1, <2>6, <2>7, <2>8
  <1> QED
    BY <1>2, <1>3 DEF Authenticate

(***************************************************************************)
(* An instruction authenticated by acct, as far as acct is concerned.      *)
(***************************************************************************)
LEMMA ActorHistory ==
    ASSUME TypeOK, NEW acct \in Accounts, NEW op, NEW payload,
           Authenticate(acct, op, payload), IsAuthority(acct), slot' = slot,
           uses'[acct] = UsesAfter(acct), inc'[acct] = inc[acct],
           auth'[acct] = Used(acct) \/ auth'[acct] = Zeroed
    PROVE  HistoryStep(acct)
  <1>1. OneOp
    BY AuthenticateEffect DEF OneOp
  <1>2. auth'[acct].disc = "authority"
          => auth'[acct].counter = CounterAfter(acct)
    BY UsedKeeps DEF Zeroed, ZeroBytes
  <1> QED
    BY <1>1, <1>2, AuthenticateEffect
    DEF HistoryStep, Clock, Untouched, Asserted

(***************************************************************************)
(* How the history of an account moves in each step: it grows by one fresh *)
(* assertion, starts anew, or stays.                                       *)
(***************************************************************************)
LEMMA HistoryEffect ==
    ASSUME TypeOK, [AnyNext]_vars, NEW x \in Accounts
    PROVE  HistoryStep(x)
  <1>1. ASSUME NEW w \in Wallets, NEW id \in Ids, NEW type \in AuthTypes,
               NEW key \in Keys, CreateWallet(w, id, type, key)
        PROVE  HistoryStep(x)
    <2>1. Clock
      BY <1>1 DEF CreateWallet, Clock, OneOp
    <2>2. CASE x = <<w, id>>
      <3>1. auth'[x].counter = 0
        BY <1>1, <2>2, CreateEffect, NewAuthorityFields
      <3>2. /\ accepted' = accepted
            /\ uses' = [uses EXCEPT ![x] = 0]
            /\ inc' = [inc EXCEPT ![x] = @ + 1]
        BY <1>1, <2>2 DEF CreateWallet
      <3> QED
        BY <2>1, <3>1, <3>2 DEF HistoryStep, Created, TypeOK
    <2>3. CASE x # <<w, id>>
      <3>1. auth'[x] = auth[x]
        BY <1>1, <2>3, CreateEffect
      <3>2. /\ accepted' = accepted
            /\ uses' = [uses EXCEPT ![<<w, id>>] = 0]
            /\ inc' = [inc EXCEPT ![<<w, id>>] = @ + 1]
        BY <1>1 DEF CreateWallet
      <3> QED
        BY <2>1, <2>3, <3>1, <3>2 DEF HistoryStep, Untouched, TypeOK, IsAuthority
    <2> QED
      BY <2>2, <2>3
  <1>2. ASSUME NEW w \in Wallets, NEW acct \in Accounts, NEW id \in Ids,
               NEW type \in AuthTypes, NEW newRole \in SubmittedRoles,
               NEW key \in Keys,
               AddAuthority(w, acct, id, type, newRole, key)
        PROVE  HistoryStep(x)
    <2>1. Authenticate(acct, "AddAuthority", <<id, key, type, newRole>>)
      BY <1>2 DEF AddAuthority
    <2>2. /\ slot' = slot
          /\ uses' = [uses EXCEPT ![acct] = UsesAfter(acct), ![<<w, id>>] = 0]
          /\ inc' = [inc EXCEPT ![<<w, id>>] = @ + 1]
      BY <1>2 DEF AddAuthority
    <2>3. Clock
      BY <2>1, <2>2, AuthenticateEffect DEF Clock, OneOp
    <2>4. /\ <<w, id>> \in Accounts /\ IsVacant(<<w, id>>) /\ IsAuthority(acct)
          /\ auth'[<<w, id>>] = NewAuthority(type, newRole, key)
          /\ auth'[acct] = Used(acct)
          /\ \A y \in Accounts \ {acct, <<w, id>>} : auth'[y] = auth[y]
      BY <1>2, AddEffect
    <2>5. acct # <<w, id>>
      BY <2>4 DEF IsVacant, IsAuthority
    <2>6. CASE x = acct
      <3>1. uses'[acct] = UsesAfter(acct) /\ inc'[acct] = inc[acct]
        BY <2>2, <2>4, <2>5 DEF TypeOK
      <3> QED
        BY <2>1, <2>2, <2>4, <2>6, <3>1, ActorHistory
    <2>7. CASE x = <<w, id>>
      <3>1. uses'[x] = 0 /\ inc'[x] = inc[x] + 1
        BY <2>2, <2>5, <2>7 DEF TypeOK
      <3>2. auth'[x].counter = 0
        BY <2>4, <2>7, NewAuthorityFields
      <3>3. accepted'[x] = accepted[x]
        BY <2>1, <2>5, <2>7, AuthenticateEffect
      <3> QED
        BY <2>3, <3>1, <3>2, <3>3 DEF HistoryStep, Created
    <2>8. CASE x # acct /\ x # <<w, id>>
      <3>1. uses'[x] = uses[x] /\ inc'[x] = inc[x] /\ auth'[x] = auth[x]
        BY <2>2, <2>4, <2>8 DEF TypeOK
      <3>2. accepted'[x] = accepted[x]
        BY <2>1, <2>8, AuthenticateEffect
      <3> QED
        BY <2>3, <3>1, <3>2 DEF HistoryStep, Untouched, IsAuthority
    <2> QED
      BY <2>6, <2>7, <2>8
  <1>3. ASSUME NEW w \in Wallets, NEW acct \in Accounts, NEW id \in Ids,
               NEW type \in AuthTypes, NEW key \in Keys,
               TransferOwnership(w, acct, id, type, key)
        PROVE  HistoryStep(x)
    <2>1. Authenticate(acct, "TransferOwnership", <<id, key, type>>)
      BY <1>3 DEF TransferOwnership
    <2>2. /\ slot' = slot
          /\ uses' = [uses EXCEPT ![acct] = UsesAfter(acct), ![<<w, id>>] = 0]
          /\ inc' = [inc EXCEPT ![<<w, id>>] = @ + 1]
      BY <1>3 DEF TransferOwnership
    <2>3. Clock
      BY <2>1, <2>2, AuthenticateEffect DEF Clock, OneOp
    <2>4. /\ <<w, id>> \in Accounts /\ IsVacant(<<w, id>>) /\ IsAuthority(acct)
          /\ auth'[<<w, id>>] = NewAuthority(type, Owner, key)
          /\ auth'[acct] = Zeroed
          /\ \A y \in Accounts \ {acct, <<w, id>>} : auth'[y] = auth[y]
      BY <1>3, TransferEffect
    <2>5. acct # <<w, id>>
      BY <2>4 DEF IsVacant, IsAuthority
    <2>6. CASE x = acct
      <3>1. uses'[acct] = UsesAfter(acct) /\ inc'[acct] = inc[acct]
        BY <2>2, <2>4, <2>5 DEF TypeOK
      <3> QED
        BY <2>1, <2>2, <2>4, <2>6, <3>1, ActorHistory
    <2>7. CASE x = <<w, id>>
      <3>1. uses'[x] = 0 /\ inc'[x] = inc[x] + 1
        BY <2>2, <2>5, <2>7 DEF TypeOK
      <3>2. auth'[x].counter = 0
        BY <2>4, <2>7, NewAuthorityFields
      <3>3. accepted'[x] = accepted[x]
        BY <2>1, <2>5, <2>7, AuthenticateEffect
      <3> QED
        BY <2>3, <3>1, <3>2, <3>3 DEF HistoryStep, Created
    <2>8. CASE x # acct /\ x # <<w, id>>
      <3>1. uses'[x] = uses[x] /\ inc'[x] = inc[x] /\ auth'[x] = auth[x]
        BY <2>2, <2>4, <2>8 DEF TypeOK
      <3>2. accepted'[x] = accepted[x]
        BY <2>1, <2>8, AuthenticateEffect
      <3> QED
        BY <2>3, <3>1, <3>2 DEF HistoryStep, Untouched, IsAuthority
    <2> QED
      BY <2>6, <2>7, <2>8
  <1>4. ASSUME NEW w \in Wallets, NEW acct \in Accounts,
               NEW target \in Accounts, RemoveAuthority(w, acct, target)
        PROVE  HistoryStep(x)
    <2>1. Authenticate(acct, "RemoveAuthority", target)
      BY <1>4 DEF RemoveAuthority
    <2>2. /\ slot' = slot /\ inc' = inc
          /\ uses' = [uses EXCEPT ![acct] = UsesAfter(acct)]
      BY <1>4 DEF RemoveAuthority
    <2>3. Clock
      BY <2>1, <2>2, AuthenticateEffect DEF Clock, OneOp
    <2>4. /\ IsAuthority(acct)
          /\ auth'[target] = Zeroed
          /\ auth'[acct] = Used(acct)
          /\ \A y \in Accounts \ {acct, target} : auth'[y] = auth[y]
      BY <1>4, RemoveEffect
    <2>5. CASE x = acct
      <3>1. uses'[acct] = UsesAfter(acct) /\ inc'[acct] = inc[acct]
        BY <2>2 DEF TypeOK
      <3> QED
        BY <2>1, <2>2, <2>4, <2>5, <3>1, ActorHistory
    <2>6. CASE x # acct
      <3>1. uses'[x] = uses[x] /\ inc'[x] = inc[x]
        BY <2>2, <2>6 DEF TypeOK
      <3>2. accepted'[x] = accepted[x]
        BY <2>1, <2>6, AuthenticateEffect
      <3>3. auth'[x] = auth[x] \/ auth'[x] = Zeroed
        BY <2>4, <2>6
      <3> QED
        BY <2>3, <3>1, <3>2, <3>3
        DEF HistoryStep, Untouched, IsAuthority, Zeroed, ZeroBytes
    <2> QED
      BY <2>5, <2>6
  <1>5. ASSUME NEW w \in Wallets, NEW acct \in Accounts,
               NEW op \in Uses, NEW payload \in Payloads,
               UseAuthority(w, acct, op, payload)
        PROVE  HistoryStep(x)
    <2>1. Authenticate(acct, op, payload)
      BY <1>5 DEF UseAuthority
    <2>2. /\ slot' = slot /\ inc' = inc
          /\ uses' = [uses EXCEPT ![acct] = UsesAfter(acct)]
      BY <1>5 DEF UseAuthority
    <2>3. Clock
      BY <2>1, <2>2, AuthenticateEffect DEF Clock, OneOp
    <2>4. /\ IsAuthority(acct)
          /\ auth'[acct] = Used(acct)
          /\ \A y \in Accounts \ {acct} : auth'[y] = auth[y]
      BY <1>5, UseEffect
    <2>5. CASE x = acct
      <3>1. uses'[acct] = UsesAfter(acct) /\ inc'[acct] = inc[acct]
        BY <2>2 DEF TypeOK
      <3> QED
        BY <2>1, <2>2, <2>4, <2>5, <3>1, ActorHistory
    <2>6. CASE x # acct
      <3>1. uses'[x] = uses[x] /\ inc'[x] = inc[x] /\ auth'[x] = auth[x]
        BY <2>2, <2>4, <2>6 DEF TypeOK
      <3>2. accepted'[x] = accepted[x]
        BY <2>1, <2>6, AuthenticateEffect
      <3> QED
        BY <2>3, <3>1, <3>2 DEF HistoryStep, Untouched, IsAuthority
    <2> QED
      BY <2>5, <2>6
  <1>6. CASE EndTx
    <2>1. auth'[x] = Absent \/ auth'[x] = auth[x]
      BY <1>6 DEF EndTx
    <2>2. UNCHANGED <<slot, slotOps, uses, inc, accepted>>
      BY <1>6 DEF EndTx
    <2> QED
      BY <2>1, <2>2
      DEF HistoryStep, Clock, Untouched, IsAuthority, Absent, ZeroBytes
  <1>7. CASE Tick
    BY <1>7 DEF Tick, HistoryStep, Clock, Untouched, IsAuthority
  <1>8. CASE UNCHANGED vars
    BY <1>8 DEF vars, HistoryStep, Clock, Untouched, IsAuthority
  <1> QED
    BY <1>1, <1>2, <1>3, <1>4, <1>5, <1>6, <1>7, <1>8, ConstantsAssumption
    DEF AnyNext, AnyUse, Next, Instruction, HorizonReached

-----------------------------------------------------------------------------
(* The inductive invariant. *)

(***************************************************************************)
(* After n uses the odometer shows c.                                      *)
(***************************************************************************)
Turned(n, c) == \E q \in Nat : n = q * CounterMod + c

(***************************************************************************)
(* An entry of the account's present life: it was signed no later than it  *)
(* was accepted, its counter is the odometer's at its ordinal, and the     *)
(* uses since then fit in the blocks since then.                           *)
(***************************************************************************)
EntryInv(x, e) ==
    /\ e.n <= uses[x]
    /\ e.ch.slot <= e.at
    /\ e.at <= slot
    /\ Turned(e.n, e.ch.counter)
    /\ uses[x] - e.n < OpsPerSlot * (slot - e.at) + slotOps

ReplayInv ==
    \A x \in Accounts :
       /\ IsAuthority(x) => Turned(uses[x], auth[x].counter)
       /\ \A e \in accepted[x] :
            e.inc <= inc[x] /\ (e.inc = inc[x] => EntryInv(x, e))

(***************************************************************************)
(* Recorded assertions carry natural numbers.                              *)
(***************************************************************************)
LEMMA EntryTyping ==
    ASSUME TypeOK, NEW x \in Accounts
    PROVE  /\ uses[x] \in Nat /\ inc[x] \in Nat /\ slot \in Nat
           /\ slotOps \in 0 .. OpsPerSlot
           /\ auth[x].counter \in Counters
           /\ \A e \in accepted[x] :
                /\ e \in Assertions
                /\ e.inc \in Nat /\ e.n \in Nat /\ e.at \in Nat
                /\ e.ch.slot \in Nat /\ e.ch.counter \in Counters
  <1>1. /\ uses[x] \in Nat /\ inc[x] \in Nat /\ slot \in Nat
        /\ slotOps \in 0 .. OpsPerSlot
    BY ConstantsAssumption DEF TypeOK
  <1>2. auth[x].counter \in Counters
    BY DEF TypeOK, AuthorityData
  <1>3. accepted[x] \subseteq Assertions
    BY DEF TypeOK
  <1> QED
    BY <1>1, <1>2, <1>3 DEF Assertions

(***************************************************************************)
(* One more use, one more tick of the odometer.                            *)
(***************************************************************************)
LEMMA TurnedNext ==
    ASSUME TypeOK, NEW x \in Accounts, Turned(uses[x], auth[x].counter)
    PROVE  Turned(uses[x] + 1, Odometer(x))
  <1>1. /\ CounterMod \in Nat \ {0}
        /\ auth[x].counter \in 0 .. CounterMod - 1
    BY ConstantsAssumption, EntryTyping DEF Counters
  <1>2. PICK q \in Nat : uses[x] = q * CounterMod + auth[x].counter
    BY DEF Turned
  <1>3. q * CounterMod \in Nat
    BY <1>1
  <1>4. CASE auth[x].counter + 1 = CounterMod
    <2>1. Odometer(x) = 0
      BY <1>1, <1>4, Wrap DEF Odometer
    <2>2. (q + 1) * CounterMod = q * CounterMod + CounterMod
      BY <1>1
    <2>3. uses[x] + 1 = (q + 1) * CounterMod + 0
      BY <1>1, <1>2, <1>3, <1>4, <2>2
    <2> QED
      BY <2>1, <2>3 DEF Turned
  <1>5. CASE auth[x].counter + 1 # CounterMod
    <2>1. Odometer(x) = auth[x].counter + 1
      BY <1>1, <1>5, Wrap DEF Odometer
    <2>2. uses[x] + 1 = q * CounterMod + (auth[x].counter + 1)
      BY <1>1, <1>2, <1>3
    <2> QED
      BY <2>1, <2>2 DEF Turned
  <1> QED
    BY <1>4, <1>5

(***************************************************************************)
(* An entry stays good while the clock advances, whether or not the        *)
(* account is used in the meantime.                                        *)
(***************************************************************************)
LEMMA EntryKept ==
    ASSUME TypeOK, NEW x \in Accounts, NEW e \in accepted[x], EntryInv(x, e),
           \/ Clock /\ uses'[x] = uses[x]
           \/ OneOp /\ uses'[x] = uses[x] + 1
    PROVE  EntryInv(x, e)'
  <1>1. /\ uses[x] \in Nat /\ slot \in Nat /\ slotOps \in 0 .. OpsPerSlot
        /\ e.n \in Nat /\ e.at \in Nat /\ e.ch.slot \in Nat
        /\ OpsPerSlot \in Nat
    BY EntryTyping, ConstantsAssumption
  <1>2. /\ e.n <= uses[x] /\ e.ch.slot <= e.at /\ e.at <= slot
        /\ Turned(e.n, e.ch.counter)
        /\ uses[x] - e.n < OpsPerSlot * (slot - e.at) + slotOps
    BY DEF EntryInv
  <1>3. Turned(e.n, e.ch.counter)'
    BY <1>2 DEF Turned
  <1>4. e.n <= uses'[x] /\ e.at <= slot'
    BY <1>1, <1>2 DEF Clock, OneOp
  <1>5. uses'[x] - e.n < OpsPerSlot * (slot' - e.at) + slotOps'
    <2>1. OpsPerSlot * (slot - e.at) \in Nat
      BY <1>1, <1>2
    <2>2. CASE slot' = slot
      BY <1>1, <1>2, <2>1, <2>2 DEF Clock, OneOp
    <2>3. CASE slot' = slot + 1 /\ slotOps' = 0 /\ uses'[x] = uses[x]
      <3>1. OpsPerSlot * (slot' - e.at)
              = OpsPerSlot * (slot - e.at) + OpsPerSlot
        <4>1. slot' - e.at = (slot - e.at) + 1 /\ slot - e.at \in Int
          BY <1>1, <2>3
        <4> QED
          BY <1>1, <4>1, OneMoreSlot
      <3> QED
        BY <1>1, <1>2, <2>1, <2>3, <3>1
    <2> QED
      BY <1>1, <2>2, <2>3 DEF Clock, OneOp
  <1> QED
    BY <1>2, <1>3, <1>4, <1>5 DEF EntryInv

(***************************************************************************)
(* The heart of the matter.  Between two acceptances with equal counters   *)
(* lies a whole turn of the odometer, which takes longer than a challenge  *)
(* stays fresh.                                                            *)
(***************************************************************************)
LEMMA FreshChallenge ==
    ASSUME TypeOK, ReplayInv, NEW x \in Accounts, IsAuthority(x), OneOp,
           NEW ch, Accepts(x, ch), NEW e \in accepted[x], e.inc = inc[x]
    PROVE  e.ch # ch
  <1> SUFFICES ASSUME e.ch = ch PROVE FALSE
    OBVIOUS
  <1>1. /\ uses[x] \in Nat /\ slot \in Nat /\ slotOps \in 0 .. OpsPerSlot
        /\ e.n \in Nat /\ e.at \in Nat /\ e.ch.slot \in Nat
        /\ e.ch.counter \in 0 .. CounterMod - 1
        /\ OpsPerSlot \in Nat /\ CounterMod \in Nat \ {0}
        /\ MaxSlotAge \in Nat
    BY EntryTyping, ConstantsAssumption DEF Counters
  <1>2. EntryInv(x, e) /\ Turned(uses[x], auth[x].counter)
    BY DEF ReplayInv
  <1>3. e.ch.counter = Odometer(x) /\ FreshSlot(e.ch.slot)
    BY DEF Accepts
  <1>4. Turned(uses[x] + 1, e.ch.counter)
    BY <1>2, <1>3, TurnedNext
  <1>5. (uses[x] + 1) - e.n >= CounterMod
    <2>1. PICK p \in Nat : e.n = p * CounterMod + e.ch.counter
      BY <1>2 DEF EntryInv, Turned
    <2>2. PICK q \in Nat : uses[x] + 1 = q * CounterMod + e.ch.counter
      BY <1>4 DEF Turned
    <2>3. e.n < uses[x] + 1
      BY <1>1, <1>2 DEF EntryInv
    <2>4. p * CounterMod + e.ch.counter < q * CounterMod + e.ch.counter
      BY <2>1, <2>2, <2>3
    <2>5. (q * CounterMod + e.ch.counter) - (p * CounterMod + e.ch.counter)
            >= CounterMod
      BY <1>1, <2>4, WholeTurn
    <2> QED
      BY <2>1, <2>2, <2>5
  <1>6. slot - e.at \in Nat /\ slot - e.at < MaxSlotAge
    BY <1>1, <1>2, <1>3 DEF EntryInv, FreshSlot
  <1>7. slotOps < OpsPerSlot
    BY DEF OneOp
  <1>8. OpsPerSlot * (slot - e.at) + slotOps < CounterMod
    <2> DEFINE d == slot - e.at
    <2>1. d \in Nat /\ d < MaxSlotAge
      BY <1>6
    <2>2. slotOps \in Nat
      BY <1>1
    <2> HIDE DEF d
    <2>3. OpsPerSlot * d + slotOps < CounterMod
      BY <1>7, <2>1, <2>2, Capacity
    <2> QED
      BY <2>3 DEF d
  <1>9. uses[x] - e.n < OpsPerSlot * (slot - e.at) + slotOps
    BY <1>2 DEF EntryInv
  <1>10. OpsPerSlot * (slot - e.at) \in Nat
    BY <1>1, <1>6
  <1> QED
    BY <1>1, <1>5, <1>8, <1>9, <1>10

(***************************************************************************)
(* Every step keeps the invariant behind replay protection.                *)
(***************************************************************************)
LEMMA ReplayStep ==
    ASSUME TypeOK, TypeOK', ReplayInv, NoReplay, [AnyNext]_vars
    PROVE  ReplayInv' /\ NoReplay'
  <1>1. ASSUME NEW x \in Accounts
        PROVE  /\ IsAuthority(x)' => Turned(uses[x], auth[x].counter)'
               /\ \A e \in accepted'[x] :
                    e.inc <= inc'[x] /\ (e.inc = inc'[x] => EntryInv(x, e)')
               /\ \A e, f \in accepted'[x] :
                    e.inc = f.inc /\ e.ch = f.ch => e = f
    <2>1. /\ IsAuthority(x) => Turned(uses[x], auth[x].counter)
          /\ \A e \in accepted[x] :
               e.inc <= inc[x] /\ (e.inc = inc[x] => EntryInv(x, e))
          /\ \A e, f \in accepted[x] : e.inc = f.inc /\ e.ch = f.ch => e = f
      BY DEF ReplayInv, NoReplay
    <2>2. /\ uses[x] \in Nat /\ inc[x] \in Nat /\ slot \in Nat
          /\ slotOps \in Nat
          /\ \A e \in accepted[x] : e.inc \in Nat
      BY EntryTyping
    <2>3. CASE Clock /\ Untouched(x)
      <3>1. IsAuthority(x)' => Turned(uses[x], auth[x].counter)'
        BY <2>1, <2>3 DEF Untouched, IsAuthority, Turned
      <3>2. \A e \in accepted[x] : EntryInv(x, e) => EntryInv(x, e)'
        BY <2>3, EntryKept DEF Untouched
      <3> QED
        BY <2>1, <2>3, <3>1, <3>2 DEF Untouched
    <2>4. CASE Clock /\ Created(x)
      <3>1. Turned(uses[x], auth[x].counter)'
        <4>1. uses'[x] = 0 * CounterMod + auth'[x].counter
          BY <2>4, ConstantsAssumption DEF Created
        <4> QED
          BY <4>1 DEF Turned
      <3>2. \A e \in accepted[x] : e.inc <= inc'[x] /\ e.inc # inc'[x]
        BY <2>1, <2>2, <2>4 DEF Created
      <3> QED
        BY <2>1, <2>4, <3>1, <3>2 DEF Created
    <2>5. CASE OneOp /\ Asserted(x)
      <3>1. PICK ch : Accepts(x, ch)
        BY <2>5 DEF Asserted
      <3>2. /\ IsAuthority(x) /\ uses'[x] = uses[x] + 1 /\ inc'[x] = inc[x]
            /\ accepted'[x] = accepted[x] \cup {Entry(x, ch)}
            /\ auth'[x].disc = "authority" => auth'[x].counter = Odometer(x)
        BY <2>5, <3>1 DEF Asserted, Accepts
      <3>3. Turned(uses[x] + 1, Odometer(x))
        BY <2>1, <3>2, TurnedNext
      <3>4. IsAuthority(x)' => Turned(uses[x], auth[x].counter)'
        BY <3>2, <3>3 DEF IsAuthority, Turned
      <3>5. \A e \in accepted[x] : EntryInv(x, e) => EntryInv(x, e)'
        BY <2>5, <3>2, EntryKept
      <3>6. /\ Entry(x, ch).inc = inc[x]
            /\ Entry(x, ch).n = uses[x] + 1
            /\ Entry(x, ch).at = slot
            /\ Entry(x, ch).ch = ch
        BY DEF Entry
      <3>7. ASSUME NEW e, e = Entry(x, ch)
            PROVE  EntryInv(x, e)'
        <4>1. /\ slot' = slot /\ slotOps' = slotOps + 1
              /\ ch.slot <= slot /\ ch.counter = Odometer(x)
          BY <2>5, <3>1 DEF OneOp, Accepts, FreshSlot
        <4>2. e.n = uses[x] + 1 /\ e.at = slot /\ e.ch = ch
          BY <3>6, <3>7
        <4>3. OpsPerSlot * (slot - slot) = 0
          BY <2>2, ConstantsAssumption
        <4>4. uses'[x] - (uses[x] + 1) < OpsPerSlot * (slot' - slot) + slotOps'
          BY <2>2, <3>2, <4>1, <4>3
        <4>5. Turned(e.n, e.ch.counter)'
          BY <3>3, <4>1, <4>2 DEF Turned
        <4>6. e.n <= uses'[x] /\ e.ch.slot <= e.at /\ e.at <= slot'
          BY <2>2, <3>2, <4>1, <4>2
        <4> QED
          BY <4>2, <4>4, <4>5, <4>6 DEF EntryInv
      <3>8. \A e \in accepted[x] : e.inc = inc[x] => e.ch # ch
        BY <2>5, <3>1, <3>2, FreshChallenge
      <3>9. \A e \in accepted'[x] :
              e.inc <= inc'[x] /\ (e.inc = inc'[x] => EntryInv(x, e)')
        BY <2>1, <2>2, <3>2, <3>5, <3>6, <3>7
      <3>10. \A e, f \in accepted'[x] : e.inc = f.inc /\ e.ch = f.ch => e = f
        BY <2>1, <3>2, <3>6, <3>8
      <3> QED
        BY <3>4, <3>9, <3>10
    <2> QED
      BY <2>3, <2>4, <2>5, HistoryEffect DEF HistoryStep
  <1> QED
    BY <1>1 DEF ReplayInv, NoReplay

(***************************************************************************)
(* Replay protection with every use submitted.                             *)
(***************************************************************************)
LEMMA ReplayAny == AnySpec => []NoReplay
  <1>1. Init => ReplayInv /\ NoReplay
    BY DEF Init, ReplayInv, NoReplay, IsAuthority, Absent, ZeroBytes
  <1>2. TypeOK /\ TypeOK' /\ ReplayInv /\ NoReplay /\ [AnyNext]_vars
          => ReplayInv' /\ NoReplay'
    BY ReplayStep
  <1> QED
    BY <1>1, <1>2, TypeAny, PTL DEF AnySpec

(***************************************************************************)
(* Replay protection: since its creation an account never accepts the same *)
(* passkey assertion twice, even though the odometer wraps, as long as the *)
(* blocks of MAX_SLOT_AGE slots hold at most CounterMod instructions.      *)
(***************************************************************************)
THEOREM ReplayProtection == Spec => []NoReplay
  BY ReplayAny, SpecIsAny, PTL

=============================================================================
