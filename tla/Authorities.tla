---------------------------- MODULE Authorities ----------------------------
(***************************************************************************)
(* The authorities of LazorKit wallets: who may act on a wallet, with      *)
(* which role, and how each use of an authority is authenticated.          *)
(*                                                                         *)
(* An authority is an account whose address (a PDA) is derived from the    *)
(* wallet and a 32 byte id, so an account is named <<wallet, id>> here.    *)
(* For Ed25519 the id is the public key itself; for Secp256r1 it is a      *)
(* credential hash and the public key is stored next to it.                *)
(*                                                                         *)
(* One action is one instruction of a transaction that commits: an         *)
(* instruction that fails aborts its transaction, which changes nothing.   *)
(* Closing an account zeroes its data but keeps its length, so until the   *)
(* transaction ends the account is neither usable nor absent; EndTx is the *)
(* runtime removing it, unless lamports were sent to it in the meantime.   *)
(***************************************************************************)
EXTENDS Integers

CONSTANTS
    Wallets,        \* addresses of wallet PDAs
    Ids,            \* 32 byte id seeds of authorities
    ZeroId,         \* the all-zero id: no private key signs for it
    PasskeyKeys,    \* Secp256r1 public keys (with their rpIdHash)
    AuthTypes,      \* authority types callers submit, a subset of {0, 1}
    SubmittedUses,  \* instructions callers submit, a subset of Uses
    Payloads,       \* what those instructions sign over
    MaxSlotAge,     \* MAX_SLOT_AGE: slots a passkey challenge stays fresh
    CounterMod,     \* 2^32, the odometer's modulus
    OpsPerSlot,     \* instructions a slot can hold
    MaxSlot         \* horizon of the clock

(***************************************************************************)
(* The instructions that use an authority and leave the set of authorities *)
(* alone.                                                                  *)
(***************************************************************************)
Uses == {"Execute", "CreateSession", "RevokeSession", "Authorize"}

(***************************************************************************)
(* The instructions an authority authenticates.                            *)
(***************************************************************************)
Ops == Uses \cup {"AddAuthority", "RemoveAuthority", "TransferOwnership"}

ASSUME ConstantsAssumption ==
    /\ AuthTypes \subseteq {0, 1}
    /\ SubmittedUses \subseteq Uses
    /\ MaxSlotAge \in Nat \ {0}
    /\ CounterMod \in Nat \ {0}
    /\ OpsPerSlot \in Nat \ {0}
    /\ MaxSlot \in Nat

(***************************************************************************)
(* 150 slots of blocks hold at most 2^32 instructions.                     *)
(***************************************************************************)
ASSUME OdometerAssumption == OpsPerSlot * MaxSlotAge <= CounterMod

VARIABLES
    wallets,    \* the wallet accounts that are initialised
    auth,       \* the data of every authority account
    closing,    \* accounts closed by the transaction that is running
    slot,       \* Clock::get()?.slot
    slotOps,    \* instructions the current slot has run
    uses,       \* history: accepted assertions since the account was created
    inc,        \* history: how often the account has been created
    accepted,   \* history: every assertion each account accepted
    by          \* history: who authenticated the last instruction

vars == <<wallets, auth, closing, slot, slotOps, uses, inc, accepted, by>>

-----------------------------------------------------------------------------
(* Accounts. *)

Owner == 0
Admin == 1
Spender == 2
Roles == {Owner, Admin, Spender}

Ed25519 == 0
Secp256r1 == 1

Accounts == Wallets \X Ids

Keys == Ids \cup PasskeyKeys \cup {ZeroId}

(***************************************************************************)
(* Every key that can produce a signature.  The zero key is the address of *)
(* the System Program and never signs.                                     *)
(***************************************************************************)
Signers == Keys \ {ZeroId}

Counters == 0 .. CounterMod - 1

(***************************************************************************)
(* AuthorityAccountHeader and the key behind it.  "absent" stands for an   *)
(* account without data, "zeroed" for one whose bytes are all zero.        *)
(***************************************************************************)
AuthorityData ==
    [disc: {"absent", "zeroed", "authority"}, type: {Ed25519, Secp256r1},
     role: Roles, counter: Counters, key: Keys]

ZeroBytes(disc) ==
    [disc |-> disc, type |-> 0, role |-> 0, counter |-> 0, key |-> ZeroId]

Absent == ZeroBytes("absent")
Zeroed == ZeroBytes("zeroed")

\* Mutant of IsVacant: the discriminator is looked at, not the length.
IsVacantByDiscriminator(acct) == auth[acct].disc # "authority"

(***************************************************************************)
(* check_zero_data: the account has no data at all.                        *)
(***************************************************************************)
IsVacant(acct) == auth[acct].disc = "absent"

IsAuthority(acct) == auth[acct].disc = "authority"

(***************************************************************************)
(* The header belongs to the wallet of the instruction.  An authority's    *)
(* header holds the wallet its address was derived from.                   *)
(***************************************************************************)
BelongsTo(acct, w) == acct[1] = w

(***************************************************************************)
(* The account every authority instruction starts from: an initialised     *)
(* wallet and a live authority of that wallet.                             *)
(***************************************************************************)
Actor(acct, w) ==
    /\ w \in wallets
    /\ IsAuthority(acct)
    /\ BelongsTo(acct, w)

(***************************************************************************)
(* The id and the key are one for Ed25519, independent for Secp256r1.      *)
(***************************************************************************)
KeyMatchesType(type, id, key) ==
    IF type = Ed25519 THEN key = id ELSE key \in PasskeyKeys

NewAuthority(type, role, key) ==
    [disc |-> "authority", type |-> type, role |-> role, counter |-> 0,
     key |-> key]

-----------------------------------------------------------------------------
(* Authentication. *)

(***************************************************************************)
(* What the passkey signs.  The preimage has no wallet of its own; where   *)
(* an instruction binds accounts they are in the payload.                  *)
(***************************************************************************)
Challenge(disc, payload, signedSlot, counter) ==
    [disc |-> disc, payload |-> payload, slot |-> signedSlot,
     counter |-> counter]

\* Mutant of FreshSlot: > where the code has >=.
FreshSlotOffByOne(signedSlot) ==
    /\ signedSlot <= slot
    /\ slot - signedSlot <= MaxSlotAge

FreshSlot(signedSlot) ==
    /\ signedSlot <= slot
    /\ slot - signedSlot < MaxSlotAge

Odometer(acct) == (auth[acct].counter + 1) % CounterMod

(***************************************************************************)
(* Ed25519: one of the transaction's signers is the stored key.            *)
(***************************************************************************)
Ed25519Authentic(acct, signer) == signer = auth[acct].key

(***************************************************************************)
(* Secp256r1: called by the transaction itself (not through a CPI), with a *)
(* fresh slot and the next counter, verified against the stored key.       *)
(***************************************************************************)
Secp256r1Authentic(acct, signer, stackHeight, ch) ==
    /\ stackHeight <= 1
    /\ FreshSlot(ch.slot)
    /\ ch.counter = Odometer(acct)
    /\ signer = auth[acct].key

(***************************************************************************)
(* The counter is committed only once everything else has been verified,   *)
(* and only for Secp256r1.                                                 *)
(***************************************************************************)
CounterAfter(acct) ==
    IF auth[acct].type = Secp256r1 THEN Odometer(acct) ELSE auth[acct].counter

UsesAfter(acct) ==
    IF auth[acct].type = Secp256r1 THEN uses[acct] + 1 ELSE uses[acct]

(***************************************************************************)
(* One authenticated instruction op over payload.  The conjuncts on        *)
(* accepted, slotOps and by record what happened.                          *)
(***************************************************************************)
Authenticate(acct, op, payload) ==
    /\ slotOps < OpsPerSlot
    /\ slotOps' = slotOps + 1
    /\ by' = {acct}
    /\ \/ /\ auth[acct].type = Ed25519
          /\ \E signer \in Signers : Ed25519Authentic(acct, signer)
          /\ UNCHANGED accepted
       \/ /\ auth[acct].type = Secp256r1
          /\ \E signer \in Signers, stackHeight \in 1 .. 2,
                signedSlot \in 0 .. MaxSlot, counter \in Counters :
               LET ch == Challenge(op, payload, signedSlot, counter)
               IN  /\ Secp256r1Authentic(acct, signer, stackHeight, ch)
                   /\ accepted' = [accepted EXCEPT ![acct] = @ \cup
                        {[inc |-> inc[acct], n |-> uses[acct] + 1,
                          at |-> slot, ch |-> ch]}]

-----------------------------------------------------------------------------
(* Instructions. *)

(***************************************************************************)
(* CreateWallet: wallet and first authority, an Owner, in one instruction. *)
(* Nobody is authenticated; anyone may create a wallet.                    *)
(***************************************************************************)
CreateWallet(w, id, type, key) ==
    LET owner == <<w, id>>
    IN  /\ slotOps < OpsPerSlot
        /\ KeyMatchesType(type, id, key)
        /\ w \notin wallets
        /\ IsVacant(owner)
        /\ wallets' = wallets \cup {w}
        /\ auth' = [auth EXCEPT ![owner] = NewAuthority(type, Owner, key)]
        /\ uses' = [uses EXCEPT ![owner] = 0]
        /\ inc' = [inc EXCEPT ![owner] = @ + 1]
        /\ slotOps' = slotOps + 1
        /\ by' = {}
        /\ UNCHANGED <<closing, slot, accepted>>

\* Mutant of MayAdd: any byte is a role.
MayAddAnyRole(role, newRole) ==
    ~ (role # Owner /\ (role # Admin \/ newRole # Spender))

\* Mutant of MayAdd: an Admin grants every role.
MayAddByAdmin(role, newRole) ==
    /\ newRole <= 2
    /\ role \in {Owner, Admin}

(***************************************************************************)
(* new_role is a known role; an Owner grants any role, an Admin only       *)
(* Spender, a Spender none.                                                *)
(***************************************************************************)
MayAdd(role, newRole) ==
    /\ newRole <= 2
    /\ ~ (role # Owner /\ (role # Admin \/ newRole # Spender))

AddAuthority(w, admin, id, type, newRole, key) ==
    LET new == <<w, id>>
    IN  /\ Actor(admin, w)
        /\ KeyMatchesType(type, id, key)
        /\ Authenticate(admin, "AddAuthority", <<id, key, type, newRole>>)
        /\ MayAdd(auth[admin].role, newRole)
        /\ IsVacant(new)
        /\ auth' = [auth EXCEPT ![admin].counter = CounterAfter(admin),
                                ![new] = NewAuthority(type, newRole, key)]
        /\ uses' = [uses EXCEPT ![admin] = UsesAfter(admin), ![new] = 0]
        /\ inc' = [inc EXCEPT ![new] = @ + 1]
        /\ UNCHANGED <<wallets, closing, slot>>

\* Mutant of MayRemove: an Owner removes other Owners too.
MayRemoveOwner(admin, target) ==
    \/ auth[admin].role = Owner
    \/ auth[admin].role = Admin /\ auth[target].role = Spender

(***************************************************************************)
(* Never oneself, never an Owner; an Admin removes only a Spender.         *)
(***************************************************************************)
MayRemove(admin, target) ==
    /\ admin # target
    /\ auth[target].role # Owner
    /\ \/ auth[admin].role = Owner
       \/ auth[admin].role = Admin /\ auth[target].role = Spender

RemoveAuthority(w, admin, target) ==
    /\ Actor(admin, w)
    /\ Authenticate(admin, "RemoveAuthority", target)
    /\ IsAuthority(target)
    /\ BelongsTo(target, w)
    /\ MayRemove(admin, target)
    /\ auth' = [auth EXCEPT ![admin].counter = CounterAfter(admin),
                            ![target] = Zeroed]
    /\ uses' = [uses EXCEPT ![admin] = UsesAfter(admin)]
    /\ closing' = closing \cup {target}
    /\ UNCHANGED <<wallets, slot, inc>>

\* Mutant of MayOwn: the zero id is not rejected.
MayOwnAny(id) == TRUE

(***************************************************************************)
(* TransferOwnership does not accept the zero id (the other two            *)
(* instructions that create authorities do).                               *)
(***************************************************************************)
MayOwn(id) == id # ZeroId

TransferOwnership(w, current, id, type, key) ==
    LET new == <<w, id>>
    IN  /\ MayOwn(id)
        /\ KeyMatchesType(type, id, key)
        /\ Actor(current, w)
        /\ auth[current].role = Owner
        /\ Authenticate(current, "TransferOwnership", <<id, key, type>>)
        /\ IsVacant(new)
        /\ auth' = [auth EXCEPT ![new] = NewAuthority(type, Owner, key),
                                ![current] = Zeroed]
        /\ uses' = [uses EXCEPT ![current] = UsesAfter(current), ![new] = 0]
        /\ inc' = [inc EXCEPT ![new] = @ + 1]
        /\ closing' = closing \cup {current}
        /\ UNCHANGED <<wallets, slot>>

(***************************************************************************)
(* The roles and the type each of the instructions in Uses asks for.  What *)
(* else they change is the subject of other modules.                       *)
(***************************************************************************)
MayUse(acct, op) ==
    /\ op # "Execute" => auth[acct].role \in {Owner, Admin}
    /\ op = "Authorize" => auth[acct].type = Secp256r1

UseAuthority(w, acct, op, payload) ==
    /\ Actor(acct, w)
    /\ MayUse(acct, op)
    /\ Authenticate(acct, op, payload)
    /\ auth' = [auth EXCEPT ![acct].counter = CounterAfter(acct)]
    /\ uses' = [uses EXCEPT ![acct] = UsesAfter(acct)]
    /\ UNCHANGED <<wallets, closing, slot, inc>>

-----------------------------------------------------------------------------
(* The runtime. *)

(***************************************************************************)
(* The transaction ends.  A closed account holds no lamports and is        *)
(* deleted, except the ones the same transaction funded again: those keep  *)
(* their zeroed data for good, as no instruction accepts them.             *)
(***************************************************************************)
EndTx ==
    /\ closing # {}
    /\ \E funded \in SUBSET closing :
         auth' = [acct \in Accounts |->
                    IF acct \in closing \ funded THEN Absent ELSE auth[acct]]
    /\ closing' = {}
    /\ by' = {}
    /\ UNCHANGED <<wallets, slot, slotOps, uses, inc, accepted>>

(***************************************************************************)
(* The clock moves between transactions.                                   *)
(***************************************************************************)
Tick ==
    /\ closing = {}
    /\ slot < MaxSlot
    /\ slot' = slot + 1
    /\ slotOps' = 0
    /\ by' = {}
    /\ UNCHANGED <<wallets, auth, closing, uses, inc, accepted>>

(***************************************************************************)
(* The end of the modelled time, between two transactions.                 *)
(***************************************************************************)
HorizonReached ==
    /\ slot = MaxSlot
    /\ closing = {}
    /\ UNCHANGED vars

-----------------------------------------------------------------------------
Init ==
    /\ wallets = {}
    /\ auth = [acct \in Accounts |-> Absent]
    /\ closing = {}
    /\ slot = 0
    /\ slotOps = 0
    /\ uses = [acct \in Accounts |-> 0]
    /\ inc = [acct \in Accounts |-> 0]
    /\ accepted = [acct \in Accounts |-> {}]
    /\ by = {}

(***************************************************************************)
(* new_role is a byte; 3 stands for the values that are no role.           *)
(***************************************************************************)
SubmittedRoles == 0 .. 3

Instruction ==
    \E w \in Wallets :
      \/ \E id \in Ids, type \in AuthTypes, key \in Keys :
           CreateWallet(w, id, type, key)
      \/ \E acct \in Accounts :
           \/ \E id \in Ids, type \in AuthTypes, key \in Keys :
                \/ \E newRole \in SubmittedRoles :
                     AddAuthority(w, acct, id, type, newRole, key)
                \/ TransferOwnership(w, acct, id, type, key)
           \/ \E target \in Accounts : RemoveAuthority(w, acct, target)
           \/ \E op \in SubmittedUses, payload \in Payloads :
                UseAuthority(w, acct, op, payload)

Next == Instruction \/ EndTx \/ Tick \/ HorizonReached

Spec == Init /\ [][Next]_vars

-----------------------------------------------------------------------------
(* Properties. *)

SignedPayloads ==
    Payloads \cup Accounts \cup (Ids \X Keys \X {Ed25519, Secp256r1})
             \cup (Ids \X Keys \X {Ed25519, Secp256r1} \X Roles)

Assertions ==
    [inc: Nat, n: Nat, at: Nat,
     ch: [disc: Ops, payload: SignedPayloads, slot: Nat, counter: Counters]]

(***************************************************************************)
(* Type correctness.                                                       *)
(***************************************************************************)
TypeOK ==
    /\ wallets \subseteq Wallets
    /\ auth \in [Accounts -> AuthorityData]
    /\ closing \subseteq Accounts
    /\ slot \in 0 .. MaxSlot
    /\ slotOps \in 0 .. OpsPerSlot
    /\ uses \in [Accounts -> Nat]
    /\ inc \in [Accounts -> Nat]
    /\ accepted \in [Accounts -> SUBSET Assertions]
    /\ by \subseteq Accounts

IsOwner(acct) == IsAuthority(acct) /\ auth[acct].role = Owner

(***************************************************************************)
(* No sequence of instructions leaves a wallet without an Owner: nobody    *)
(* can be the last one to go, although RemoveAuthority and                 *)
(* TransferOwnership never count the Owners.                               *)
(***************************************************************************)
HasOwner == \A w \in wallets : \E id \in Ids : IsOwner(<<w, id>>)

Controllable(w) == \E id \in Ids \ {ZeroId} : IsOwner(<<w, id>>)

ControlStep == \A w \in Wallets : Controllable(w) => Controllable(w)'

(***************************************************************************)
(* A wallet that has an Owner whose id is not the zero id keeps one: a     *)
(* wallet somebody can control stays controllable through every transfer.  *)
(***************************************************************************)
ControlIsKept == [][ControlStep]_vars

(***************************************************************************)
(* A live authority among the last actors that may grant or take role in   *)
(* the wallet of acct.                                                     *)
(***************************************************************************)
Grantor(acct, role) ==
    \E a \in by' :
       /\ IsAuthority(a)
       /\ a[1] = acct[1]
       /\ auth[a].role = Owner \/ auth[a].role < role

OwnerAppears(w) ==
    \E id \in Ids : ~ IsOwner(<<w, id>>) /\ IsOwner(<<w, id>>)'

HierarchyStep ==
    \A acct \in Accounts : acct[1] \in wallets =>
       /\ ~ IsAuthority(acct) /\ IsAuthority(acct)'
            => Grantor(acct, auth'[acct].role)
       /\ IsAuthority(acct) /\ ~ IsAuthority(acct)'
            => IF auth[acct].role # Owner
               THEN Grantor(acct, auth[acct].role)
               ELSE by' = {acct} /\ OwnerAppears(acct[1])

(***************************************************************************)
(* Once a wallet exists, its authorities appear and disappear only by the  *)
(* act of a live authority of the same wallet that is an Owner or outranks *)
(* the one it adds or removes, and an Owner disappears only by its own act,*)
(* in exchange for another Owner.  In particular no chain of grants lets   *)
(* an Admin reach above Spender.                                           *)
(***************************************************************************)
RoleHierarchy == [][HierarchyStep]_vars

LifecycleStep ==
    \A acct \in Accounts :
       /\ auth[acct].disc = "zeroed" => auth'[acct] \in {Zeroed, Absent}
       /\ IsAuthority(acct) =>
            \/ auth'[acct] = Zeroed
            \/ auth'[acct] = [auth[acct] EXCEPT !.counter = auth'[acct].counter]

(***************************************************************************)
(* An account lives, is zeroed, is deleted and only then may live again: a *)
(* closed authority never revives on its zeroed data (whose role byte      *)
(* reads as Owner), in its own transaction or after it, and a live one     *)
(* never changes role, type or key in place.                               *)
(***************************************************************************)
Lifecycle == [][LifecycleStep]_vars

(***************************************************************************)
(* No passkey assertion is accepted twice by an account since its          *)
(* creation, also when the odometer wraps around: a counter comes back     *)
(* only after the challenges that carried it have gone stale.              *)
(***************************************************************************)
NoReplay ==
    \A acct \in Accounts : \A e, f \in accepted[acct] :
       e.inc = f.inc /\ e.ch = f.ch => e = f

(***************************************************************************)
(* What the documentation says of the odometer: a monotonic counter per    *)
(* authority, so no two assertions an authority accepts share a counter.   *)
(***************************************************************************)
CounterPerAuthorityIsMonotonic ==
    \A acct \in Accounts : \A e, f \in accepted[acct] :
       e.ch.counter = f.ch.counter => e = f
=============================================================================
