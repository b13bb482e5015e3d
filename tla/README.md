# A TLA+ model of the LazorKit smart wallet program

LazorKit is a Solana program that gives a user a wallet without a seed phrase:
a *wallet* with a *vault* that holds lamports and tokens, any number of
*authorities* (Ed25519 keys or Secp256r1 passkeys) with the roles Owner, Admin
and Spender, *session keys* with spending limits, and *deferred executions* that
are signed in one transaction and run in another. This directory holds TLA+
modules that model the program in `src/program`, TLC configurations that check
them on small instances, and TLAPS proofs of the most important properties for
every value of the constants.

1. [Inventory](#1-inventory)
2. [Modules and how they correspond to the code](#2-modules-and-how-they-correspond-to-the-code)
3. [Runs](#3-runs)
4. [Bounds](#4-bounds)
5. [Fairness](#5-fairness)
6. [What is proved](#6-what-is-proved)
7. [Where code and documents disagree](#7-where-code-and-documents-disagree)
8. [What is not modelled](#8-what-is-not-modelled)
9. [Plan](#9-plan)

## 1. Inventory

| Component | State it keeps | Operations | What makes it correct |
|---|---|---|---|
| Wallet creation (`create_wallet.rs`) | wallet account, first authority | `CreateWallet` | a wallet starts with exactly one authority, an Owner |
| Authority management (`manage_authority.rs`, `transfer_ownership.rs`) | authority accounts: type, role, counter, key | `AddAuthority`, `RemoveAuthority`, `TransferOwnership` | a wallet is never without an Owner; roles are granted and taken only downwards; closed accounts do not revive |
| Authentication (`auth/`) | the odometer in the authority account | called by every instruction an authority signs | an assertion is accepted once; a failed instruction does not advance the counter |
| Deferred execution (`authorize.rs`, `execute_deferred.rs`, `reclaim_deferred.rs`) | DeferredExec accounts: hashes, payer, expiry | `Authorize`, `ExecuteDeferred`, `ReclaimDeferred` | what runs was signed, once, in time; rent comes back |
| Session keys (`create_session.rs`, `revoke_session.rs`) | session accounts: key, expiry, actions buffer | `CreateSession`, `RevokeSession` | sessions end at their expiry or revocation |
| Session actions (`state/action.rs`, `execute_actions.rs`) | the limits inside the actions buffer | checked and charged by `Execute` | lifetime, window and per-transaction caps hold over any number of transactions |
| Execute (`execute.rs`) | none of its own; signs for the vault | `Execute` with an authority or a session | calls run only as signed or within the session's limits |
| PDA initialisation and closing (`utils.rs`, the closing handlers) | lamports, owner and data of program accounts | `initialize_pda_account`, the refunds | lamports sent beforehand neither block a creation nor get lost |
| Token accounts of a vault (`execute_actions.rs`) | owned by the token programs | `find_token_balance`, authority snapshots | the outflow seen is the outflow that happened; control of the accounts is kept |
| Compact instructions (`compact.rs`) | none | `from_bytes`, `to_bytes`, `decompress`, accounts hash | round trips; a fixed border to the payload; hashes that bind the calls |
| WebAuthn parsing (`webauthn.rs`) | none | JSON scan, base64url, authenticator data | finds the top-level member or nothing; encoding loses no bit |
| Precompile introspection (`introspection.rs`) | none | checks on the instruction before | what is accepted is what the precompile verified |
| Entry point (`entrypoint.rs`) | none | dispatch on the first byte | |
| `assertions`, `no-padding`, `instruction.rs`, `error.rs` | none | checks, a compile-time macro, interface description | |

**Interaction.** Everything is shared state on the ledger. Each instruction gets
the accounts it names; `Authorize`, `CreateSession`, `RevokeSession` and
`Execute` read and (for passkeys) advance the counter of an authority account
that `manage_authority.rs` created. A DeferredExec account's *address* contains
the authority's counter, a session outlives the authority that made it, and the
vault is drawn on by authorities, sessions and deferred executions alike
(`LazorKit` puts all of them on one vault).
Called programs may change the vault's accounts in any way the vault's signature
allows.

**What is hard.**

* Several instructions share a transaction. A closed account keeps its length
  until the transaction ends, and for good if the same transaction sends it
  lamports; zeroed bytes read as *Owner* and *Ed25519*.
* Addresses come back: an authority can be removed and created again, with
  counter 0, while DeferredExec accounts that were derived from its former
  counters still exist. The 32-bit odometer wraps.
* Time: freshness of a challenge, expiry windows with execution on one side and
  reclaim on the other, recurring limits with windows that are aligned to
  multiples of their length, actions with an expiry of their own.
* `Execute` with a session snapshots before a loop of foreign calls and compares
  after it; a call may pay back, or hand over control without paying.

* Bytes without framing: the parser alone separates instructions from payload, a
  scanner reads JSON by counting braces, limits are rewritten in place at
  computed offsets, and the precompile verified whatever its own offsets chose.
* Lamports and tokens that arrive uninvited: at an address before its account
  exists, at a closed one, in a token account that nobody listed.

`PROJECT.json` lists these hazards line by line with the properties that would
catch them.

## 2. Modules and how they correspond to the code

```
Authorities ──┬── Deferred ──────────────────────┐
              └── Sessions ── SessionActions     ├── LazorKit
                     └───────────────────────────┘
SessionActions ──┬── TokenAccounts     (token accounts one by one)
                 └── ActionBuffer      (the same actions as bytes)
VaultControl: abstract; implemented by Sessions and LazorKit
Compact, ClientData, Passkey, PdaAccounts: on their own
MC*: instances for TLC; MCFormats has the four modules about bytes

AuthoritiesProofs ──┬── DeferredProofs ──┬── KitProofs      (theorems, section 6)
                    └── SessionsProofs ──┘
DataInduction ──┬── BalanceProofs    (TokenAccounts, PdaAccounts)
                ├── FormatProofs     (Compact, ClientData, Passkey)
                └── BufferProofs     (ActionBuffer)
```

**Grain.** One action is one instruction of a transaction that commits. A failing
instruction aborts its transaction and changes nothing, so it is not a step.
Instructions of one transaction follow each other; `closing` (`dclosing`,
`sclosing`) holds the accounts the running transaction has closed, and
`EndTx` is the runtime removing them. The runtime may find such an account funded
again; it then stays, zeroed, and no instruction accepts it. The clock moves only
between transactions. Each slot runs at most `OpsPerSlot` instructions.

**`Authorities`** (`create_wallet.rs`, `manage_authority.rs`,
`transfer_ownership.rs`, `auth/`). An authority account is named
`<<wallet, id>>`, the seeds of its address; `auth` gives its data, a record of
discriminator, type, role, counter and key. `CreateWallet`, `AddAuthority`,
`RemoveAuthority`, `TransferOwnership` and `UseAuthority` (the authority side of
Execute, CreateSession, RevokeSession and Authorize) follow the order of checks
in the code. `Authenticate` covers both authenticators: for Ed25519 the stored
key is among the signers; for Secp256r1 the stack height, the freshness of the
slot, the next odometer value and the signing key are checked before the counter
is written. Signatures are unforgeable: an assertion exists only if the key
behind it signs, and SHA-256 is injective, so a challenge is represented by what
it hashes. The zero id has no private key. `uses`, `inc`, `accepted` and `by` are
history variables: they record and never guard.

**`Deferred`** extends it with DeferredExec accounts, named
`<<authority, counter>>`. `Authorize` is `UseAuthority` followed by the storing
of hashes, payer and expiry. The code does not look at the account first; what
protects a pending authorization is that the System Program refuses to allocate
an account that has data (`Allocatable`, from `utils.rs`). `ExecuteDeferred`
needs no authority, closes the account before the calls and refunds the stored
payer; an instruction list that calls the program itself (`SelfCalling`) never
succeeds. `ReclaimDeferred` needs the payer's signature after the expiry.

**`SessionActions`** has the pure part of session limits: validation of an
actions buffer, what may be called, whether a spending is allowed and what is
written back. A buffer is the set of its actions, because no check depends on
their order and each limit is unique per kind and asset.

**`Sessions`** adds session accounts and vaults. Execute with a session is split
at its calls into `SessionExecute`, `Cpi`, `SessionCommit` and `SessionAbort`;
nothing else runs in between, as the runtime executes one instruction at a time
and re-entry is refused. `Cpi` is the environment: a called program moves any
amount in or out and may change who controls the vault's accounts.
`AuthorityExecute` may leave the vault in any state, and `Deposit` is anybody's.
`control` stands for what the code snapshots: the owner and data length of the
vault, and owner, delegate and close authority of the listed mints' accounts.
A mint of the vault is one number. The program reads it off the list of accounts it is
given, and reads the vault's true loss if each token account is in the list once; what
`Sessions` says of mints is said of such Executes (`TokenAccounts` looks at all others).

**`VaultControl`** is what the program promises about a vault, without accounts,
transactions or calls: it changes only by an act an authority signed, by a live
session within what is left of its lifetime budgets, by one pending authorization
that is thereby used up, or by a deposit. Two modules implement it, each by a mapping
of its own:

| Module | `held` | `budget` | `pending` |
|---|---|---|---|
| `Sessions` (`ImplementsVaultControl`) | the vault, as it was before the calls while they run | expiry, lifetime limit and what is left of it in the account's actions | none |
| `LazorKit` (`KitImplementsVaultControl`) | as in `Sessions` | as in `Sessions` | unexpired DeferredExec accounts |

The loop of calls is one abstract step, taken by `SessionCommit`; an abort is a
stutter. `Deferred` implements `Authorities`, with the variables of that module as they
are (`ImplementsAuthorities`).

**`LazorKit`** composes `Deferred` and `Sessions` over shared authorities, counters,
clock and vaults: every instruction of `entrypoint.rs`, in any order and several to
a transaction. `ExecuteDeferred` may leave the vault in any state, as its calls
carry the vault's signature and no limits apply. While a session's calls run
nothing else does.

**`TokenAccounts`** opens up what `Sessions` has as one number per mint and one
`control` value. Execute gets a list of accounts in any order, in which accounts of the
vault may be missing and any account may occur several times, as nothing in `execute.rs`
keeps it from that; calls of the token programs (transfer, approve, set owner or close authority, close, initialise) and
of foreign programs that lay out look-alike accounts come between the snapshot and
the check. `FindTokenBalance` is the fold of the saturating addition over the list,
`SnapshotAuthorities` and `AuthoritiesUnchanged` the comparison of control.
`ListedOnce` tells the lists that name every account once from the others: the properties
about amounts are conditional on it, the one about control is not. `taken` counts the
vault's true losses by Executes with such lists. `TokenAssumption` says that the submitted action sets are ones `CreateSession` accepts
and that no mint has more coins than its program can count.

**`PdaAccounts`** has the lamports that the other modules leave out:
`initialize_pda_account` as its three System Program calls, closing as its two writes,
payments by anybody at any time, the runtime's rent check, and failure at any
point. It covers the handlers that verify emptiness first and `Authorize`, which
does not; and those that refuse the account itself as refund account and the two
deferred ones, which leave that to the runtime.

**`Compact`** models the compact format on digits of a small base. Bytes arrive one
by one (whatever they hold) or a client puts a program together; `Parse`, `IntoBytes`,
`Decompress` and `NamedKeys` (what the accounts hash covers) are compared. The owned
and the borrowed variant of the parser are the same operator. `CompactAssumption`: a
byte has at least two values and counts `MAX_COMPACT_INSTRUCTIONS`; `ProgramAssumption`:
a client's program is shorter than what a u16 counts, as every transaction is;
`AccountsAssumption`: lists of accounts are sequences.

**`ClientData`** has the JSON scanner of `webauthn.rs` as a fold over bytes with a
state per loop of the code, against a text that grows along the JSON grammar with
its top-level members remembered. Bytes with a meaning in JSON have names
(`"open_brace"`, `"quote"`), and a string is any sequence of bytes in which an escape
comes before a quote, as JSON has it (`ClientDataAssumption`). `Base64` is the encoder
on real byte values.

**`Passkey`** puts the program's checks on the precompile instruction next to what
the precompile itself reads through its offsets. Data is a sequence of cells, a
signature says who signed what. `ParsePayload` is the length arithmetic of the
authority payload.

**`ActionBuffer`** is the actions buffer cell by cell: `ParseActions`, `ValidBuffer`, the
arguments of CreateSession with and without a payload behind them, and the
in-place writing by `evaluate_post_actions`, run side by side with the set of records
of `SessionActions`. The abstraction `Sessions` makes is thereby checked.
`KeysAssumption`: a key is a cell too, different mints and programs have different keys,
and every value of a cell is the key of one of them, as nobody looks up whether the
program of a list exists. `BufferAssumption`: clients write u64s below the largest one. That
one is left out because as a recurring limit it limits nothing: the sum of what was spent
and is spent saturates there, and the records of `SessionActions` count without bound.

**Abstracted data.** Account addresses are the seeds they are derived from; bumps
and writable flags are left out. Outside the modules above, so are byte layouts
and lamports of program accounts, and a mint's accounts are one number.

## 3. Runs

| Run | Properties | What it shows |
|---|---|---|
| `roles` | `TypeOK`, `HasOwner`, `ControlIsKept`, `RoleHierarchy`, `Lifecycle` | over every sequence of instructions on two wallets, within and across transactions, the last Owner cannot go, a wallet somebody controls stays controlled, no chain of grants climbs, closed accounts stay dead until they are deleted |
| `replay` | `NoReplay` | with an odometer that wraps inside the horizon no assertion is accepted twice |
| `deferred_recreate` | `DeferredTypeOK`, `SettledOnce`, `ImplementsAuthorities` | although addresses come back, an authorization is settled exactly once and never overwritten; authorities behave as before |
| `deferred_windows` | `ExecutedAsSigned`, `WindowsAreDisjoint`, `RentIsRecovered` | what runs was signed by a passkey, within the signed time; execution and reclaim have no slot in common; every expired authorization is closed in the end, also one that can never run and one whose authority was removed |
| `sessions_sol` | `SessionTypeOK`, `LifetimeCap`, `WindowCap`, `PerTxCap`, `NoSpendAfterExpiry`, `LeftIsExact`, `ImplementsVaultControl` | limits hold over several transactions and windows, with round trips and deposits; a lifetime limit has left exactly what was not taken; the vault changes only as `VaultControl` allows |
| `sessions_token` | `NoSpendAfterExpiry` | expired lists and an expired limit on a mint deny |
| `token_limits` | `SeenIsTrue`, `TokenLifetimeCap`, `TokenControlKept` | with any list of accounts, control of the vault's accounts is kept; with each account listed at most once, in any order, the outflow that Execute sees is what the vault lost, up to a supply of the largest u64, and what such Executes take of a mint together stays within its lifetime limit |
| `pda_accounts` | `NeverBlocked`, `LiveAreExempt`, `NothingLeftBehind` | lamports sent in advance block nothing; accounts in use are rent exempt; closing pays out everything |
| `formats` | `RoundTrip`, `ParseIsCanonical`, `HashBindsCalls` (compact instructions); `ExtractIsSound`, `ExtractIsComplete`, `EncodingIsFaithful` (clientDataJSON); `AcceptedMeansSigned`, `PayloadIsExact` (passkeys); `AcceptedIsExact`, `AcceptedIsValid`, `BufferHoldsActions`, `ChecksAgree` (actions buffer) | the bytes are read as what they stand for; each behaviour of the run looks at one of the four modules, which share no state |
| `kit` | `SessionsAreRevocable`, `KitImplementsVaultControl` | the whole program over one wallet: rights end by expiry, use or revocation and not with the authority that gave them, and somebody is always left who can revoke |
| `counter` | `CounterPerAuthorityIsMonotonic` | violated, see section 7 |
| `token_duplicates` | `NoLimitBypassed` | violated, see section 7 |

`WindowCap` is worth a remark. `last_reset` starts at slot 0, an elapsed window is
detected with `>` and restarts at a multiple of its length. The interval over
which the limit really holds is therefore *(kW, (k+1)W]*: slot *(k+1)W* still
belongs to the window before it. The property is stated for these intervals. It
does not hold for *[kW, (k+1)W)*: what was spent at slot *kW* was counted in the
previous window.

Each property of a passing run has a mutant: a plausible slip in one definition
(`>` for `>=`, a dropped check, a limit that is not written back) under which TLC
finds the property violated. Mutants stand directly before the definition they
alter.

## 4. Bounds

* `OpsPerSlot`, `MaxSlot`: length of the behaviours. `roles` uses one slot of seven
  instructions, which is enough for create, add, transfer, removal, re-creation
  and a use of each; the clock plays no part in these properties.
  `replay` uses three slots of two instructions, one slot more than the
  freshness window, so that stale challenges exist.
* `CounterMod`: 4 (`replay`) or 2 (`Deferred`) instead of 2^32, so that the
  odometer wraps. `OdometerAssumption` keeps the relation that matters: a
  freshness window of 150 slots cannot hold 2^32 instructions. TLC evaluates it
  in every run.
* `Ids`: two or three, the zero id among them where it matters: an Owner, a
  subordinate and a successor.
* `MIN_EXPIRY_SLOTS`, `MAX_EXPIRY_SLOTS`: one or two slots; the offsets just outside
  are submitted as well.
* `MaxBalance`, `MaxInner`: up to 3 units in the vault, two calls per Execute: take
  and pay back. Empty instruction lists are included.
* `Policies`: the action sets callers submit, chosen so that each kind of limit is
  reached, exceeded and expires, and that invalid sets are refused.
* `MaxSlot` = 7 in `sessions_sol`: three whole windows of length two.
* `deferred_windows`: two authorities, two payers, a program that runs and one that
  never can, four slots of one instruction: create, authorize, remove the
  authority or wait, then execute or reclaim.
* `token_limits`: three accounts (two of the vault, one of somebody else), two calls
  per Execute, a supply of 2 which is also the largest u64, so sums of repeated entries
  saturate; lists of up to three entries (`MaxListed`), all 39 of them, with and without
  repetitions. `token_duplicates` has lists of four entries and sums below saturation.
* `pda_accounts`: two addresses and two users with five lamports each, rent of three
  for data and one without: every balance below, at and above each threshold.
  Users are interchangeable, and addresses are (symmetry).
* `formats`: all data of up to nine digits in base 4, two instructions at most, all
  programs of up to five fields; all texts of up to nine lexemes and digests of up
  to four bytes, so that every length of a last base64 chunk occurs; two
  instructions before the program's own, with every combination of offsets that
  point right or wrong; payloads of up to eight bytes in base 3; buffers of up to
  four entries with `MAX_ACTIONS` = 3 and three slots of Executes.
* `kit`: two passkey authorities, one session key, four slots of one instruction.
  Several instructions to a transaction are in `roles`, `sessions_sol` and
  `deferred_recreate`.

At the last slot, between transactions, the models stutter (`HorizonReached`);
TLC's deadlock check is on in every run.

## 5. Fairness

Only `deferred_windows` assumes fairness, for `RentIsRecovered`: weak fairness of the clock (slots go on),
of the end of a transaction (the runtime finishes what it started) and of
reclaims by the payer. The last is the only one about a person. Reclaiming needs
nothing but the payer's signature and gives the payer their own money, and the
property says what the code has to contribute: that nothing else is needed, no
authority, no wallet, no successful execution. Nothing is assumed of
ExecuteDeferred.

## 6. What is proved

The theorems hold for every value of the constants that their assumptions allow:
any sets of wallets, ids, keys, programs, assets and accounts, every modulus,
every amount, every horizon. `Proofs` modules have the theorems and the lemmas they
rest on; what an assumption names is in the module that declares the constants, and
TLC evaluates it in every run.

### Authorities (`AuthoritiesProofs`)

| Theorem | States | Argument |
|---|---|---|
| `TypeCorrect` | `[]TypeOK` | per action; `OdometerTyping` bounds the counter |
| `LifecycleHolds` | `Lifecycle` | `StepEffect`: all a step may do to an account is nothing, one use, creation on a vacant one, closing a live one, deletion of a closed one; `ClosedAreBlank` says that zeroed accounts are blank |
| `OwnerRemains` | `[]HasOwner` | `OwnerLeaves`: an Owner goes only in a step that creates another one |
| `ControlRemains` | `ControlIsKept` | `OwnerLeaves` gives a successor whose id is not zero |
| `HierarchyHolds` | `RoleHierarchy` | `AuthorityAppears`, `AuthorityLeaves`, `OwnerLeaves` |
| `ReplayProtection` | `[]NoReplay` | below |

*Assumptions.* `ConstantsAssumption` (types of the constants) and, for
`ReplayProtection`, `OdometerAssumption`: `OpsPerSlot * MaxSlotAge <= CounterMod`.

*Any use.* The lemmas are about `AnySpec`: the actions of `Authorities` and, besides, a
use of an authority by any instruction with any payload. `Spec` implies it, and so do
the specifications of `Deferred`, `Sessions` and `LazorKit`, whose instructions use
authorities in ways of their own. Whatever is proved of `AnySpec` therefore holds in
them without a second proof.

*Replay.* `NoReplay` is not inductive: it does not say why a counter cannot come
back too early. `ReplayInv` adds, for every live account, that its counter is
the number of its uses modulo `CounterMod` (`Turned`), and for every assertion of
its present life (`EntryInv`) that it was not signed after its acceptance, that
its counter is the odometer's at its ordinal, and that *the uses since then are
fewer than the instructions the slots since then can hold*. A new assertion
equal to an old one would have the same counter, so at least `CounterMod` uses
lie between them (`WholeTurn`); being fresh, it was accepted less than
`MaxSlotAge` slots after the old one; and so few slots hold fewer than
`CounterMod` instructions (`Capacity`): a contradiction (`FreshChallenge`). The
two comparisons in `auth/secp256r1/mod.rs`, of the slot and of the counter, are
both needed, which is why the mutant that changes `>=` to `>` breaks the property.

`NoReplay` speaks of one life of an account. Across lives it is false, see section 7.

### Deferred execution (`DeferredProofs`)

| Theorem | States |
|---|---|
| `DeferredKeepsAuthorities` | `[]TypeOK`, `[]HasOwner`, `[]NoReplay` under `DeferredSpec` |
| `DeferredTypeCorrect` | `[]DeferredTypeOK` |
| `SettledExactlyOnce` | `[]SettledOnce` |
| `WindowsHold` | `[]WindowsAreDisjoint` |
| `ExecutionsAreSigned` | `[]ExecutedAsSigned` |
| `DeferredImplementsAuthorities` | `ImplementsAuthorities` |

*Assumption.* `DeferredAssumption`: among others, that what `Authorize` signs over is one
of the payloads.

*Invariant.* `SettledOnce` alone says nothing about how an account, whose address can
come back, and a history are related. `DeferredInv` adds: grants are numbered without a
repetition (`Histories`); every live account holds one of them as it was stored
(`LiveHoldGrants`); closed accounts hold none (`ClosedHoldNothing`), so that deleting them
loses none; and a grant is held by its account exactly while no settlement names it
(`Settlements`). The step that could break this is a second `Authorize` at the address of
a pending one. `Stores` shows what prevents it: only an account without data can be
allocated. All steps of the module either store, settle, delete closed accounts or leave
these variables alone, so each conjunct is shown for three kinds of steps
(`StoresKeeps`, `SettlesKeeps`, `RemoveDeferredKeeps`).

*Signatures.* `ExecutedAsSigned` needs that each *grant* was signed, when it was stored
and still (`GrantsAreSigned`): an accepted assertion over the instructions and the offset
from which, with the slot of its acceptance, the expiry was computed.

*Refinement.* `Deferred` implements `Authorities` with the identity as its mapping: an
`Authorize` is a `UseAuthority`, executions and reclaims are stutters.

### Sessions (`SessionsProofs`)

| Theorem | States |
|---|---|
| `SessionsKeepAuthorities` | `[]TypeOK`, `[]HasOwner`, `[]NoReplay` under `SessionSpec` |
| `SessionTypeCorrect` | `[]SessionTypeOK`; in particular, no limit is charged below zero |
| `LifetimeCapHolds`, `WindowCapHolds`, `PerTxCapHolds` | `[]LifetimeCap`, `[]WindowCap`, `[]PerTxCap` |
| `ExpiryHolds` | `[]NoSpendAfterExpiry` |

*Assumption.* `SessionsAssumption`: types, and that what `CreateSession` signs over is one
of the payloads. Nothing is assumed of the submitted action sets: that a set holds at most
one limit per kind and asset, and that windows start at slot 0, is what `ValidActions`
checks and what the proof takes from it (`GrantIsValid`).

*Invariant.* None of the caps is inductive, because a cap says nothing about the amounts
in the account that the next Execute will compare with. `SessionInv` relates each action
in the account to the granted one it descends from (`Tracked`, `Descends`):

* lifetime: *what was taken and what is left add up to what was granted*;
* recurring: the account's `spent` is at least what the history counts in its current
  window, and `last_reset` is a multiple of the window that is no earlier than that
  one (`Aligned`). An elapsed window is detected with `>`, so `last_reset` may lag behind
  the slot's window or lie on its lower border; `ElapsedIsLater` and `OpenIsCurrent` are
  the two cases. This is why the cap holds on *(kW, (k+1)W]* and on no other intervals;
* all other actions are as they were granted.

While calls run (`ExecutionInv`), the gross outflow counted call by call is at least as
far as the vault was drawn down at *any* moment, which the per-transaction limit needs: a
vault that is drained and refilled within one Execute shows no net change. And the
session is live with a whitelist that is not wholly expired if anything has moved
(`MayCallSomething`), which with `Timely` gives `NoSpendAfterExpiry`.

### The whole program (`KitProofs`)

| Theorem | States |
|---|---|
| `LeftStaysExact` | `[]LeftIsExact` under `SessionSpec` |
| `SessionsImplementVaultControl` | `ImplementsVaultControl` |
| `KitKeepsAuthorities` | `[]TypeOK`, `[]HasOwner`, `[]NoReplay` under `KitSpec` |
| `KitKeepsRoles` | `ImplementsAuthorities`, `Lifecycle`, `ControlIsKept`, `RoleHierarchy` under `KitSpec` |
| `KitKeepsDeferred` | the invariants of `Deferred` under `KitSpec` |
| `KitKeepsSessions` | the properties of `Sessions` under `KitSpec` |
| `KitImplementsControl` | `KitImplementsVaultControl` |

*Composition.* The proofs about `Deferred` and `Sessions` do not use that their modules'
steps are the only ones. `AnyDeferred` and `SessionEffect` state how much of the rest of the
program they bear: any use of authorities, and any move of a vault while no session's
calls run. `KitStepDeferred` and `KitStepSession` show that a step of the composition is
both, so the invariants carry over, and what is true of each part is true of the program.
`ExecuteDeferred` may empty a vault while sessions have budgets left; the caps speak of
what a *session* takes and are not disturbed.

*Refinement.* `SessionsImplementVaultControl` and `KitImplementsControl` map the states step
by step: instructions with an authority to the abstract act, creation and revocation to
granting and lapsing, calls and aborts to stutters (`held` is the vault as it was before
them), and `SessionCommit` to one abstract spending. The abstract step may take no more
than what is left of each budget; that the account's amounts are the abstract budgets is
`BudgetsAddUp`, a consequence of `SessionInv`. With deferred executions, the set of pending
authorizations shrinks when one is used or expires and grows with `Authorize`;
`PendingUsed` rests on `DeferredInv`, as only unsettled grants are pending.

### Token accounts (`BalanceProofs`, `DataInduction`)

| Theorem | States |
|---|---|
| `SeenStaysTrue` | `[]SeenIsTrue` |
| `TokenControlHolds` | `TokenControlKept` |
| `TokenLifetimeCapHolds` | `[]TokenLifetimeCap` |

*Assumption.* `TokenAssumption`. Lists are any, with repetitions too. The two properties
about amounts speak of lists that name every account once (`ListedOnce`): without that
condition they are false (run `token_duplicates`, section 7).

*Sums.* What the program adds up along a list, the vault has lost over a set. A sum over a
set is a fold, a recursive function over subsets, and the library's induction rules
take a property as an operator, which the provers cannot instantiate. `DataInduction`
takes it as a *set*: the set of the indices, or of the subsets, for which the claim
holds. From the well-foundedness of the naturals (`Least`) it derives `Induction` and
`SubsetInduction`, that a fold over finite sets exists whatever element is chosen at
each step (`FoldExists`, `SumIsFold`), and how sums behave: independence of the order,
monotony, parts, two changed entries, a moved amount, a sum along a list that names
each element once (`SumStep`, `SumMonotone`, `SumOfPart`, `SumOfPair`, `SumMoved`,
`SumIndexed`).

*Invariant.* `TokenInv`: the ledger holds no more of a mint than the largest u64, and while
an Execute runs its snapshots are those of the accounts before the calls, which have
only touched accounts of the list. A transfer moves an amount within the ledger
(`LedgerMoved`), every other call rewrites one account without coins or control
(`LedgerRewritten`). The saturating fold of `FindTokenBalance` is the sum
along the list, cut off at the largest u64 (`SaturatedSum`, `BalanceOfList`); over a list
without repetitions that is the sum over the set, and as no mint exceeds the largest u64
nothing is cut off (`BalanceIsSum`). Accounts outside the list have not changed, so
the difference over the list is that over all of the vault's accounts (`OutflowSeen`).

*Charging.* `TokenLifetimeCap` is not inductive; `LimitsKept` is: of every lifetime limit,
what was taken and what is left come to no more than was granted. Every Execute takes
some number of a mint off its limit, whatever the list, and that number is no less than
what is added to `taken` (`CommitCharges`): the two are equal if the list names each account
once, and otherwise nothing is added.

### Compact instructions (`FormatProofs`, `DataInduction`)

| Theorem | States | Rests on |
|---|---|---|
| `ProgramParsesBack` | `[]RoundTrip` | `ParsesBack`: the same for a payload of any length |
| `ParseStaysCanonical` | `[]ParseIsCanonical` | `ParsedIsWritten` |
| `HashAlwaysBinds` | `[]HashBindsCalls` | `KeysBindCalls`: the same for any two lists of accounts |

*Assumptions.* `CompactAssumption`, `ProgramAssumption`, `AccountsAssumption`. The base of a
byte, the number of instructions, accounts and bytes of data are any.

*Loops.* Parser, serialiser and hash are folds along a list. A fold is a recursive function
over sets of indices; `FoldIsLoop` gives the list of its intermediate results, each made
from the one before, and `LoopInvariant` is induction along that list.

*One instruction.* `WrittenIsRead` and `ReadIsWritten`: `FromBytes` and `ToBytes` are
inverse, with the rest of the data as it was. Both cut the bytes at the same four places
(`PartsInPlace`, `CutAtFour`), and two digits are a number in one way only (`TwoDigits`,
`DigitsOf`).

*Along the list.* `WritingIsConcat`: the serialiser lays the instructions end to end. After
*k* steps the parser of a client's bytes has the first *k* instructions, and what the
remaining ones wrote is still to be read (`ParsesBack`). Of arbitrary bytes, what the
accepted steps wrote and what is left make up the input (`ParsedIsWritten`).

*Hash.* `NamingIsConcat` does the same for the keys. Nothing in the hashed bytes separates
two instructions; they bind the calls because the signed instructions themselves fix how
many keys each one names: two concatenations that are equal and cut at the same places
have equal pieces (`SamePieces`, `NamedByOne`).

*Invariant.* `CompactTypeCorrect`: the client's program stays one that the format has bytes
for. `MaxProgram` bounds the size of the whole program, and `SizeIsSum`, `DataFits` derive
that no field is too long for its length.

### The actions buffer (`BufferProofs`, `DataInduction`)

| Theorem | States |
|---|---|
| `BufferKeepsLayout` | `[]BufferInv` |
| `AcceptedStaysExact` | `[]AcceptedIsExact` |
| `AcceptedStaysValid` | `[]AcceptedIsValid` |
| `BufferStaysTrue` | `[]BufferHoldsActions` |
| `ChecksStayEqual` | `[]ChecksAgree` |

*Assumptions.* `KeysAssumption`, `BufferAssumption`. The length of the buffer, the number of
actions, the amounts and the slots are any.

*Invariant.* `BufferHoldsActions` is not inductive: it does not say that the next write stays
within the field it is meant for. `BufferInv` says that the buffer has a *layout*
(`IsLayout`: entries end to end from the first cell to the last, each with a type, an expiry
and a length), that the data of each entry is *sound* (`Sound`: it has the length of its
type, its key and its limit are what a client can write, its window is not empty), and that
read through the layout it gives the records (`HoldsRecords`). Before the session is created
the buffer is whatever the client wrote.

*Parser.* `ParserExists` and `ParserLooksBack` turn the recursion into an induction over the
cells still to be read; `ParsedIsLayout` and `LayoutIsParsed` show that the parser accepts
exactly the lists of cells with a layout, and returns it. There is one layout at most, so
the views found before the calls are those found after them.

*Writing in place.* `WriteInPlace`: a cell in the data of one action is not in the header, nor
in the data, of any other (`BordersRise`), so a write there leaves the layout and all other
actions as they were. With it `WriteBackCharges` shows for one action, kind by kind, that
what is written is what `Charge` of the records does; the cases are the limit written or not,
and the window elapsed or not. `WriteAllCharges` is the loop over all limits: action by
action, what was written before does not change what is still to be written, because the
spending is measured before the loop and the views do not move.

*Reading.* `ChecksAreAllows`: the two checks read the same numbers, up to the saturating
addition, which is exact where the limit is below the largest u64.

### clientDataJSON (`FormatProofs`, `DataInduction`)

| Theorem | States | Rests on |
|---|---|---|
| `ScannerFollowsGrammar` | `[]ClientInv` | one lemma per lexeme, such as `KeyHolds` and `CloseHolds` |
| `ExtractStaysSound` | `[]ExtractIsSound` | `FoundIsSound` |
| `ExtractStaysComplete` | `[]ExtractIsComplete` | `FoundIsComplete` |
| `EncodingStaysFaithful` | `[]EncodingIsFaithful` | `DigestReadsBack`: the same for any list of bytes |

*Assumption.* `ClientDataAssumption`. Strings, names, texts, the depth of nesting and digests
are any.

*The scanner as a loop.* `Extract` is a fold over the bytes; `ScanIsLoop` makes a run of it,
one state for each byte, and `ScannedIsExtracted` says that Extract returns what any such
run ends with. `ScannedByte` and `ScannedAlong` go on with it by a byte and by a word.

*Strings.* `StringIsRead`: each loop over a string takes it to its end and no further, or
ends in an error at its first escape. A quote inside a string comes after an escape, so it
is never reached; without that argument a quoted quote would end the string.

*The inductive invariant.* Neither property is inductive: what the scanner has found says
nothing of where it is. `ClientInv` adds the grammar (`Fit`: an object is at the top, and
a value is expected there only after a key) and, for each name, that the scanner is in one
of three cases (`Tells`). It is on its way, in the loop and at the depth that belong to
what the grammar expects (`Position`), and no member so far has the name or could have it
(`Passed`). Or it has found the first member of the name (`FoundIn`). Or it has refused the
text, for an escape or for a first member that is no string (`Refused`). From the first
case every lexeme leads to one of the three; from the other two nothing leads out
(`SettledStays`).

*Base64url.* `DigitsOfBytes` and `BytesOfDigits` are about 24 bits: four digits of six
bits, each with its share of one byte or of two. `ChunkReadsBack` derives from them that
chunks of one, two and three bytes are read back, with zeros where a chunk is short.
The encoder puts the digits of one chunk behind those of another (`EncodingIsConcat`); as
only the last chunk is short (`ChunkCount`), those of the *p*-th start behind *4(p - 1)*
others (`DigitsLaidOut`), which is where `Decode` looks for its bytes (`ByteInChunk`).

### Lamports and passkeys (`BalanceProofs`, `FormatProofs`)

| Theorem | States | Argument |
|---|---|---|
| `LiveStayExempt` | `[]LiveAreExempt` | `Exemption`: the account that is being initialised has its rent from the first of the three calls on, and only the last puts it in use |
| `NothingStaysBehind` | `[]NothingLeftBehind` | `Accountability`: a zeroed account with lamports has been paid since it was closed, or is the one being initialised |
| `AcceptedWasSigned` | `[]AcceptedMeansSigned` | the checks pin the offsets to the instruction's own data, so the precompile read the cells the program read (`PrecompileReads`, `MessageRead`) |
| `PayloadStaysExact` | `[]PayloadIsExact` | positional notation for any base (`TwoDigits`), and the parts of a payload laid end to end (`FiveParts`) |

*Assumptions.* `PdaAssumption`, `PasskeyAssumption`.

### Only model-checked

Out of the provers' reach, and left to TLC for good: liveness (`RentIsRecovered`) and
properties with `ENABLED` (`SessionsAreRevocable`, `NeverBlocked`). All other properties of
the passing runs are stated by a theorem.

## 7. Where code and documents disagree

* **The counter of an authority is not monotonic over its removal.** The header
  comment in `state/authority.rs` and the repository's README speak of a
  monotonically increasing counter per authority. `AddAuthority`,
  `TransferOwnership` and `CreateWallet` write `counter: 0`, also at an address
  that had an authority before. Run `counter` shows an account that accepts two
  assertions with the same counter, before and after it was removed and added
  again.
* **An account that is listed twice counts twice.** The comment on
  `find_token_balance` (`execute_actions.rs:603`) says that it is the total over all token
  accounts of the mint that the vault owns, and that summing every match keeps the token
  limits from being bypassed. The code adds every matching entry of the account list, and
  nothing keeps an account from being listed more than once. The sum over such a list
  moves by more than the vault's balance, if coins leave an account that is listed twice,
  or by less, if coins go there from another account of the vault. Run `token_duplicates`
  shows the second: the vault holds 4 in A, the limit has 1 left, the list is A, B, B, C. The
  calls move 1 from A to B and 2 from A to C, which is not the vault's; the sum falls from
  4 to 3, all checks pass, and the vault has lost 2. If every account is listed once, sum and
  balance agree and the limit holds (`token_limits`). The same goes for the per-transaction
  and the recurring limits of a mint, which compare the same number.

Remarks without a run:

* The comment on `ReclaimDeferred` (`reclaim_deferred.rs:15`) says that rent is
  refunded to the original payer. The code requires that payer's signature and
  credits the account passed as destination, whichever it is.
  `ExecuteDeferred` does compare the two.
* The older 40-byte form of CreateSession's arguments is recognised only when
  nothing follows it (`create_session.rs`, `ParsedCreateSessionArgs`), that is, for
  authorities without a payload.
* `to_bytes` cuts the length of the data to a u16. It runs on the client; no
  transaction is that large.
* The comparison of control covers the accounts that were the vault's when the
  calls began. One that becomes the vault's during the calls is not looked at,
  and `TokenControlKept` is stated accordingly.

## 8. What is not modelled

* `no-padding` (a compile-time macro), `instruction.rs` and `error.rs` (interface
  descriptions): no behaviour.
* `assertions`: the check for zeroed data is modelled, the comparisons of owner,
  signer and seeds hold by how the models name accounts and choose signers.
* Cryptography: signatures are unforgeable and SHA-256 is injective.
* Tokens of a vault one by one in `Sessions` and `LazorKit`: a mint is one number there, and
  `LifetimeCap`, `WindowCap`, `PerTxCap`, `NoSpendAfterExpiry`, `LeftIsExact` and the
  refinements of `VaultControl` say of mints what holds when every Execute lists each token
  account of the vault once. `TokenAccounts` has lifetime limits of mints without that
  simplification; recurring and per-transaction limits of mints are not stated there.
* Token-2022 extensions: a token account has the fields the program reads.
* Limits of the runtime: compute units, transaction size, stack depth beyond the
  check of the stack height in the authenticator.

## 9. Plan

All components that change state are modelled and checked, and their safety invariants,
action properties and refinements are proved. What a change of the code asks for: its
definition, the run that checks it, and the lemmas about it, in this order.
