\* Authorities that are closed and created again, an odometer that wraps.
CONSTANTS
    Wallets = {w}
    Ids = {zero, a}
    ZeroId = zero
    PasskeyKeys = {k}
    AuthTypes = {1}
    SubmittedUses = {}
    Payloads <- MCPayloads
    MaxSlotAge = 1
    CounterMod = 2
    OpsPerSlot = 2
    MaxSlot = 2
    Programs = {x}
    SelfCalling = {}
    Payers = {u}
    MIN_EXPIRY_SLOTS = 1
    MAX_EXPIRY_SLOTS = 1
SPECIFICATION DeferredSpec
INVARIANTS DeferredTypeOK SettledOnce
PROPERTY ImplementsAuthorities
