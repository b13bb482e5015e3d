\* One passkey wallet over four slots: sessions and authorizations expire.
CONSTANTS
    Wallets = {w}
    Ids = {a, b}
    ZeroId = zero
    PasskeyKeys = {k}
    AuthTypes = {1}
    SubmittedUses = {}
    Payloads <- KitPayloads
    MaxSlotAge = 1
    CounterMod = 2
    OpsPerSlot = 1
    MaxSlot = 3
    Programs = {x}
    SelfCalling = {}
    Payers = {u}
    MIN_EXPIRY_SLOTS = 1
    MAX_EXPIRY_SLOTS = 1
    MAX_ACTIONS = 1
    Assets = {"SOL"}
    CallPrograms = {P}
    SessionKeys = {t}
    Policies <- KitPolicies
    ThisProgram = self
    MAX_SESSION_SLOTS = 2
    MaxInner = 1
    MaxBalance = 1
SPECIFICATION KitSpec
INVARIANT SessionsAreRevocable
PROPERTY KitImplementsVaultControl
