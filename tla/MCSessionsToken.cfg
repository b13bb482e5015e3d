\* Program lists, a mint, control of the vault's accounts.
CONSTANTS
    Wallets = {w}
    Ids = {a}
    ZeroId = zero
    PasskeyKeys = {}
    AuthTypes = {0}
    SubmittedUses = {}
    Payloads <- TokenPayloads
    MaxSlotAge = 1
    CounterMod = 2
    OpsPerSlot = 2
    MaxSlot = 2
    MAX_ACTIONS = 2
    Assets = {"SOL", "mint"}
    CallPrograms = {P, Q, self}
    P = P
    Q = Q
    SessionKeys = {k}
    Policies <- TokenPolicies
    ThisProgram = self
    MAX_SESSION_SLOTS = 4
    MaxInner = 2
    MaxBalance = 2
SPECIFICATION SessionSpec
INVARIANT NoSpendAfterExpiry
