\* Lamport limits over several windows, one session key.
CONSTANTS
    Wallets = {w}
    Ids = {a}
    ZeroId = zero
    PasskeyKeys = {}
    AuthTypes = {0}
    SubmittedUses = {}
    Payloads <- SolPayloads
    MaxSlotAge = 1
    CounterMod = 2
    OpsPerSlot = 2
    MaxSlot = 7
    MAX_ACTIONS = 2
    Assets = {"SOL"}
    CallPrograms = {P}
    P = P
    Q = Q
    SessionKeys = {k}
    Policies <- SolPolicies
    ThisProgram = self
    MAX_SESSION_SLOTS = 7
    MaxInner = 2
    MaxBalance = 3
SPECIFICATION SessionSpec
INVARIANTS SessionTypeOK LifetimeCap WindowCap PerTxCap NoSpendAfterExpiry LeftIsExact
PROPERTY ImplementsVaultControl
