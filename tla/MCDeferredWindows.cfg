\* Two authorities, two payers, and an instruction list that can
\* never run.
CONSTANTS
    Wallets = {w}
    Ids = {a, b}
    ZeroId = zero
    PasskeyKeys = {k}
    AuthTypes = {1}
    SubmittedUses = {}
    Payloads <- MCPayloads
    MaxSlotAge = 2
    CounterMod = 2
    OpsPerSlot = 1
    MaxSlot = 3
    Programs = {x, self}
    SelfCalling = {self}
    Payers = {u, v}
    MIN_EXPIRY_SLOTS = 1
    MAX_EXPIRY_SLOTS = 1
SPECIFICATION DeferredFairSpec
INVARIANTS ExecutedAsSigned WindowsAreDisjoint
PROPERTY RentIsRecovered
