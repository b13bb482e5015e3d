\* Roles: two wallets, Ed25519 keys only, several instructions per slot.
CONSTANTS
    Wallets = {w1, w2}
    Ids = {zero, a, b}
    ZeroId = zero
    PasskeyKeys = {}
    AuthTypes = {0}
    SubmittedUses = {"Execute", "CreateSession"}
    Payloads = {p}
    MaxSlotAge = 1
    CounterMod = 7
    OpsPerSlot = 7
    MaxSlot = 0
SYMMETRY Symmetric
SPECIFICATION Spec
INVARIANTS TypeOK HasOwner
PROPERTIES ControlIsKept RoleHierarchy Lifecycle
