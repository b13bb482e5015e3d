\* What the documentation says of the counter, against the re-creation of an
\* authority at the same address.  The odometer cannot wrap in this horizon.
CONSTANTS
    Wallets = {w}
    Ids = {zero, a}
    ZeroId = zero
    PasskeyKeys = {k}
    AuthTypes = {1}
    SubmittedUses = {"Execute"}
    Payloads = {p}
    MaxSlotAge = 2
    CounterMod = 16
    OpsPerSlot = 7
    MaxSlot = 1
SPECIFICATION Spec
INVARIANT CounterPerAuthorityIsMonotonic
