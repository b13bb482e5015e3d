\* Replay: one wallet, passkeys, an odometer that wraps within the horizon.
CONSTANTS
    Wallets = {w}
    Ids = {zero, a}
    ZeroId = zero
    PasskeyKeys = {k}
    AuthTypes = {1}
    SubmittedUses = {"Execute", "CreateSession"}
    Payloads = {p}
    MaxSlotAge = 2
    CounterMod = 4
    OpsPerSlot = 2
    MaxSlot = 2
SPECIFICATION Spec
INVARIANT NoReplay
