\* Accounts that occur more than once in the list of Execute.
CONSTANTS
    MAX_ACTIONS = 2
    Assets = {"SOL", "mint"}
    CallPrograms = {}
    A = A
    B = B
    C = C
    W = W
    K = K
    TokenAccts = {A, B, C}
    Session <- MCSession
    Policies <- SmallPolicies
    InitialTokens <- OneFullAccount
    U64Max = 8
    MaxListed = 4
    MaxCalls = 2
    MaxSlot = 1
SPECIFICATION TokenSpec
INVARIANT NoLimitBypassed
