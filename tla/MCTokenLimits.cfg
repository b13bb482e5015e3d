\* Three accounts, lists that name some of them twice or leave some out; the supply of the
\* mint is the largest u64.
CONSTANTS
    MAX_ACTIONS = 2
    Assets = {"SOL", "mint"}
    CallPrograms = {}
    A = A
    B = B
    C = C
    W = W
    K = K
    TokenAccts = {A, B, C}
    Session <- MCSession
    Policies <- MCPolicies
    InitialTokens <- MCInitialTokens
    U64Max = 2
    MaxListed = 3
    MaxCalls = 2
    MaxSlot = 1
SPECIFICATION TokenSpec
INVARIANTS SeenIsTrue TokenLifetimeCap
PROPERTY TokenControlKept
