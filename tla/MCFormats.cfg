\* Every data of at most nine bytes and every program of at most five; every
\* text of at most nine lexemes and every digest of at most four bytes; two
\* instructions before the program's own and payloads of at most eight bytes;
\* buffers of at most four actions or stray cells.
SPECIFICATION FormatsSpec
CONSTANTS
    K1 = K1
    K2 = K2
    Base = 4
    MaxInstructions = 2
    AccountLists <- MCAccountLists
    MaxData = 9
    MaxPayload = 1
    MaxProgram = 5
    Strings <- MCStrings
    Fields <- MCFields
    DigestBytes <- MCDigestBytes
    MaxLexemes = 9
    MaxDigest = 4
    K = K
    L = L
    SK = SK
    SN = SN
    SL = SL
    Rp = Rp
    Up = Up
    No = No
    H = H
    G = G
    StoredKey = K
    StoredRp = Rp
    Signatures = {SK, SN, SL}
    Says <- MCSays
    AuthDatas <- MCAuthDatas
    Hashes = {H, G}
    Present = {Up}
    OtherData <- MCOtherData
    PrecompileData <- MCPrecompileData
    PayloadBase = 3
    MaxAuthPayload = 8
    M = M
    N = N
    Q = Q
    MAX_ACTIONS = 3
    Assets = {"SOL", M, N}
    CallPrograms <- MCPrograms
    KeyCell <- MCKeyCell
    Candidates <- MCCandidates
    StrayCells = {0, 1}
    Payloads <- MCPayloads
    MaxBufferSize = 17
    MaxBuffer = 4
    MaxSpend = 2
    U64Max = 12
    MaxSlot = 3
INVARIANTS
    RoundTrip ParseIsCanonical HashBindsCalls
    ExtractIsSound ExtractIsComplete EncodingIsFaithful
    AcceptedMeansSigned PayloadIsExact
    AcceptedIsExact AcceptedIsValid BufferHoldsActions ChecksAgree
