\* Two addresses, two users, rent of three lamports.
CONSTANTS
    Pdas = {p, q}
    Users = {u, v}
    Rent = 3
    EmptyRent = 1
    InitialLamports = 5
SYMMETRY SymmetricAccounts
SPECIFICATION PdaSpec
INVARIANTS NeverBlocked LiveAreExempt NothingLeftBehind
