\* With every party acting, a funded escrow empties.
CONSTANTS
    Null = Null
    I128_MAX = 1000000
    U64_MAX = 1000
    Businesses = {b1}
    Creators = {r1, r2}
    Admins = {a1}
    Treasuries = {}
    DisputeContracts = {d1}
    EscrowContract = escrow
    Tokens = {usdc}
    MAX_CAMPAIGNS = 1
    MAX_TIME = 4
    EMERGENCY_RECOVERY_GRACE_PERIOD = 1
    MIN_EVIDENCE_WINDOW = 1
    MAX_UPDATED_FEE = 1000
    InitialFunds = 4
    MayBeBarred = {r1}
    InitialFees = {5000}
    NewFees = {}
    Budgets = {4}
    CreatorCounts = {2}
    Deadlines = {1, 2}
    Briefs = {"brief"}
    Payouts = {2}
    Proofs = {p1}
    Splits = {}
SPECIFICATION AllFairSpec
PROPERTY EscrowDrains
