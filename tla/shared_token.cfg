\* Two campaigns of two businesses held in one token balance.
CONSTANTS
    Null = Null
    I128_MAX = 1000000
    U64_MAX = 1000
    Businesses = {b1, b2}
    Creators = {r1}
    Admins = {a1}
    Treasuries = {}
    DisputeContracts = {d1}
    EscrowContract = escrow
    Tokens = {usdc}
    MAX_CAMPAIGNS = 2
    MAX_TIME = 3
    EMERGENCY_RECOVERY_GRACE_PERIOD = 0
    MIN_EVIDENCE_WINDOW = 1
    MAX_UPDATED_FEE = 1000
    InitialFunds = 3
    MayBeBarred = {}
    InitialFees = {5000}
    NewFees = {}
    Budgets = {3}
    CreatorCounts = {1}
    Deadlines = {1, 2}
    Briefs = {"", "brief"}
    Payouts = {2}
    Proofs = {p1}
    Splits = {}
SPECIFICATION Spec
SYMMETRY BusinessSymmetry
INVARIANTS Solvency
PROPERTIES BriefLocked
