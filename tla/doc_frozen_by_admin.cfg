CONSTANTS
    Null = Null
    I128_MAX = 1000000
    U64_MAX = 1000
    Businesses = {b1}
    Creators = {r1}
    Admins = {a1, a2}
    Treasuries = {}
    DisputeContracts = {dispute}
    EscrowContract = escrow
    Tokens = {usdc}
    MAX_CAMPAIGNS = 1
    MAX_TIME = 3
    EMERGENCY_RECOVERY_GRACE_PERIOD = 1
    MIN_EVIDENCE_WINDOW = 1
    MAX_UPDATED_FEE = 1000
    InitialFunds = 5
    MayBeBarred = {}
    InitialFees = {5000}
    NewFees = {0}
    Budgets = {5}
    CreatorCounts = {2}
    Deadlines = {1, 2}
    Briefs = {"brief"}
    Payouts = {2}
    Proofs = {p1}
    Splits = {5000}
    DisputeContract = dispute
    EscrowContracts = {escrow}
    Arbiters = {j1}
    Reasons = {"", "reason"}
    MAX_DISPUTES = 2
SPECIFICATION SystemSpec
INVARIANT FrozenOnlyByDispute
