\* A dispute raised and settled, with an id left for another.
CONSTANTS
    Null = Null
    I128_MAX = 1000000
    U64_MAX = 1000
    Businesses = {b1}
    Creators = {r1}
    Admins = {a1}
    Treasuries = {}
    DisputeContracts = {dispute}
    EscrowContract = escrow
    Tokens = {usdc}
    MAX_CAMPAIGNS = 1
    MAX_TIME = 3
    EMERGENCY_RECOVERY_GRACE_PERIOD = 0
    MIN_EVIDENCE_WINDOW = 1
    MAX_UPDATED_FEE = 1000
    InitialFunds = 5
    MayBeBarred = {}
    InitialFees = {5000}
    NewFees = {}
    Budgets = {5}
    CreatorCounts = {1}
    Deadlines = {1, 2}
    Briefs = {"brief"}
    Payouts = {2}
    Proofs = {p1}
    Splits = {5000}
    DisputeContract = dispute
    EscrowContracts = {escrow}
    Arbiters = {j1}
    Reasons = {"", "reason"}
    MAX_DISPUTES = 2
SPECIFICATION SystemSpec
INVARIANT FreshDisputeAfterClose
