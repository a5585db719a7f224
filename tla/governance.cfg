\* Fee, treasury, admin and pause change at any moment under one payout, read by an indexer.
CONSTANTS
    Null = Null
    I128_MAX = 1000000
    U64_MAX = 1000
    Businesses = {b1}
    Creators = {r1}
    Admins = {a1, a2}
    Treasuries = {escrow, t1}
    DisputeContracts = {dispute}
    EscrowContract = escrow
    Tokens = {usdc}
    MAX_CAMPAIGNS = 1
    MAX_TIME = 4
    EMERGENCY_RECOVERY_GRACE_PERIOD = 1
    MIN_EVIDENCE_WINDOW = 1
    MAX_UPDATED_FEE = 1000
    InitialFunds = 25
    MayBeBarred = {}
    InitialFees = {5000}
    NewFees = {1000, 1001}
    Budgets = {25}
    CreatorCounts = {1}
    Deadlines = {1, 2}
    Briefs = {"brief"}
    Payouts = {20}
    Proofs = {p1}
    Splits = {3333}
    DisputeContract = dispute
    EscrowContracts = {}
    Arbiters = {}
    Reasons = {"", "reason"}
    MAX_DISPUTES = 1
SPECIFICATION FeedSpec
INVARIANTS FeedReconciles StatementsMatch
PROPERTIES PaidOnAgreedTerms PauseHolds SurplusReturnsToBusiness
