\* Both contracts, the escrow told the right address of the other or a wrong one, two
\* payouts under dispute at once, and an indexer that reads their events only.
CONSTANTS
    Null = Null
    I128_MAX = 1000000
    U64_MAX = 1000
    Businesses = {b1}
    Creators = {r1, r2}
    Admins = {a1}
    Treasuries = {}
    DisputeContracts = {dispute, elsewhere}
    EscrowContract = escrow
    Tokens = {usdc}
    MAX_CAMPAIGNS = 1
    MAX_TIME = 2
    EMERGENCY_RECOVERY_GRACE_PERIOD = 1
    MIN_EVIDENCE_WINDOW = 1
    MAX_UPDATED_FEE = 1000
    InitialFunds = 5
    MayBeBarred = {}
    InitialFees = {5000}
    NewFees = {}
    Budgets = {5}
    CreatorCounts = {2}
    Deadlines = {1, 2}
    Briefs = {""}
    Payouts = {2}
    Proofs = {p1}
    Splits = {5000}
    DisputeContract = dispute
    EscrowContracts = {escrow}
    Arbiters = {j1}
    Reasons = {"", "reason"}
    MAX_DISPUTES = 2
SPECIFICATION FeedSpec
SYMMETRY CreatorSymmetry
INVARIANTS OpenDisputeIsFrozen OneDisputePerPayout FeedReconciles
PROPERTIES RecordMatchesSettlement PublicNotice DisputesKeepPromises
