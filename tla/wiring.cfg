\* Each contract told the right address of the other or a wrong one, at which there
\* may be a contract that accepts every freeze and asks for any close: one payout,
\* and room for a second record over it.
CONSTANTS
    Null = Null
    I128_MAX = 1000000
    U64_MAX = 1000
    Businesses = {b1}
    Creators = {r1}
    Admins = {a1}
    Treasuries = {}
    DisputeContracts = {dispute, elsewhere}
    EscrowContract = escrow
    Tokens = {usdc}
    MAX_CAMPAIGNS = 1
    MAX_TIME = 2
    EMERGENCY_RECOVERY_GRACE_PERIOD = 1
    MIN_EVIDENCE_WINDOW = 1
    MAX_UPDATED_FEE = 1000
    InitialFunds = 5
    MayBeBarred = {}
    InitialFees = {5000}
    NewFees = {}
    Budgets = {3}
    CreatorCounts = {1}
    Deadlines = {1, 2}
    Briefs = {""}
    Payouts = {2}
    Proofs = {p1}
    Splits = {}
    DisputeContract = dispute
    EscrowContracts = {escrow, elsewhere}
    Arbiters = {}
    Reasons = {"reason"}
    MAX_DISPUTES = 2
SPECIFICATION FeedSpec
INVARIANTS SystemTypeOK OpenDisputeIsFrozen FeedReconciles
PROPERTY RecordMatchesSettlement
