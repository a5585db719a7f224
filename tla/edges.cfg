\* Amounts and timestamps near the end of their types, and a token that may refuse
\* the creators and the treasury at any moment: an i128 that a payout of 4 at a fee
\* of 5000 bps just overflows, a u64 that a recovery deadline and a window can pass.
CONSTANTS
    Null = Null
    I128_MAX = 19999
    U64_MAX = 4
    Businesses = {b1}
    Creators = {r1, r2}
    Admins = {a1}
    Treasuries = {}
    DisputeContracts = {d1}
    EscrowContract = escrow
    Tokens = {usdc}
    MAX_CAMPAIGNS = 1
    MAX_TIME = 4
    EMERGENCY_RECOVERY_GRACE_PERIOD = 1
    MIN_EVIDENCE_WINDOW = 1
    MAX_UPDATED_FEE = 1000
    InitialFunds = 7
    MayBeBarred = {r1, r2, a1}
    InitialFees = {5000}
    NewFees = {}
    Budgets = {0, 7}
    CreatorCounts = {0, 2}
    Deadlines = {1, 2, 4}
    Briefs = {"brief"}
    Payouts = {0, 3, 4}
    Proofs = {p1}
    Splits = {3333, 10001}
SPECIFICATION Spec
SYMMETRY CreatorSymmetry
INVARIANTS DueCanBeClaimed FrozenCanBeSettled NothingIsStranded
