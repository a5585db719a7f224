---------------------------- MODULE AdsBazaarShared ----------------------------
(***************************************************************************)
(* What both contracts share: the types of contracts/shared, the widths of *)
(* the integers they are stored in, and the basis-point arithmetic the     *)
(* escrow computes fees and splits with.                                   *)
(***************************************************************************)
EXTENDS Integers

CONSTANTS
    Null,       \* an Option that is None, or a storage key that was never set
    I128_MAX,   \* the largest amount: 2^127 - 1 in the contracts
    U64_MAX     \* the largest timestamp: 2^64 - 1 in the contracts

ASSUME SharedAssumption ==
    /\ Null \notin Int
    /\ I128_MAX \in Nat
    /\ U64_MAX \in Nat

BASIS_POINTS_DENOMINATOR == 10000

\* "None" is not a status of the program: it marks a ledger key with no entry.
CampaignStatus ==
    {"None", "Draft", "Funded", "Active", "Completed", "Cancelled", "Disputed"}
ApplicationStatus == {"None", "Pending", "Approved", "Rejected", "ProofSubmitted", "Paid"}
DisputeStatus == {"None", "Raised", "UnderReview", "Resolved"}

\* The checked_* operations of the code fail where the result leaves its type.
FitsI128(x) == -I128_MAX - 1 <= x /\ x <= I128_MAX
FitsU64(t) == t <= U64_MAX

\* bps / 10_000 of an amount, rounded down.  Rust's division truncates towards
\* zero, which is the same thing: neither operand is ever negative here.
Share(amount, bps) == (amount * bps) \div BASIS_POINTS_DENOMINATOR

BasisPoints == 0 .. BASIS_POINTS_DENOMINATOR

(***************************************************************************)
(* The three ways an admin may settle a disputed payout, and the outcomes  *)
(* a dispute's record may show; Split is an arm of both types.             *)
(***************************************************************************)
PayCreator == [kind |-> "PayCreator", bps |-> BASIS_POINTS_DENOMINATOR]
RefundBusiness == [kind |-> "RefundBusiness", bps |-> 0]
Split(bps) == [kind |-> "Split", bps |-> bps]

Pending == [kind |-> "Pending"]
CreatorFavored == [kind |-> "CreatorFavored"]
BusinessFavored == [kind |-> "BusinessFavored"]
================================================================================
