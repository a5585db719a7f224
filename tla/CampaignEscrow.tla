----------------------------- MODULE CampaignEscrow -----------------------------
(***************************************************************************)
(* The campaign-escrow contract: every entry point that changes state, and *)
(* the ledger clock its deadlines are read against.                        *)
(*                                                                         *)
(* A Soroban invocation is atomic, so an entry point is one action: its    *)
(* guards are the conditions under which the call returns Ok, and a call   *)
(* that fails changes nothing and is not a step.  The caller's             *)
(* require_auth() is the choice of the caller in Next.                     *)
(*                                                                         *)
(* The contract alone: close_dispute, the one call it makes to another     *)
(* contract of this repository, is best-effort and its result discarded,   *)
(* so it is left to the module that composes the two.                      *)
(*                                                                         *)
(* Definitions named Slip... are not part of the contract: each is a way   *)
(* the definition after it could plausibly have been written wrong, and    *)
(* PROJECT.json names the property that would notice.                      *)
(***************************************************************************)
EXTENDS AdsBazaarShared, TokenLedger, FiniteSets, Functions

CONSTANTS
    Businesses, Creators,       \* who may call as a business, as a creator
    Admins,                     \* who may be made admin
    Treasuries,                 \* addresses update_treasury is called with
    DisputeContracts,           \* addresses initialize is given as dispute contract
    EscrowContract,             \* this contract's own address
    Tokens,                     \* addresses that answer the SEP-41 probe
    MAX_CAMPAIGNS,              \* bound: ids handed out by next_campaign_id
    MAX_TIME,                   \* bound: the ledger timestamp
    EMERGENCY_RECOVERY_GRACE_PERIOD,
    MIN_EVIDENCE_WINDOW,
    MAX_UPDATED_FEE,            \* update_fee_bps's own ceiling: 1_000
    InitialFunds,               \* what a business holds of each token at first
    MayBeBarred,                \* accounts that can lose a token's trustline or authorization
    \* The arguments the entry points are tried with.
    InitialFees, NewFees, Budgets, CreatorCounts, Deadlines, Briefs,
    Payouts, Proofs, Splits

Accounts == Businesses \cup Creators \cup Admins \cup Treasuries \cup {EscrowContract}
CampaignIds == 0 .. MAX_CAMPAIGNS - 1
ApplicationKeys == CampaignIds \X Creators
Resolutions == {PayCreator, RefundBusiness} \cup {Split(bps) : bps \in Splits}

ASSUME EscrowAssumption ==
    /\ IsFiniteSet(Creators)
    /\ EscrowContract \notin Businesses \cup Creators \cup Admins
    /\ Null \notin Accounts \cup DisputeContracts \cup Tokens \cup Proofs
    /\ MAX_CAMPAIGNS \in Nat
    /\ MAX_TIME \in Nat /\ FitsU64(MAX_TIME)
    /\ EMERGENCY_RECOVERY_GRACE_PERIOD \in Nat
    /\ MIN_EVIDENCE_WINDOW \in Nat
    /\ MAX_UPDATED_FEE \in BasisPoints
    /\ InitialFunds \in Nat
    /\ MayBeBarred \subseteq Accounts
    /\ \A set \in {InitialFees, NewFees, Budgets, Payouts, Splits} : set \subseteq Int
    /\ CreatorCounts \subseteq Nat /\ Deadlines \subseteq Nat

VARIABLES
    instance,       \* instance storage: DataKey::Admin ... DataKey::NextCampaignId
    campaigns,      \* DataKey::Campaign(id)
    applications,   \* DataKey::Application(id, creator)
    applicants,     \* DataKey::ApplicantCount(id)
    balances,       \* the token contracts' ledgers: external
    now,            \* env.ledger().timestamp()
    barred          \* <<token, account>>: the token moves nothing from or to it: external

vars == <<instance, campaigns, applications, applicants, balances, now, barred>>

NoCampaign ==
    [business |-> Null, token |-> Null, total_budget |-> 0, escrow_balance |-> 0,
     committed_payouts |-> 0, fee_bps |-> 0, max_creators |-> 0, approved_count |-> 0,
     application_deadline |-> 0, completion_deadline |-> 0, metadata_uri |-> Null,
     status |-> "None"]

NoApplication ==
    [proof_uri |-> Null, payout_amount |-> 0, proof_approved |-> FALSE, frozen |-> FALSE,
     dispute_opened_at |-> Null, status |-> "None"]

Init ==
    /\ instance = [admin |-> Null, pending_admin |-> Null, treasury |-> Null, fee_bps |-> Null,
                   dispute_contract |-> Null, paused |-> FALSE, next_campaign_id |-> 0]
    /\ campaigns = [c \in CampaignIds |-> NoCampaign]
    /\ applications = [key \in ApplicationKeys |-> NoApplication]
    /\ applicants = [c \in CampaignIds |-> 0]
    /\ balances = [t \in Tokens |->
                    [a \in Accounts |-> IF a \in Businesses THEN InitialFunds ELSE 0]]
    /\ now = 0
    /\ barred = {}

--------------------------------------------------------------------------------
(* The guards the entry points share.                                        *)

Initialized == instance.admin # Null
RequireAdmin(a) == instance.admin = a
RequireNotPaused == ~instance.paused
SlipFrozenOnlyIfSubmitted(app) == ~(app.frozen /\ app.status = "ProofSubmitted")
RequireNotFrozen(app) == ~app.frozen
OwnedBy(camp, b) == camp.business = b
SlipSecondApplicant(c) == applicants[c] > 1
HasCampaignApplicants(c) == applicants[c] > 0
AcceptsCreators(camp) == camp.status \in {"Funded", "Active"}
NotClosed(camp) == camp.status \notin {"None", "Cancelled", "Completed"}
SlipDeadlineLate(camp) == now > camp.completion_deadline + 1
ContentDeadlinePassed(camp) == now > camp.completion_deadline

SlipSettleableIfPaid(app) == app.payout_amount > 0
\* Approved at some point, and not yet paid: what can be frozen and settled.
Settleable(app) == app.status # "Paid" /\ app.payout_amount > 0

--------------------------------------------------------------------------------
(* Setup and governance.                                                     *)

Initialize(admin, dispute_contract, fee_bps) ==
    /\ ~Initialized
    /\ fee_bps \in BasisPoints
    /\ instance' = [instance EXCEPT !.admin = admin, !.treasury = admin,
                        !.dispute_contract = dispute_contract, !.fee_bps = fee_bps]
    /\ UNCHANGED <<campaigns, applications, applicants, balances, now, barred>>

SetPaused(admin, paused) ==
    /\ RequireAdmin(admin)
    /\ instance' = [instance EXCEPT !.paused = paused]
    /\ UNCHANGED <<campaigns, applications, applicants, balances, now, barred>>

Pause(admin) == SetPaused(admin, TRUE)
Unpause(admin) == SetPaused(admin, FALSE)

ProposeAdmin(current_admin, new_admin) ==
    /\ RequireAdmin(current_admin)
    /\ instance' = [instance EXCEPT !.pending_admin = new_admin]
    /\ UNCHANGED <<campaigns, applications, applicants, balances, now, barred>>

SlipKeepsProposal(new_admin) ==
    /\ instance.pending_admin = new_admin
    /\ instance' = [instance EXCEPT !.admin = new_admin]
    /\ UNCHANGED <<campaigns, applications, applicants, balances, now, barred>>

AcceptAdmin(new_admin) ==
    /\ instance.pending_admin = new_admin
    /\ instance' = [instance EXCEPT !.admin = new_admin, !.pending_admin = Null]
    /\ UNCHANGED <<campaigns, applications, applicants, balances, now, barred>>

UpdateFeeBps(admin, new_fee_bps) ==
    /\ RequireAdmin(admin)
    /\ new_fee_bps \in 0 .. MAX_UPDATED_FEE
    /\ instance' = [instance EXCEPT !.fee_bps = new_fee_bps]
    /\ UNCHANGED <<campaigns, applications, applicants, balances, now, barred>>

UpdateTreasury(admin, new_treasury) ==
    /\ RequireAdmin(admin)
    /\ instance' = [instance EXCEPT !.treasury = new_treasury]
    /\ UNCHANGED <<campaigns, applications, applicants, balances, now, barred>>

--------------------------------------------------------------------------------
(* A campaign up to the selection of its creators.                           *)

CreateCampaign(business, token, total_budget, max_creators, application_deadline, completion_deadline, metadata_uri) ==
    /\ RequireNotPaused
    /\ Initialized
    /\ total_budget > 0
    /\ max_creators > 0
    /\ now < application_deadline
    /\ application_deadline < completion_deadline
    /\ instance.next_campaign_id < MAX_CAMPAIGNS
    /\ campaigns' = [campaigns EXCEPT ![instance.next_campaign_id] =
            [business |-> business, token |-> token, total_budget |-> total_budget,
             escrow_balance |-> 0, committed_payouts |-> 0, fee_bps |-> instance.fee_bps,
             max_creators |-> max_creators, approved_count |-> 0,
             application_deadline |-> application_deadline,
             completion_deadline |-> completion_deadline,
             metadata_uri |-> metadata_uri, status |-> "Draft"]]
    /\ instance' = [instance EXCEPT !.next_campaign_id = @ + 1]
    /\ UNCHANGED <<applications, applicants, balances, now, barred>>

FundCampaign(business, c) ==
    LET camp == campaigns[c] IN
    /\ RequireNotPaused
    /\ camp.status = "Draft"
    /\ OwnedBy(camp, business)
    /\ Covers(balances, camp.token, business, camp.total_budget)
    /\ Accepts(barred, camp.token, business, EscrowContract)
    /\ balances' = Transfer(balances, camp.token, business, EscrowContract, camp.total_budget)
    /\ campaigns' = [campaigns EXCEPT ![c].escrow_balance = camp.total_budget,
                                      ![c].status = "Funded"]
    /\ UNCHANGED <<instance, applications, applicants, now, barred>>

UpdateCampaignMetadata(c, business, new_metadata) ==
    /\ RequireNotPaused
    /\ OwnedBy(campaigns[c], business)
    /\ NotClosed(campaigns[c])
    /\ ~HasCampaignApplicants(c)
    /\ new_metadata # ""
    /\ campaigns' = [campaigns EXCEPT ![c].metadata_uri = new_metadata]
    /\ UNCHANGED <<instance, applications, applicants, balances, now, barred>>

ApplyToCampaign(creator, c) ==
    /\ RequireNotPaused
    /\ AcceptsCreators(campaigns[c])
    /\ now <= campaigns[c].application_deadline
    /\ applications[<<c, creator>>].status = "None"
    /\ applications' = [applications EXCEPT ![<<c, creator>>].status = "Pending"]
    /\ applicants' = [applicants EXCEPT ![c] = @ + 1]
    /\ UNCHANGED <<instance, campaigns, balances, now, barred>>

SlipWithinBudget(camp, committed) == committed <= camp.total_budget
WithinEscrow(camp, committed) == committed <= camp.escrow_balance

ApproveCreator(business, c, creator, payout_amount) ==
    LET camp == campaigns[c]
        new_committed == camp.committed_payouts + payout_amount
    IN
    /\ RequireNotPaused
    /\ OwnedBy(camp, business)
    /\ AcceptsCreators(camp)
    /\ payout_amount > 0
    /\ ~ContentDeadlinePassed(camp)
    /\ applications[<<c, creator>>].status = "Pending"
    /\ camp.approved_count < camp.max_creators
    /\ FitsI128(new_committed)
    /\ WithinEscrow(camp, new_committed)
    /\ applications' = [applications EXCEPT ![<<c, creator>>].payout_amount = payout_amount,
                                            ![<<c, creator>>].status = "Approved"]
    /\ campaigns' = [campaigns EXCEPT ![c].approved_count = @ + 1,
                                      ![c].committed_payouts = new_committed,
                                      ![c].status = "Active"]
    /\ UNCHANGED <<instance, applicants, balances, now, barred>>

--------------------------------------------------------------------------------
(* The work: proof, review, payment.                                         *)

SubmitProof(creator, c, proof_uri) ==
    LET app == applications[<<c, creator>>] IN
    /\ RequireNotPaused
    /\ ~ContentDeadlinePassed(campaigns[c])
    /\ RequireNotFrozen(app)
    /\ app.status \in {"Approved", "Rejected"}
    /\ applications' = [applications EXCEPT ![<<c, creator>>].proof_uri = proof_uri,
                                            ![<<c, creator>>].status = "ProofSubmitted",
                                            ![<<c, creator>>].proof_approved = FALSE]
    /\ UNCHANGED <<instance, campaigns, applicants, balances, now, barred>>

ApproveSubmission(business, c, creator) ==
    LET app == applications[<<c, creator>>] IN
    /\ RequireNotPaused
    /\ OwnedBy(campaigns[c], business)
    /\ RequireNotFrozen(app)
    /\ app.status = "ProofSubmitted"
    /\ applications' = [applications EXCEPT ![<<c, creator>>].proof_approved = TRUE]
    /\ UNCHANGED <<instance, campaigns, applicants, balances, now, barred>>

RejectSubmission(business, c, creator) ==
    LET app == applications[<<c, creator>>] IN
    /\ RequireNotPaused
    /\ OwnedBy(campaigns[c], business)
    /\ ~ContentDeadlinePassed(campaigns[c])
    /\ RequireNotFrozen(app)
    /\ app.status = "ProofSubmitted"
    /\ applications' = [applications EXCEPT ![<<c, creator>>].proof_uri = Null,
                                            ![<<c, creator>>].proof_approved = FALSE,
                                            ![<<c, creator>>].status = "Rejected"]
    /\ UNCHANGED <<instance, campaigns, applicants, balances, now, barred>>

SlipFreesSlot(camp, payout_amount) ==
    LET left == camp.escrow_balance - payout_amount IN
    [camp EXCEPT !.escrow_balance = left,
                 !.committed_payouts = @ - payout_amount,
                 !.approved_count = @ - 1,
                 !.status = IF left = 0 THEN "Completed" ELSE @]
SlipNeverCompletes(camp, payout_amount) ==
    [camp EXCEPT !.escrow_balance = @ - payout_amount,
                 !.committed_payouts = @ - payout_amount]
SlipCompletesWithReserve(camp, payout_amount) ==
    [camp EXCEPT !.escrow_balance = @ - payout_amount,
                 !.committed_payouts = @ - payout_amount,
                 !.status = IF camp.escrow_balance = camp.committed_payouts
                            THEN "Completed" ELSE @]

\* A campaign's books once a payout of this amount has been settled.  The
\* code's checked_sub is on a signed type: it stops an overflow, and would let
\* either figure go below zero.
Settled(camp, payout_amount) ==
    LET left == camp.escrow_balance - payout_amount IN
    [camp EXCEPT !.escrow_balance = left,
                 !.committed_payouts = @ - payout_amount,
                 !.status = IF left = 0 THEN "Completed" ELSE @]

SlipCurrentFee(camp) == instance.fee_bps
\* The fee agreed when the campaign was created, not today's.
AgreedFee(camp) == camp.fee_bps

\* Whether the token carries a payment of the contract to this account.
Receives(token, to) == Accepts(barred, token, EscrowContract, to)

SlipPaysZero(ledger, token, to, amount) ==
    Covers(ledger, token, EscrowContract, amount) /\ Receives(token, to)

\* The contract paying out of its own balance, nothing when the amount is not
\* positive: a party that is paid nothing cannot make the call fail.
CanPay(ledger, token, to, amount) ==
    amount > 0 => Covers(ledger, token, EscrowContract, amount) /\ Receives(token, to)
Pay(ledger, token, to, amount) ==
    IF amount > 0 THEN Transfer(ledger, token, EscrowContract, to, amount) ELSE ledger

\* The creator's side of a payment: the fee on the gross amount to the treasury of
\* the moment, the rest to the creator; whether it goes through, and the ledger
\* after it.
FeeOn(camp, gross) == Share(gross, AgreedFee(camp))
AfterFee(camp, gross) == Pay(balances, camp.token, instance.treasury, FeeOn(camp, gross))
CanPayCreator(camp, creator, gross) ==
    /\ FitsI128(gross * AgreedFee(camp))
    /\ CanPay(balances, camp.token, instance.treasury, FeeOn(camp, gross))
    /\ CanPay(AfterFee(camp, gross), camp.token, creator, gross - FeeOn(camp, gross))
PayCreatorNet(camp, creator, gross) ==
    Pay(AfterFee(camp, gross), camp.token, creator, gross - FeeOn(camp, gross))

\* The conditions under which the call returns Ok.  Those of the calls that get
\* money out of the contract have a name: properties speak of them.
MayClaim(creator, c) ==
    LET camp == campaigns[c]
        app == applications[<<c, creator>>]
    IN
    /\ RequireNotPaused
    /\ RequireNotFrozen(app)
    /\ app.status = "ProofSubmitted"
    /\ app.proof_approved \/ ContentDeadlinePassed(camp)
    /\ CanPayCreator(camp, creator, app.payout_amount)
    /\ Receives(camp.token, creator)     \* a net of zero is transferred too

ClaimPayment(creator, c) ==
    LET camp == campaigns[c]
        app == applications[<<c, creator>>]
    IN
    /\ MayClaim(creator, c)
    /\ applications' = [applications EXCEPT ![<<c, creator>>].status = "Paid"]
    /\ campaigns' = [campaigns EXCEPT ![c] = Settled(camp, app.payout_amount)]
    /\ balances' = PayCreatorNet(camp, creator, app.payout_amount)
    /\ UNCHANGED <<instance, applicants, now, barred>>

--------------------------------------------------------------------------------
(* The four ways out for the escrow no approved creator is owed.             *)

SlipWholeEscrow(camp) == camp.escrow_balance
Unallocated(camp) == camp.escrow_balance - camp.committed_payouts

\* Hand the unallocated remainder to `to`; committed payouts stay reserved.
CanSweep(camp, to) == CanPay(balances, camp.token, to, Unallocated(camp))
Sweep(c, to, status) ==
    LET camp == campaigns[c] IN
    /\ CanSweep(camp, to)
    /\ campaigns' = [campaigns EXCEPT ![c].escrow_balance = camp.committed_payouts,
                                      ![c].status = status]
    /\ balances' = Pay(balances, camp.token, to, Unallocated(camp))
    /\ UNCHANGED <<instance, applications, applicants, now, barred>>

CancelCampaign(business, c) ==
    /\ RequireNotPaused
    /\ OwnedBy(campaigns[c], business)
    /\ NotClosed(campaigns[c])
    /\ Sweep(c, business, "Cancelled")

MayExpire(business, c) ==
    /\ RequireNotPaused
    /\ OwnedBy(campaigns[c], business)
    /\ ContentDeadlinePassed(campaigns[c])
    /\ NotClosed(campaigns[c])
    /\ CanSweep(campaigns[c], business)

ExpireCampaign(business, c) ==
    /\ MayExpire(business, c)
    /\ Sweep(c, business, "Cancelled")

SlipNoGrace(camp) == camp.completion_deadline
GracePeriodEnd(camp) == camp.completion_deadline + EMERGENCY_RECOVERY_GRACE_PERIOD

SlipRecoverWhilePaused(admin, c) ==
    /\ RequireAdmin(admin)
    /\ NotClosed(campaigns[c])
    /\ FitsU64(GracePeriodEnd(campaigns[c]))
    /\ now > GracePeriodEnd(campaigns[c])
    /\ Sweep(c, instance.treasury, "Cancelled")

EmergencyRecoverCampaign(admin, c) ==
    /\ RequireNotPaused
    /\ RequireAdmin(admin)
    /\ NotClosed(campaigns[c])
    /\ FitsU64(GracePeriodEnd(campaigns[c]))
    /\ now > GracePeriodEnd(campaigns[c])
    /\ Sweep(c, instance.treasury, "Cancelled")

ReclaimSurplus(business, c) ==
    LET camp == campaigns[c] IN
    /\ RequireNotPaused
    /\ OwnedBy(camp, business)
    /\ camp.status # "Cancelled"
    /\ Sweep(c, business, IF camp.committed_payouts = 0 THEN "Completed" ELSE camp.status)

--------------------------------------------------------------------------------
(* Disputes.                                                                 *)

MayFreeze(caller, c, creator) ==
    LET app == applications[<<c, creator>>] IN
    /\ RequireNotPaused
    /\ Initialized
    /\ caller = instance.dispute_contract \/ RequireAdmin(caller)
    /\ RequireNotFrozen(app)
    /\ Settleable(app)

FreezeForDispute(caller, c, creator) ==
    /\ MayFreeze(caller, c, creator)
    /\ applications' = [applications EXCEPT ![<<c, creator>>].frozen = TRUE,
                                            ![<<c, creator>>].dispute_opened_at = now]
    /\ UNCHANGED <<instance, campaigns, applicants, balances, now, barred>>

\* What the creator's side of a settlement comes to, before the fee.
CreatorGross(payout_amount, resolution) ==
    CASE resolution.kind = "PayCreator" -> payout_amount
      [] resolution.kind = "RefundBusiness" -> 0
      [] resolution.kind = "Split" -> Share(payout_amount, resolution.bps)

SlipRoundedTwice(payout_amount, resolution) ==
    Share(payout_amount, BASIS_POINTS_DENOMINATOR - resolution.bps)

\* The business gets what the creator's share leaves, the rounding included.
BusinessAmount(payout_amount, resolution) ==
    payout_amount - CreatorGross(payout_amount, resolution)

EvidenceWindowClosed(app) ==
    /\ app.dispute_opened_at # Null
    /\ FitsU64(app.dispute_opened_at + MIN_EVIDENCE_WINDOW)
    /\ app.dispute_opened_at + MIN_EVIDENCE_WINDOW <= now

MayResolve(admin, c, creator, resolution) ==
    LET camp == campaigns[c]
        app == applications[<<c, creator>>]
        creator_gross == CreatorGross(app.payout_amount, resolution)
    IN
    /\ RequireNotPaused
    /\ RequireAdmin(admin)
    /\ camp.status # "Completed"
    /\ Settleable(app)
    /\ EvidenceWindowClosed(app)
    /\ resolution.bps \in BasisPoints
    /\ resolution.kind = "Split" => FitsI128(app.payout_amount * resolution.bps)
    /\ CanPayCreator(camp, creator, creator_gross)
    /\ CanPay(PayCreatorNet(camp, creator, creator_gross), camp.token, camp.business,
               BusinessAmount(app.payout_amount, resolution))

ResolveDispute(admin, c, creator, resolution) ==
    LET camp == campaigns[c]
        app == applications[<<c, creator>>]
        creator_gross == CreatorGross(app.payout_amount, resolution)
    IN
    /\ MayResolve(admin, c, creator, resolution)
    /\ applications' = [applications EXCEPT ![<<c, creator>>].status = "Paid",
                                            ![<<c, creator>>].frozen = FALSE,
                                            ![<<c, creator>>].dispute_opened_at = Null]
    /\ campaigns' = [campaigns EXCEPT ![c] = Settled(camp, app.payout_amount)]
    /\ balances' = Pay(PayCreatorNet(camp, creator, creator_gross), camp.token, camp.business,
                       BusinessAmount(app.payout_amount, resolution))
    /\ UNCHANGED <<instance, applicants, now, barred>>

--------------------------------------------------------------------------------
\* Ledgers close: the timestamp grows, whatever the contract is doing.
Tick ==
    /\ now < MAX_TIME
    /\ now' = now + 1
    /\ UNCHANGED <<instance, campaigns, applications, applicants, balances, barred>>

\* An account closes its trustline or the issuer withdraws its authorization, and
\* the reverse: between any two calls.
Bar(token, account) ==
    /\ <<token, account>> \notin barred
    /\ barred' = barred \cup {<<token, account>>}
    /\ UNCHANGED <<instance, campaigns, applications, applicants, balances, now>>

Admit(token, account) ==
    /\ <<token, account>> \in barred
    /\ barred' = barred \ {<<token, account>>}
    /\ UNCHANGED <<instance, campaigns, applications, applicants, balances, now>>

Governance ==
    \E admin \in Admins :
        \/ \E d \in DisputeContracts, fee \in InitialFees : Initialize(admin, d, fee)
        \/ Pause(admin)
        \/ Unpause(admin)
        \/ \E new_admin \in Admins : ProposeAdmin(admin, new_admin)
        \/ AcceptAdmin(admin)
        \/ \E fee \in NewFees : UpdateFeeBps(admin, fee)
        \/ \E treasury \in Treasuries : UpdateTreasury(admin, treasury)

NewCampaign ==
    \E b \in Businesses, t \in Tokens, budget \in Budgets, n \in CreatorCounts,
       apply_by \in Deadlines, complete_by \in Deadlines, brief \in Briefs :
        CreateCampaign(b, t, budget, n, apply_by, complete_by, brief)

CampaignStep(c) ==
    \/ \E b \in Businesses :
        \/ FundCampaign(b, c)
        \/ \E brief \in Briefs : UpdateCampaignMetadata(c, b, brief)
        \/ CancelCampaign(b, c)
        \/ ExpireCampaign(b, c)
        \/ ReclaimSurplus(b, c)
    \/ \E a \in Admins : EmergencyRecoverCampaign(a, c)

PayoutStep(c, r) ==
    \/ ApplyToCampaign(r, c)
    \/ \E proof \in Proofs : SubmitProof(r, c, proof)
    \/ ClaimPayment(r, c)
    \/ \E b \in Businesses :
        \/ \E amount \in Payouts : ApproveCreator(b, c, r, amount)
        \/ ApproveSubmission(b, c, r)
        \/ RejectSubmission(b, c, r)

FreezeStep(c, r) ==
    \E caller \in Admins \cup DisputeContracts : FreezeForDispute(caller, c, r)

SettleStep(c, r) ==
    \E a \in Admins, res \in Resolutions : ResolveDispute(a, c, r, res)

TokenStep == \E t \in Tokens, a \in MayBeBarred : Bar(t, a) \/ Admit(t, a)

Next ==
    \/ Governance
    \/ NewCampaign
    \/ \E c \in CampaignIds : CampaignStep(c)
    \/ \E c \in CampaignIds, r \in Creators : 
        PayoutStep(c, r) \/ FreezeStep(c, r) \/ SettleStep(c, r)
    \/ Tick
    \/ TokenStep

Spec == Init /\ [][Next]_vars
================================================================================
