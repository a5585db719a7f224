------------------------------ MODULE ActivityFeed ------------------------------
(***************************************************************************)
(* What the outside world can know of the contracts from the events they   *)
(* publish: an indexer's copy of the campaigns, payouts, disputes and      *)
(* accounts, kept from the events alone.                                   *)
(*                                                                         *)
(* One operator per #[contractevent], with the fields the copy is kept     *)
(* from as parameters: the feed f once the indexer has read that event.    *)
(* Each step publishes the events its entry point does, in their order,    *)
(* with the values the code gives them.  approve_submission and initialize *)
(* publish nothing; the indexer is told what the escrow was initialized    *)
(* with by whoever deployed it.                                            *)
(***************************************************************************)
EXTENDS AdsBazaar

ASSUME FeedAssumption == IsFiniteSet(Tokens) /\ IsFiniteSet(Admins \cup Treasuries)

VARIABLE feed   \* the indexer's copy: off-chain

feedVars == <<systemVars, feed>>

Onlookers == Accounts \ {EscrowContract}

FeedInit ==
    /\ SystemInit
    /\ feed = [campaigns |-> [c \in CampaignIds |->
                   [business |-> Null, escrow |-> 0, reserve |-> 0, brief |-> Null, status |-> "None"]],
               payouts |-> [key \in ApplicationKeys |->
                   [amount |-> 0, frozen_at |-> Null, status |-> "None"]],
               disputes |-> [id \in Disputes!DisputeIds |->
                   [raised_by |-> Null, arbiter |-> Null, status |-> "None"]],
               received |-> [a \in Onlookers |-> 0],   \* net of what it deposited
               collected |-> 0,                        \* fees and recoveries, by the treasuries
               admin |-> Null, proposed |-> Null, treasury |-> Null, fee_bps |-> Null,
               paused |-> FALSE]

--------------------------------------------------------------------------------
(* campaign-escrow's events.                                                 *)

\* What an amount that is reserved, drawn, paid from the reserve or withdrawn for
\* good does to the copy of the campaign's books, and to that of a party's receipts.
Reserved(camp, amount) == [camp EXCEPT !.reserve = @ + amount, !.status = "Active"]
Drawn(camp, amount) ==
    [camp EXCEPT !.escrow = @ - amount,
                 !.status = IF camp.escrow = amount THEN "Completed" ELSE @]
Spent(camp, amount) == Drawn([camp EXCEPT !.reserve = @ - amount], amount)
Withdrawn(camp, amount) == [camp EXCEPT !.escrow = @ - amount, !.status = "Cancelled"]
Credited(received, party, amount) == [received EXCEPT ![party] = @ + amount]

CampaignCreated(f, business, c) ==
    [f EXCEPT !.campaigns[c] = [@ EXCEPT !.business = business, !.status = "Draft"]]

CampaignFunded(f, c, amount) ==
    [f EXCEPT !.campaigns[c] = [@ EXCEPT !.escrow = amount, !.status = "Funded"],
              !.received[f.campaigns[c].business] = @ - amount]

CreatorApplied(f, c, creator) == [f EXCEPT !.payouts[<<c, creator>>].status = "Pending"]

CreatorApproved(f, c, creator, payout_amount) ==
    [f EXCEPT !.payouts[<<c, creator>>] = [@ EXCEPT !.status = "Approved", !.amount = payout_amount],
              !.campaigns[c] = Reserved(@, payout_amount)]

ProofSubmitted(f, c, creator) == [f EXCEPT !.payouts[<<c, creator>>].status = "ProofSubmitted"]
SubmissionRejected(f, c, creator) == [f EXCEPT !.payouts[<<c, creator>>].status = "Rejected"]

\* A payout leaves the escrow: what the event does not say went to a party is fee.
PaidOut(f, c, creator, creator_amount, business_amount) ==
    LET payout == f.payouts[<<c, creator>>].amount IN
    [f EXCEPT !.payouts[<<c, creator>>] = [@ EXCEPT !.status = "Paid", !.frozen_at = Null],
              !.campaigns[c] = Spent(@, payout),
              !.received = Credited(Credited(@, creator, creator_amount),
                                    f.campaigns[c].business, business_amount),
              !.collected = @ + (payout - creator_amount - business_amount)]

PaymentReleased(f, c, creator, amount) == PaidOut(f, c, creator, amount, 0)

CampaignCancelled(f, c, refunded_amount) ==
    [f EXCEPT !.campaigns[c] = Withdrawn(@, refunded_amount),
              !.received[f.campaigns[c].business] = @ + refunded_amount]

SurplusReclaimed(f, c, amount) ==
    [f EXCEPT !.campaigns[c] = Drawn(@, amount),
              !.received[f.campaigns[c].business] = @ + amount]

EmergencyRecovery(f, c, amount) ==
    [f EXCEPT !.campaigns[c] = Withdrawn(@, amount),
              !.collected = @ + amount]

CampaignMetadataUpdated(f, c, new_metadata) ==
    [f EXCEPT !.campaigns[c].brief = new_metadata]

Deployed(f, admin, fee_bps) ==
    [f EXCEPT !.admin = admin, !.treasury = admin, !.fee_bps = fee_bps]

ContractPaused(f) == [f EXCEPT !.paused = TRUE]
ContractUnpaused(f) == [f EXCEPT !.paused = FALSE]
AdminProposed(f, new_admin) == [f EXCEPT !.proposed = new_admin]
AdminTransferred(f, new_admin) == [f EXCEPT !.admin = new_admin, !.proposed = Null]
FeeUpdated(f, new_fee_bps) == [f EXCEPT !.fee_bps = new_fee_bps]
TreasuryUpdated(f, new_treasury) == [f EXCEPT !.treasury = new_treasury]

\* The indexer dates the freeze by the ledger the event is in.
DisputeFrozen(f, c, creator) == [f EXCEPT !.payouts[<<c, creator>>].frozen_at = now]

DisputeResolved(f, c, creator, dispute_outcome, creator_amount, business_amount) ==
    PaidOut(f, c, creator, creator_amount, business_amount)

--------------------------------------------------------------------------------
(* dispute-resolution's events; its DisputeResolved is DisputeClosed here.   *)

DisputeRaised(f, id, raised_by) ==
    [f EXCEPT !.disputes[id] = [@ EXCEPT !.raised_by = raised_by, !.status = "Raised"]]

ArbiterAssigned(f, id, arbiter) ==
    [f EXCEPT !.disputes[id] = [@ EXCEPT !.arbiter = arbiter, !.status = "UnderReview"]]

DisputeClosed(f, id) == [f EXCEPT !.disputes[id].status = "Resolved"]

--------------------------------------------------------------------------------
(* What each entry point publishes.                                          *)

Publish(f) == feed' = f
PublishNothing == UNCHANGED feed

FeedGovernance ==
    \E admin \in Admins :
        \/ \E d \in DisputeContracts, fee \in InitialFees :
            Initialize(admin, d, fee) /\ Publish(Deployed(feed, admin, fee))
        \/ Pause(admin) /\ Publish(ContractPaused(feed))
        \/ Unpause(admin) /\ Publish(ContractUnpaused(feed))
        \/ \E new_admin \in Admins :
            ProposeAdmin(admin, new_admin) /\ Publish(AdminProposed(feed, new_admin))
        \/ AcceptAdmin(admin) /\ Publish(AdminTransferred(feed, admin))
        \/ \E fee \in NewFees : UpdateFeeBps(admin, fee) /\ Publish(FeeUpdated(feed, fee))
        \/ \E treasury \in Treasuries :
            UpdateTreasury(admin, treasury) /\ Publish(TreasuryUpdated(feed, treasury))

FeedNewCampaign ==
    \E b \in Businesses, t \in Tokens, budget \in Budgets, n \in CreatorCounts,
       apply_by \in Deadlines, complete_by \in Deadlines, brief \in Briefs :
        /\ CreateCampaign(b, t, budget, n, apply_by, complete_by, brief)
        /\ Publish(CampaignCreated(feed, b, instance.next_campaign_id))

SlipAfterTheBooks(c) == campaigns'[c].escrow_balance - campaigns'[c].committed_payouts
\* The amount of CampaignCancelled, SurplusReclaimed and EmergencyRecovery, taken
\* before the books are brought down to the reserve.
Swept(c) == Unallocated(campaigns[c])

FeedCampaignStep(c) ==
    \/ \E b \in Businesses :
        \/ FundCampaign(b, c) /\ Publish(CampaignFunded(feed, c, campaigns[c].total_budget))
        \/ \E brief \in Briefs :
            /\ UpdateCampaignMetadata(c, b, brief)
            /\ Publish(CampaignMetadataUpdated(feed, c, brief))
        \/ (CancelCampaign(b, c) \/ ExpireCampaign(b, c))
            /\ Publish(CampaignCancelled(feed, c, Swept(c)))
        \/ ReclaimSurplus(b, c) /\ Publish(SurplusReclaimed(feed, c, Swept(c)))
    \/ \E a \in Admins :
        EmergencyRecoverCampaign(a, c) /\ Publish(EmergencyRecovery(feed, c, Swept(c)))

SlipGross(gross, camp) == gross
\* What PaymentReleased and DisputeResolved say the creator got: the fee is off.
CreatorNet(gross, camp) == gross - Share(gross, AgreedFee(camp))

FeedPayoutStep(c, r) ==
    \/ ApplyToCampaign(r, c) /\ Publish(CreatorApplied(feed, c, r))
    \/ \E proof \in Proofs : SubmitProof(r, c, proof) /\ Publish(ProofSubmitted(feed, c, r))
    \/ /\ ClaimPayment(r, c)
       /\ Publish(PaymentReleased(feed, c, r,
                    CreatorNet(applications[<<c, r>>].payout_amount, campaigns[c])))
    \/ \E b \in Businesses :
        \/ \E amount \in Payouts :
            ApproveCreator(b, c, r, amount) /\ Publish(CreatorApproved(feed, c, r, amount))
        \/ ApproveSubmission(b, c, r) /\ PublishNothing
        \/ RejectSubmission(b, c, r) /\ Publish(SubmissionRejected(feed, c, r))

FeedRaiseDispute(raised_by, c, creator, reason_uri) ==
    /\ RaiseDispute(raised_by, c, creator, reason_uri)
    /\ Publish(DisputeRaised(DisputeFrozen(feed, c, creator),
                             dispute_instance.next_dispute_id, raised_by))

SlipQuietFreeze(c, creator) == FreezeDirectly(c, creator) /\ PublishNothing
FeedFreezeDirectly(c, creator) ==
    FreezeDirectly(c, creator) /\ Publish(DisputeFrozen(feed, c, creator))

FeedRaiseElsewhere(raised_by, c, creator, reason_uri) ==
    /\ RaiseElsewhere(raised_by, c, creator, reason_uri)
    /\ Publish(DisputeRaised(feed, dispute_instance.next_dispute_id, raised_by))

SlipClosesQuietly(c, creator) == feed
\* close_dispute publishes only if it had a record to close.
FeedOfClose(c, creator) ==
    LET id == open_disputes[<<c, creator>>] IN
    IF open_disputes'[<<c, creator>>] # id THEN DisputeClosed(feed, id) ELSE feed

FeedCloseElsewhere(c, creator, outcome) ==
    CloseElsewhere(c, creator, outcome) /\ Publish(FeedOfClose(c, creator))

FeedSettleDispute(admin, c, creator, resolution) ==
    LET payout == applications[<<c, creator>>].payout_amount IN
    /\ SettleDispute(admin, c, creator, resolution)
    /\ Publish(DisputeResolved(FeedOfClose(c, creator), c, creator, Outcome(resolution),
                    CreatorNet(CreatorGross(payout, resolution), campaigns[c]),
                    BusinessAmount(payout, resolution)))

FeedEscrowStep ==
    /\ \/ FeedGovernance
       \/ FeedNewCampaign
       \/ \E c \in CampaignIds : FeedCampaignStep(c)
       \/ \E c \in CampaignIds, r \in Creators : FeedPayoutStep(c, r)
       \/ (Tick \/ TokenStep) /\ PublishNothing
    /\ UNCHANGED disputeVars

FeedDisputeStep(c, r) ==
    \/ \E raised_by \in Creators \cup Businesses, reason \in Reasons :
        FeedRaiseDispute(raised_by, c, r, reason)
    \/ FeedFreezeDirectly(c, r)
    \/ \E a \in Admins, res \in Resolutions : FeedSettleDispute(a, c, r, res)
    \/ \E raised_by \in Creators \cup Businesses, reason \in Reasons :
        FeedRaiseElsewhere(raised_by, c, r, reason)
    \/ \E res \in Resolutions : FeedCloseElsewhere(c, r, Outcome(res))

FeedAssignArbiter ==
    \E admin \in Admins, id \in Disputes!DisputeIds, arbiter \in Arbiters :
        /\ Disputes!AssignArbiter(admin, id, arbiter) /\ UNCHANGED vars
        /\ Publish(ArbiterAssigned(feed, id, arbiter))

FeedNext ==
    \/ FeedEscrowStep
    \/ InitializeDisputes /\ PublishNothing
    \/ FeedAssignArbiter
    \/ \E c \in CampaignIds, r \in Creators : FeedDisputeStep(c, r)

FeedSpec == FeedInit /\ [][FeedNext]_feedVars

--------------------------------------------------------------------------------
(* What an indexer may rely on.                                              *)

\* The copy kept from the events is the contracts' own state: every campaign's
\* status, escrow and reserve, every payout's amount, status and freeze with its
\* date, every dispute's record, the contract's settings.  (Only whether a proof
\* was accepted is never published.)
FeedReconciles ==
    /\ \A c \in CampaignIds :
        LET camp == campaigns[c]
            copy == feed.campaigns[c]
        IN
        /\ copy.business = camp.business /\ copy.status = camp.status
        /\ copy.escrow = camp.escrow_balance /\ copy.reserve = camp.committed_payouts
        /\ copy.brief \in {Null, camp.metadata_uri}
    /\ \A key \in ApplicationKeys :
        LET app == applications[key] IN
        feed.payouts[key] =
            [amount |-> app.payout_amount, frozen_at |-> app.dispute_opened_at, status |-> app.status]
    /\ \A id \in Disputes!DisputeIds :
        LET record == disputes[id] IN
        feed.disputes[id] =
            [raised_by |-> record.raised_by, arbiter |-> record.arbiter, status |-> record.status]
    /\ feed.paused = instance.paused /\ feed.proposed = instance.pending_admin
    /\ feed.admin = instance.admin /\ feed.treasury = instance.treasury
    /\ feed.fee_bps = instance.fee_bps

\* The published amounts are the money that moved: for every party, what the
\* events say it was paid less what it deposited is what its balances have gained,
\* and what they leave unsaid, fees and recoveries, is what the treasuries have
\* collected, the contract itself included where it is its own treasury.
StatementsMatch ==
    LET Parties == Businesses \cup Creators
        Collectors == (Admins \cup Treasuries) \ {EscrowContract}
        Gained(a) == SumFunction([t \in Tokens |-> balances[t][a] -
                                    (IF a \in Businesses THEN InitialFunds ELSE 0)])
        Unbooked(t) == balances[t][EscrowContract] - SumFunction(HeldIn(t))
    IN
    /\ \A a \in Parties \ Collectors : Gained(a) = feed.received[a]
    /\ Parties \cap Collectors = {} =>
        SumFunction([a \in Collectors |-> Gained(a)]) + SumFunction([t \in Tokens |-> Unbooked(t)])
            = feed.collected

\* No settlement without public notice: whenever a payout under dispute is
\* settled, its freeze was published at least the evidence window before, in a
\* ledger the counterparty has been able to read since.
PublicNotice ==
    [][\A key \in ApplicationKeys :
        (applications[key].frozen /\ ~Paid(key) /\ Paid(key)') =>
            /\ feed.payouts[key].frozen_at # Null
            /\ feed.payouts[key].frozen_at + MIN_EVIDENCE_WINDOW <= now]_feedVars
================================================================================
