-------------------------- MODULE CampaignTerms_proofs --------------------------
(***************************************************************************)
(* Theorems about the terms of one campaign: what its status says of its   *)
(* books, whom it selected and what it promised them, and that it keeps    *)
(* the promise EscrowPromise states.  As with one application in           *)
(* ApplicationLife_proofs, a step does one of a few things to a campaign   *)
(* (Course), whatever entry point is called.                               *)
(***************************************************************************)
EXTENDS ApplicationLife_proofs, FiniteSetTheorems

USE EscrowAssumption, SharedAssumption

SelectedIn(c) == {r \in Creators : applications[<<c, r>>].payout_amount > 0}

\* No payout of campaign c is agreed or settled in this step.
PayoutsStand(c) ==
    \A r \in Creators :
        /\ applications'[<<c, r>>].payout_amount = applications[<<c, r>>].payout_amount
        /\ Paid(<<c, r>>)' = Paid(<<c, r>>)

Others(c, r) ==
    \A s \in Creators \ {r} : applications'[<<c, s>>] = applications[<<c, s>>]

\* One creator at most has something happen to it, and nobody applies.
AtMostOne(c) ==
    /\ \/ \A r \in Creators : applications'[<<c, r>>] = applications[<<c, r>>]
       \/ \E r \in Creators : Others(c, r)
    /\ \A r \in Creators :
        applications[<<c, r>>].status = "None" => applications'[<<c, r>>].status = "None"
    /\ applicants'[c] = applicants[c]

BooksStand(c) ==
    /\ campaigns'[c] = [campaigns[c] EXCEPT !.metadata_uri = campaigns'[c].metadata_uri]
    /\ campaigns'[c].metadata_uri = campaigns[c].metadata_uri \/ applicants[c] = 0
    /\ PayoutsStand(c) /\ AtMostOne(c)

Joined(c) ==
    /\ campaigns'[c] = campaigns[c] /\ AcceptsCreators(campaigns[c])
    /\ PayoutsStand(c)
    /\ applicants'[c] = applicants[c] + 1
    /\ \E r \in Creators : Others(c, r)

Opened(c) ==
    /\ campaigns[c] = NoCampaign
    /\ \E b \in Businesses, t \in Tokens, budget \in Nat \ {0} :
        \E n, apply_by, complete_by, brief :
        campaigns'[c] =
            [business |-> b, token |-> t, total_budget |-> budget,
             escrow_balance |-> 0, committed_payouts |-> 0, fee_bps |-> instance.fee_bps,
             max_creators |-> n, approved_count |-> 0,
             application_deadline |-> apply_by, completion_deadline |-> complete_by,
             metadata_uri |-> brief, status |-> "Draft"]
    /\ PayoutsStand(c) /\ AtMostOne(c)

Deposited(c) ==
    /\ campaigns[c].status = "Draft"
    /\ campaigns'[c] = [campaigns[c] EXCEPT !.escrow_balance = campaigns[c].total_budget,
                                            !.status = "Funded"]
    /\ UNCHANGED <<applications, applicants>>

Agreed(c, r) ==
    LET camp == campaigns[c] IN
    \E amount \in Nat \ {0} :
        /\ AcceptsCreators(camp)
        /\ camp.approved_count < camp.max_creators
        /\ camp.committed_payouts + amount <= camp.escrow_balance
        /\ campaigns'[c] = [camp EXCEPT !.approved_count = @ + 1,
                                !.committed_payouts = @ + amount, !.status = "Active"]
        /\ applications[<<c, r>>].status = "Pending"
        /\ applications'[<<c, r>>] =
                [applications[<<c, r>>] EXCEPT !.payout_amount = amount, !.status = "Approved"]
        /\ Others(c, r) /\ applicants'[c] = applicants[c]

Discharged(c, r) ==
    LET app == applications[<<c, r>>] IN
    /\ campaigns'[c] = Settled(campaigns[c], app.payout_amount)
    /\ app.status \notin {"None", "Pending", "Paid"} \/ Settleable(app)
    /\ applications'[<<c, r>>] =
            [app EXCEPT !.status = "Paid", !.frozen = FALSE, !.dispute_opened_at = Null]
    /\ Others(c, r) /\ applicants'[c] = applicants[c]

\* The status a sweep leaves: a campaign is swept empty, or while it is open.
SweptTo(camp, status) ==
    \/ status = "Cancelled"
    \/ status = "Completed" /\ camp.committed_payouts = 0
    \/ status = camp.status /\ camp.status # "Cancelled" /\ camp.committed_payouts > 0

Emptied(c) ==
    /\ campaigns[c].status # "None" \/ campaigns[c].business \in Businesses
    /\ \E status : /\ SweptTo(campaigns[c], status)
                   /\ campaigns'[c] = [campaigns[c] EXCEPT
                        !.escrow_balance = campaigns[c].committed_payouts, !.status = status]
    /\ UNCHANGED <<applications, applicants>>

Course(c) ==
    \/ BooksStand(c)
    \/ Joined(c)
    \/ Opened(c)
    \/ Deposited(c)
    \/ \E r \in Creators : Agreed(c, r) \/ Discharged(c, r)
    \/ Emptied(c)

--------------------------------------------------------------------------------
(* Every step is one of these for every campaign.                            *)

\* A claim of an application whose clock is not running.
LEMMA UnfrozenClock ==
    ASSUME LifeInv, NEW c \in CampaignIds, NEW r \in Creators, ~applications[<<c, r>>].frozen
    PROVE  /\ applications[<<c, r>>].frozen = FALSE
           /\ applications[<<c, r>>].dispute_opened_at = Null
<1> DEFINE app == applications[<<c, r>>]
<1>1. app \in Application
    BY DEF LifeInv, EscrowInv, TypeOK, ApplicationKeys
<1>2. app.dispute_opened_at = Null
    BY LifeInvFacts DEF FreezeOK
<1>3. app.frozen = FALSE
    BY <1>1 DEF Application
<1> QED BY <1>2, <1>3

\* A step about campaign d leaves the books of every other campaign alone.
LEMMA OtherCampaignStands ==
    ASSUME LifeInv, NEW c \in CampaignIds, campaigns'[c] = campaigns[c],
           \A r \in Creators : applications'[<<c, r>>] = applications[<<c, r>>],
           applicants'[c] = applicants[c]
    PROVE  BooksStand(c)
<1>1. campaigns[c] \in Campaign
    BY DEF LifeInv, EscrowInv, TypeOK
<1>2. campaigns'[c] = [campaigns[c] EXCEPT !.metadata_uri = campaigns'[c].metadata_uri]
    BY <1>1 DEF Campaign
<1>3. PayoutsStand(c)
    BY DEF PayoutsStand, Paid
<1> QED BY <1>2, <1>3 DEF BooksStand, AtMostOne

LEMMA CampaignStepCourse ==
    ASSUME LifeInv, NEW c \in CampaignIds, NEW d \in CampaignIds, CampaignStep(d)
    PROVE  Course(c)
<1>1. /\ campaigns \in [CampaignIds -> Campaign] /\ campaigns[d] \in Campaign
      /\ campaigns[d].committed_payouts \in Nat /\ applicants[d] \in Nat
    BY DEF LifeInv, EscrowInv, TypeOK, Campaign
<1>2. UNCHANGED applications
    BY OtherStepsLeaveApplications
<1>3. UNCHANGED applicants /\ \A e \in CampaignIds \ {d} : campaigns'[e] = campaigns[e]
    BY <1>1 DEF CampaignStep, FundCampaign, UpdateCampaignMetadata, CancelCampaign,
            ExpireCampaign, ReclaimSurplus, EmergencyRecoverCampaign, Sweep
<1>4. CASE c # d
    BY <1>2, <1>3, <1>4, OtherCampaignStands DEF Course
<1>5. ASSUME NEW b \in Businesses, FundCampaign(b, d) PROVE Course(d)
    <2>1. Deposited(d)
        BY <1>1, <1>2, <1>3, <1>5 DEF FundCampaign, Deposited
    <2> QED BY <2>1 DEF Course
<1>6. ASSUME NEW b \in Businesses, NEW brief \in Briefs, UpdateCampaignMetadata(d, b, brief)
      PROVE  Course(d)
    <2>1. campaigns'[d] = [campaigns[d] EXCEPT !.metadata_uri = brief]
        BY <1>1, <1>6 DEF UpdateCampaignMetadata
    <2>2. campaigns'[d] = [campaigns[d] EXCEPT !.metadata_uri = campaigns'[d].metadata_uri]
        BY <1>1, <2>1 DEF Campaign
    <2>3. applicants[d] = 0
        <3>1. ~(applicants[d] > 0)
            BY <1>6 DEF UpdateCampaignMetadata, HasCampaignApplicants
        <3> QED BY <1>1, <3>1
    <2>4. PayoutsStand(d) /\ AtMostOne(d)
        BY <1>2, <1>3 DEF PayoutsStand, AtMostOne, Paid
    <2> QED BY <2>2, <2>3, <2>4 DEF Course, BooksStand
<1>7. ASSUME NEW to, NEW status, Sweep(d, to, status),
             SweptTo(campaigns[d], status),
             campaigns[d].status # "None" \/ campaigns[d].business \in Businesses
      PROVE  Course(d)
    <2>1. campaigns'[d] = [campaigns[d] EXCEPT
                !.escrow_balance = campaigns[d].committed_payouts, !.status = status]
        BY <1>1, <1>7 DEF Sweep
    <2>2. Emptied(d)
        BY <1>2, <1>3, <1>7, <2>1 DEF Emptied
    <2> QED BY <2>2 DEF Course
<1>8. ASSUME NEW b \in Businesses, CancelCampaign(b, d) \/ ExpireCampaign(b, d)
      PROVE  Course(d)
    BY <1>7, <1>8 DEF CancelCampaign, ExpireCampaign, MayExpire, OwnedBy, SweptTo
<1>9. ASSUME NEW a \in Admins, EmergencyRecoverCampaign(a, d)
      PROVE  Course(d)
    BY <1>7, <1>9 DEF EmergencyRecoverCampaign, NotClosed, SweptTo
<1>10. ASSUME NEW b \in Businesses, ReclaimSurplus(b, d)
       PROVE  Course(d)
    <2>1. SweptTo(campaigns[d],
            IF campaigns[d].committed_payouts = 0 THEN "Completed" ELSE campaigns[d].status)
        BY <1>1, <1>10 DEF ReclaimSurplus, SweptTo
    <2> QED BY <1>7, <1>10, <2>1 DEF ReclaimSurplus, OwnedBy
<1>11. Course(d)
    BY <1>5, <1>6, <1>8, <1>9, <1>10 DEF CampaignStep
<1> QED BY <1>4, <1>11

LEMMA NewCampaignCourse ==
    ASSUME LifeInv, NEW c \in CampaignIds, NewCampaign
    PROVE  Course(c)
<1> DEFINE d == instance.next_campaign_id
<1>1. PICK b \in Businesses, t \in Tokens, budget \in Budgets, n \in CreatorCounts,
           apply_by \in Deadlines, complete_by \in Deadlines, brief \in Briefs :
            CreateCampaign(b, t, budget, n, apply_by, complete_by, brief)
    BY DEF NewCampaign
<1>2. /\ campaigns \in [CampaignIds -> Campaign] /\ d \in 0 .. MAX_CAMPAIGNS
      /\ IdleHoldsNothing
    BY DEF LifeInv, EscrowInv, TypeOK, Instance
<1>3. UNCHANGED <<applications, applicants>> /\ budget \in Nat \ {0}
    BY <1>1 DEF CreateCampaign
<1>4. CASE c # d
    <2>1. campaigns'[c] = campaigns[c]
        BY <1>1, <1>2, <1>4 DEF CreateCampaign
    <2> QED BY <1>3, <2>1, OtherCampaignStands DEF Course
<1>5. CASE c = d
    <2>1. campaigns[c] = NoCampaign
        BY <1>2, <1>5 DEF IdleHoldsNothing, CampaignIds
    <2>2. campaigns'[c] =
            [business |-> b, token |-> t, total_budget |-> budget,
             escrow_balance |-> 0, committed_payouts |-> 0, fee_bps |-> instance.fee_bps,
             max_creators |-> n, approved_count |-> 0,
             application_deadline |-> apply_by, completion_deadline |-> complete_by,
             metadata_uri |-> brief, status |-> "Draft"]
        BY <1>1, <1>2, <1>5 DEF CreateCampaign
    <2>3. PayoutsStand(c) /\ AtMostOne(c)
        BY <1>3 DEF PayoutsStand, AtMostOne, Paid
    <2> QED BY <1>3, <2>1, <2>2, <2>3 DEF Course, Opened
<1> QED BY <1>4, <1>5

\* A review, a freeze or a proof moves no money and agrees on none.
LEMMA ReviewCourse ==
    ASSUME LifeInv, NEW c \in CampaignIds, NEW d \in CampaignIds, NEW s \in Creators,
           \/ \E proof \in Proofs : SubmitProof(s, d, proof)
           \/ \E b : ApproveSubmission(b, d, s) \/ RejectSubmission(b, d, s)
           \/ FreezeStep(d, s)
    PROVE  Course(c)
<1> DEFINE app == applications[<<d, s>>]
           after == applications'[<<d, s>>]
<1>1. /\ applications \in [ApplicationKeys -> Application] /\ <<d, s>> \in ApplicationKeys
      /\ campaigns \in [CampaignIds -> Campaign]
    BY DEF LifeInv, EscrowInv, TypeOK, ApplicationKeys
<1>2. UNCHANGED <<campaigns, applicants>>
    BY DEF SubmitProof, ApproveSubmission, RejectSubmission, FreezeStep, FreezeForDispute
<1>3. /\ \A key \in ApplicationKeys \ {<<d, s>>} : applications'[key] = applications[key]
      /\ after.payout_amount = app.payout_amount
      /\ app.status \notin {"Pending", "Paid"} /\ after.status # "Paid"
      /\ app.status = "None" => after.status = "None"
    <2>1. ASSUME NEW proof \in Proofs, SubmitProof(s, d, proof) PROVE <1>3!:
        <3>1. after = [app EXCEPT !.proof_uri = proof, !.status = "ProofSubmitted",
                                  !.proof_approved = FALSE]
            BY <1>1, <2>1 DEF SubmitProof
        <3>2. app \in Application /\ app.status \in {"Approved", "Rejected"}
            BY <1>1, <2>1 DEF SubmitProof
        <3>3. \A key \in ApplicationKeys \ {<<d, s>>} : applications'[key] = applications[key]
            BY <1>1, <2>1 DEF SubmitProof
        <3> HIDE DEF app, after
        <3>4. after.payout_amount = app.payout_amount /\ after.status = "ProofSubmitted"
            BY <3>1, <3>2 DEF Application
        <3> QED BY <3>2, <3>3, <3>4 DEF app, after
    <2>2. ASSUME NEW b, ApproveSubmission(b, d, s) PROVE <1>3!:
        BY <1>1, <2>2 DEF ApproveSubmission
    <2>3. ASSUME NEW b, RejectSubmission(b, d, s) PROVE <1>3!:
        BY <1>1, <2>3 DEF RejectSubmission
    <2>4. ASSUME NEW caller, FreezeForDispute(caller, d, s) PROVE <1>3!:
        <3>1. PendingOwesNothing
            BY DEF LifeInv, EscrowInv
        <3>2. app.payout_amount > 0 /\ app.status # "Paid"
            BY <2>4 DEF FreezeForDispute, MayFreeze, Settleable
        <3>3. app.status \notin {"None", "Pending"}
            BY <1>1, <3>1, <3>2 DEF PendingOwesNothing
        <3> QED BY <1>1, <2>4, <3>2, <3>3 DEF FreezeForDispute
    <2> QED BY <2>1, <2>2, <2>3, <2>4 DEF FreezeStep
<1>4. /\ campaigns'[c] = [campaigns[c] EXCEPT !.metadata_uri = campaigns'[c].metadata_uri]
      /\ campaigns'[c].metadata_uri = campaigns[c].metadata_uri
    BY <1>1, <1>2 DEF Campaign
<1>5. PayoutsStand(c)
    BY <1>3 DEF PayoutsStand, Paid, ApplicationKeys
<1>6. AtMostOne(c)
    <2>1. CASE c = d
        BY <1>2, <1>3, <2>1 DEF AtMostOne, Others, ApplicationKeys
    <2>2. CASE c # d
        BY <1>2, <1>3, <2>2 DEF AtMostOne, ApplicationKeys
    <2> QED BY <2>1, <2>2
<1> QED BY <1>4, <1>5, <1>6 DEF Course, BooksStand

LEMMA ApplyCourse ==
    ASSUME LifeInv, NEW c \in CampaignIds, NEW d \in CampaignIds, NEW s \in Creators,
           ApplyToCampaign(s, d)
    PROVE  Course(c)
<1>1. /\ applications \in [ApplicationKeys -> Application] /\ <<d, s>> \in ApplicationKeys
      /\ applicants \in [CampaignIds -> Nat]
    BY DEF LifeInv, EscrowInv, TypeOK, ApplicationKeys
<1>2. /\ UNCHANGED campaigns /\ AcceptsCreators(campaigns[d])
      /\ \A key \in ApplicationKeys \ {<<d, s>>} : applications'[key] = applications[key]
      /\ applications'[<<d, s>>].payout_amount = applications[<<d, s>>].payout_amount
      /\ applications'[<<d, s>>].status # "Paid" /\ applications[<<d, s>>].status # "Paid"
      /\ applicants'[d] = applicants[d] + 1
      /\ \A e \in CampaignIds \ {d} : applicants'[e] = applicants[e]
    BY <1>1 DEF ApplyToCampaign
<1>3. CASE c # d
    <2>1. \A r \in Creators : applications'[<<c, r>>] = applications[<<c, r>>]
        BY <1>2, <1>3 DEF ApplicationKeys
    <2> QED BY <1>2, <1>3, <2>1, OtherCampaignStands DEF Course
<1>4. CASE c = d
    <2>1. PayoutsStand(c)
        BY <1>2 DEF PayoutsStand, Paid, ApplicationKeys
    <2>2. \E r \in Creators : Others(c, r)
        BY <1>2, <1>4 DEF Others, ApplicationKeys
    <2> QED BY <1>2, <1>4, <2>1, <2>2 DEF Course, Joined
<1> QED BY <1>3, <1>4

LEMMA ApproveCourse ==
    ASSUME LifeInv, NEW c \in CampaignIds, NEW d \in CampaignIds, NEW s \in Creators,
           NEW b, NEW amount \in Payouts, ApproveCreator(b, d, s, amount)
    PROVE  Course(c)
<1>1. /\ applications \in [ApplicationKeys -> Application] /\ <<d, s>> \in ApplicationKeys
      /\ campaigns \in [CampaignIds -> Campaign]
    BY DEF LifeInv, EscrowInv, TypeOK, ApplicationKeys
<1>2. /\ \A key \in ApplicationKeys \ {<<d, s>>} : applications'[key] = applications[key]
      /\ UNCHANGED applicants
      /\ \A e \in CampaignIds \ {d} : campaigns'[e] = campaigns[e]
    BY <1>1 DEF ApproveCreator
<1>3. CASE c # d
    <2>1. \A r \in Creators : applications'[<<c, r>>] = applications[<<c, r>>]
        BY <1>2, <1>3 DEF ApplicationKeys
    <2> QED BY <1>2, <1>3, <2>1, OtherCampaignStands DEF Course
<1>4. CASE c = d
    <2>1. amount \in Nat \ {0}
        BY DEF ApproveCreator
    <2>2. campaigns'[d] = [campaigns[d] EXCEPT !.approved_count = @ + 1,
                !.committed_payouts = @ + amount, !.status = "Active"]
        BY <1>1 DEF ApproveCreator
    <2>3. applications'[<<d, s>>] =
                [applications[<<d, s>>] EXCEPT !.payout_amount = amount, !.status = "Approved"]
        BY <1>1 DEF ApproveCreator
    <2>4. Others(d, s)
        BY <1>2 DEF Others, ApplicationKeys
    <2>5. Agreed(d, s)
        BY <1>2, <2>1, <2>2, <2>3, <2>4 DEF Agreed, ApproveCreator, WithinEscrow
    <2> QED BY <1>4, <2>5 DEF Course
<1> QED BY <1>3, <1>4

LEMMA SettlementCourse ==
    ASSUME LifeInv, NEW c \in CampaignIds, NEW d \in CampaignIds, NEW s \in Creators,
           ClaimPayment(s, d) \/ SettleStep(d, s)
    PROVE  Course(c)
<1> DEFINE app == applications[<<d, s>>]
<1>1. /\ applications \in [ApplicationKeys -> Application] /\ <<d, s>> \in ApplicationKeys
      /\ campaigns \in [CampaignIds -> Campaign]
    BY DEF LifeInv, EscrowInv, TypeOK, ApplicationKeys
<1>2. /\ campaigns' = [campaigns EXCEPT ![d] = Settled(campaigns[d], app.payout_amount)]
      /\ \A key \in ApplicationKeys \ {<<d, s>>} : applications'[key] = applications[key]
      /\ UNCHANGED applicants
    BY <1>1 DEF ClaimPayment, SettleStep, ResolveDispute
<1>3. CASE c # d
    <2>1. \A r \in Creators : applications'[<<c, r>>] = applications[<<c, r>>]
        BY <1>2, <1>3 DEF ApplicationKeys
    <2>2. campaigns'[c] = campaigns[c]
        BY <1>1, <1>2, <1>3
    <2> QED BY <1>2, <2>1, <2>2, OtherCampaignStands DEF Course
<1>4. CASE c = d
    <2>1. /\ applications'[<<d, s>>] =
                [app EXCEPT !.status = "Paid", !.frozen = FALSE, !.dispute_opened_at = Null]
          /\ app.status \notin {"None", "Pending", "Paid"} \/ Settleable(app)
        <3>1. CASE ClaimPayment(s, d)
            <4>1. applications'[<<d, s>>] = [app EXCEPT !.status = "Paid"]
                BY <1>1, <3>1 DEF ClaimPayment
            <4>2. ~app.frozen /\ app.status = "ProofSubmitted"
                BY <3>1 DEF ClaimPayment, MayClaim, RequireNotFrozen
            <4>3. app.frozen = FALSE /\ app.dispute_opened_at = Null
                BY <4>2, UnfrozenClock
            <4>4. app \in Application
                BY <1>1
            <4> HIDE DEF app
            <4>5. [app EXCEPT !.status = "Paid"] =
                    [app EXCEPT !.status = "Paid", !.frozen = FALSE, !.dispute_opened_at = Null]
                BY <4>3, <4>4 DEF Application
            <4>6. app.status \notin {"None", "Pending", "Paid"}
                BY <4>2
            <4> QED BY <4>1, <4>5, <4>6
        <3>2. ASSUME NEW a, NEW res, ResolveDispute(a, d, s, res) PROVE <2>1!:
            BY <1>1, <3>2 DEF ResolveDispute, MayResolve
        <3> QED BY <3>1, <3>2 DEF SettleStep
    <2>2. Others(d, s)
        BY <1>2 DEF Others, ApplicationKeys
    <2>3. campaigns'[d] = Settled(campaigns[d], app.payout_amount)
        BY <1>1, <1>2
    <2>4. Discharged(d, s)
        BY <1>2, <2>1, <2>2, <2>3 DEF Discharged
    <2> QED BY <1>4, <2>4 DEF Course
<1> QED BY <1>3, <1>4

LEMMA EveryStepIsCourse ==
    ASSUME LifeInv, [Next]_vars, NEW c \in CampaignIds
    PROVE  Course(c)
<1>1. CASE Governance \/ Tick \/ TokenStep \/ UNCHANGED vars
    <2>1. UNCHANGED <<campaigns, applications, applicants>>
        BY <1>1 DEF Governance, Initialize, Pause, Unpause, SetPaused, ProposeAdmin, AcceptAdmin,
            UpdateFeeBps, UpdateTreasury, Tick, TokenStep, Bar, Admit, vars
    <2> QED BY <2>1, OtherCampaignStands DEF Course
<1>2. ASSUME NEW d \in CampaignIds, NEW s \in Creators, PayoutStep(d, s)
      PROVE  Course(c)
    BY <1>2, ReviewCourse, ApplyCourse, ApproveCourse, SettlementCourse DEF PayoutStep
<1>3. ASSUME NEW d \in CampaignIds, NEW s \in Creators, FreezeStep(d, s) \/ SettleStep(d, s)
      PROVE  Course(c)
    BY <1>3, ReviewCourse, SettlementCourse
<1> QED BY <1>1, <1>2, <1>3, NewCampaignCourse, CampaignStepCourse DEF Next

--------------------------------------------------------------------------------
(* The invariant.                                                            *)

\* Whom campaign c selected, and what it promised them.  The promises it has
\* not paid and what it still holds never came to more than its budget together.
TermsOf(c) ==
    LET camp == campaigns[c]
        promised == SumFunction(Promised(c))
    IN
    /\ camp.approved_count = Cardinality(SelectedIn(c))
    /\ camp.approved_count <= camp.max_creators
    /\ promised <= camp.total_budget
    /\ promised - camp.committed_payouts + camp.escrow_balance <= camp.total_budget
    /\ camp.status = "Draft" => camp.total_budget > 0

StatusOf(c) ==
    LET camp == campaigns[c] IN
    CASE camp.status \in {"None", "Draft"} ->
            camp.escrow_balance = 0 /\ applicants[c] = 0
      [] camp.status = "Funded" ->
            /\ camp.approved_count = 0
            /\ camp.escrow_balance = camp.total_budget
      [] camp.status = "Active" -> camp.approved_count > 0 /\ camp.escrow_balance > 0
      [] camp.status = "Cancelled" -> camp.escrow_balance = camp.committed_payouts
      [] camp.status = "Completed" -> camp.escrow_balance = 0
      [] OTHER -> FALSE

\* Every selected creator was promised something, every applicant is counted.
ApplicantsOf(c) ==
    \A r \in Creators :
        LET app == applications[<<c, r>>] IN
        /\ app.status \notin {"None", "Pending"} => app.payout_amount > 0
        /\ app.status # "None" => applicants[c] > 0

TermsInv == LifeInv /\ \A c \in CampaignIds : TermsOf(c) /\ StatusOf(c) /\ ApplicantsOf(c)

\* The figures of campaign c, and what they are sums over.
LEMMA TermsFacts ==
    ASSUME LifeInv, NEW c \in CampaignIds
    PROVE  /\ campaigns[c] \in Campaign /\ applicants[c] \in Nat
           /\ campaigns[c].escrow_balance \in Nat /\ campaigns[c].committed_payouts \in Nat
           /\ campaigns[c].total_budget \in Nat /\ campaigns[c].approved_count \in Nat
           /\ campaigns[c].max_creators \in Nat
           /\ campaigns[c].committed_payouts <= campaigns[c].escrow_balance
           /\ Promised(c) \in [Creators -> Nat] /\ SumFunction(Promised(c)) \in Nat
           /\ \A r \in Creators : Promised(c)[r] <= SumFunction(Promised(c))
           /\ IsFiniteSet(SelectedIn(c)) /\ Cardinality(SelectedIn(c)) \in Nat
           /\ \A r \in Creators : applications[<<c, r>>] \in Application
<1>1. /\ campaigns[c] \in Campaign /\ applicants[c] \in Nat
      /\ applications \in [ApplicationKeys -> Application]
      /\ campaigns[c].committed_payouts <= campaigns[c].escrow_balance
    BY DEF LifeInv, EscrowInv, TypeOK, ReserveExact
<1>2. \A r \in Creators : applications[<<c, r>>] \in Application
    BY <1>1 DEF ApplicationKeys
<1>3. Promised(c) \in [Creators -> Nat]
    BY <1>2 DEF Promised, Application
<1>4. SumFunction(Promised(c)) \in Nat /\ \A r \in Creators : Promised(c)[r] <= SumFunction(Promised(c))
    BY <1>3, SumBound
<1>5. IsFiniteSet(SelectedIn(c)) /\ Cardinality(SelectedIn(c)) \in Nat
    <2>1. SelectedIn(c) \in SUBSET Creators
        BY DEF SelectedIn
    <2>2. IsFiniteSet(SelectedIn(c))
        BY <2>1, FS_Subset
    <2> QED BY <2>2, FS_CardinalityType
<1> QED BY <1>1, <1>2, <1>3, <1>4, <1>5 DEF Campaign

\* A campaign nobody has applied to owes nothing and has selected nobody.
LEMMA NobodyPromised ==
    ASSUME LifeInv, NEW c \in CampaignIds, ApplicantsOf(c), applicants[c] = 0
    PROVE  SumFunction(Promised(c)) = 0 /\ SelectedIn(c) = {} /\ campaigns[c].committed_payouts = 0
<1>1. \A r \in Creators : applications[<<c, r>>].payout_amount = 0
    <2> SUFFICES ASSUME NEW r \in Creators PROVE applications[<<c, r>>].payout_amount = 0
        OBVIOUS
    <2>1. applications[<<c, r>>].status = "None"
        BY DEF ApplicantsOf
    <2> QED BY <2>1 DEF LifeInv, EscrowInv, PendingOwesNothing, ApplicationKeys
<1>2. Promised(c) = [r \in Creators |-> 0]
    BY <1>1 DEF Promised
<1>3. Owed(c) = [r \in Creators |-> 0]
    BY <1>1 DEF Owed
<1>4. SelectedIn(c) = {}
    BY <1>1 DEF SelectedIn
<1>5. SumFunction(Promised(c)) = 0 /\ SumFunction(Owed(c)) = 0
    BY <1>2, <1>3, SumZero
<1> QED BY <1>4, <1>5 DEF LifeInv, EscrowInv, ReserveExact

LEMMA ApplicantsKept ==
    ASSUME LifeInv, NEW c \in CampaignIds, ApplicantsOf(c), Course(c),
           \A r \in Creators : Life(c, r)
    PROVE  ApplicantsOf(c)'
<1> SUFFICES ASSUME NEW r \in Creators
             PROVE  /\ applications'[<<c, r>>].status \notin {"None", "Pending"}
                        => applications'[<<c, r>>].payout_amount > 0
                    /\ applications'[<<c, r>>].status # "None" => applicants'[c] > 0
    BY DEF ApplicantsOf
<1> DEFINE app == applications[<<c, r>>]
           after == applications'[<<c, r>>]
<1>1. /\ app \in Application /\ applicants[c] \in Nat
      /\ app.status \notin {"None", "Pending"} => app.payout_amount > 0
      /\ app.status # "None" => applicants[c] > 0
    BY TermsFacts DEF ApplicantsOf
<1>2. after.status \notin {"None", "Pending"} => after.payout_amount > 0
    <2>1. Life(c, r)
        OBVIOUS
    <2>2. app.status \in {"None", "Pending"} => app.payout_amount = 0
        BY DEF LifeInv, EscrowInv, PendingOwesNothing, ApplicationKeys
    <2>3. CASE after = app
        BY <1>1, <2>3
    <2>4. CASE Applied(app, after)
        BY <1>1, <2>4 DEF Applied, Application
    <2>5. CASE Selected(app, after)
        BY <1>1, <2>5 DEF Selected, Application
    <2>6. CASE Submitted(app, after, campaigns[c])
        BY <1>1, <2>6 DEF Submitted, Application
    <2>7. CASE Accepted(app, after) \/ Refused(app, after, campaigns[c]) \/ Claimed(app, after)
        BY <1>1, <2>7 DEF Accepted, Refused, Claimed, Application
    <2>8. CASE Contested(app, after) \/ Resolved(app, after)
        BY <1>1, <2>8 DEF Contested, Resolved, Settleable, Application
    <2> QED BY <2>1, <2>3, <2>4, <2>5, <2>6, <2>7, <2>8 DEF Life
<1>3. after.status # "None" => applicants'[c] > 0
    <2>1. CASE BooksStand(c) \/ Opened(c)
        BY <1>1, <2>1 DEF BooksStand, Opened, AtMostOne
    <2>2. CASE Joined(c)
        BY <1>1, <2>2 DEF Joined
    <2>3. CASE Deposited(c) \/ Emptied(c)
        BY <1>1, <2>3 DEF Deposited, Emptied
    <2>4. ASSUME NEW s \in Creators, Agreed(c, s) PROVE applicants'[c] > 0 \/ after.status = "None"
        BY <1>1, <2>4 DEF Agreed, Others, ApplicantsOf
    <2>5. ASSUME NEW s \in Creators, Discharged(c, s) PROVE applicants'[c] > 0 \/ after.status = "None"
        <3>1. applications[<<c, s>>].status # "None"
            BY <2>5, TermsFacts DEF Discharged, Settleable, LifeInv, EscrowInv, PendingOwesNothing, ApplicationKeys
        <3>2. applicants[c] > 0
            BY <3>1 DEF ApplicantsOf
        <3> QED BY <2>5, <3>2 DEF Discharged
    <2> QED BY <2>1, <2>2, <2>3, <2>4, <2>5 DEF Course
<1> QED BY <1>2, <1>3

\* The promises of a step that agrees on no payout and settles none stand.
LEMMA PromisesStand ==
    ASSUME NEW c \in CampaignIds,
           \A r \in Creators :
                applications'[<<c, r>>].payout_amount = applications[<<c, r>>].payout_amount
    PROVE  Promised(c)' = Promised(c) /\ SelectedIn(c)' = SelectedIn(c)
    BY DEF Promised, SelectedIn

\* A selection adds one creator, and its payout to what is promised.
LEMMA PromisesGrow ==
    ASSUME LifeInv, LifeInv', NEW c \in CampaignIds, NEW r \in Creators, Others(c, r),
           applications[<<c, r>>].payout_amount = 0, NEW amount \in Nat \ {0},
           applications'[<<c, r>>].payout_amount = amount
    PROVE  /\ SumFunction(Promised(c)') = SumFunction(Promised(c)) + amount
           /\ Cardinality(SelectedIn(c)') = Cardinality(SelectedIn(c)) + 1
<1>1. /\ Promised(c) \in [Creators -> Nat] /\ SumFunction(Promised(c)) \in Nat
      /\ IsFiniteSet(SelectedIn(c))
    BY TermsFacts
<1>2. applications' \in [ApplicationKeys -> Application]
    BY DEF LifeInv, EscrowInv, TypeOK
<1>3. Promised(c)' \in [Creators -> Nat]
    BY <1>2 DEF Promised, Application, ApplicationKeys
<1>4. /\ Promised(c)[r] = 0 /\ Promised(c)'[r] = amount
      /\ \A s \in Creators \ {r} : Promised(c)'[s] = Promised(c)[s]
    BY DEF Promised, Others
<1>5. SumFunction(Promised(c)') = SumFunction(Promised(c)) - Promised(c)[r] + Promised(c)'[r]
    BY <1>1, <1>3, <1>4, SumUpdate
<1>6. SelectedIn(c)' = SelectedIn(c) \cup {r} /\ r \notin SelectedIn(c)
    BY DEF SelectedIn, Others
<1>7. Cardinality(SelectedIn(c) \cup {r}) = Cardinality(SelectedIn(c)) + 1
    BY <1>1, <1>6, FS_AddElement
<1> QED BY <1>1, <1>4, <1>5, <1>6, <1>7

LEMMA TermsKept ==
    ASSUME LifeInv, LifeInv', NEW c \in CampaignIds, TermsOf(c), StatusOf(c), ApplicantsOf(c), Course(c)
    PROVE  TermsOf(c)'
<1> DEFINE camp == campaigns[c]
           after == campaigns'[c]
           promised == SumFunction(Promised(c))
<1>1. /\ camp \in Campaign /\ promised \in Nat
      /\ camp.escrow_balance \in Nat /\ camp.committed_payouts \in Nat
      /\ camp.total_budget \in Nat /\ camp.approved_count \in Nat
      /\ camp.max_creators \in Nat /\ camp.committed_payouts <= camp.escrow_balance
    BY TermsFacts
<1>2. /\ camp.approved_count = Cardinality(SelectedIn(c)) /\ camp.approved_count <= camp.max_creators
      /\ promised <= camp.total_budget
      /\ promised - camp.committed_payouts + camp.escrow_balance <= camp.total_budget
      /\ camp.status = "Draft" => camp.total_budget > 0
    BY DEF TermsOf
<1>3. ASSUME Promised(c)' = Promised(c), SelectedIn(c)' = SelectedIn(c),
             after.approved_count = camp.approved_count, after.max_creators = camp.max_creators,
             after.total_budget = camp.total_budget,
             promised - after.committed_payouts + after.escrow_balance <= camp.total_budget,
             after.status = "Draft" => camp.total_budget > 0
      PROVE  TermsOf(c)'
    BY <1>2, <1>3 DEF TermsOf
<1>4. CASE BooksStand(c) \/ Joined(c)
    <2>1. Promised(c)' = Promised(c) /\ SelectedIn(c)' = SelectedIn(c)
        BY <1>4, PromisesStand DEF BooksStand, Joined, PayoutsStand
    <2>2. /\ after.approved_count = camp.approved_count /\ after.max_creators = camp.max_creators
          /\ after.total_budget = camp.total_budget /\ after.escrow_balance = camp.escrow_balance
          /\ after.committed_payouts = camp.committed_payouts /\ after.status = camp.status
        BY <1>1, <1>4 DEF BooksStand, Joined, Campaign
    <2> QED BY <1>2, <1>3, <2>1, <2>2
<1>5. CASE Opened(c)
    <2>1. Promised(c)' = Promised(c) /\ SelectedIn(c)' = SelectedIn(c)
        BY <1>5, PromisesStand DEF Opened, PayoutsStand
    <2>2. camp.status = "None"
        BY <1>5 DEF Opened, NoCampaign
    <2>3. applicants[c] = 0
        BY <2>2 DEF StatusOf
    <2>4. promised = 0 /\ SelectedIn(c) = {}
        BY <2>3, NobodyPromised
    <2>5. /\ after.approved_count = 0 /\ after.escrow_balance = 0 /\ after.committed_payouts = 0
          /\ after.total_budget \in Nat \ {0}
        BY <1>5 DEF Opened
    <2>6. after.max_creators \in Nat
        BY TermsFacts DEF LifeInv, EscrowInv, TypeOK, Campaign
    <2>7. Cardinality(SelectedIn(c)) = 0
        BY <2>4, FS_EmptySet
    <2> HIDE DEF after
    <2> QED BY <2>1, <2>4, <2>5, <2>6, <2>7 DEF TermsOf, after
<1>6. CASE Deposited(c)
    <2>1. Promised(c)' = Promised(c) /\ SelectedIn(c)' = SelectedIn(c)
        BY <1>6, PromisesStand DEF Deposited
    <2>2. camp.status = "Draft" /\ applicants[c] = 0
        BY <1>6 DEF Deposited, StatusOf
    <2>3. promised = 0 /\ camp.committed_payouts = 0
        BY <2>2, NobodyPromised
    <2>4. /\ after.approved_count = camp.approved_count /\ after.max_creators = camp.max_creators
          /\ after.total_budget = camp.total_budget /\ after.escrow_balance = camp.total_budget
          /\ after.committed_payouts = camp.committed_payouts /\ after.status = "Funded"
        BY <1>1, <1>6 DEF Deposited, Campaign
    <2> QED BY <1>1, <1>3, <2>1, <2>3, <2>4
<1>7. ASSUME NEW r \in Creators, Agreed(c, r)
      PROVE  TermsOf(c)'
    <2>1. PICK amount \in Nat \ {0} :
            /\ camp.approved_count < camp.max_creators
            /\ camp.committed_payouts + amount <= camp.escrow_balance
            /\ after = [camp EXCEPT !.approved_count = @ + 1,
                            !.committed_payouts = @ + amount, !.status = "Active"]
            /\ applications[<<c, r>>].status = "Pending"
            /\ applications'[<<c, r>>] =
                    [applications[<<c, r>>] EXCEPT !.payout_amount = amount, !.status = "Approved"]
            /\ Others(c, r)
        BY <1>7 DEF Agreed
    <2>2. /\ applications[<<c, r>>].payout_amount = 0
          /\ applications'[<<c, r>>].payout_amount = amount
        <3>1. applications[<<c, r>>] \in Application
            BY TermsFacts
        <3>2. applications[<<c, r>>].payout_amount = 0
            BY <2>1 DEF LifeInv, EscrowInv, PendingOwesNothing, ApplicationKeys
        <3>3. applications'[<<c, r>>].payout_amount = amount
            BY <2>1, <3>1 DEF Application
        <3> QED BY <3>2, <3>3
    <2>3. /\ SumFunction(Promised(c)') = promised + amount
          /\ Cardinality(SelectedIn(c)') = Cardinality(SelectedIn(c)) + 1
        <3>1. Others(c, r)
            BY <2>1
        <3> HIDE DEF after, camp
        <3> QED BY <2>2, <3>1, PromisesGrow, LifeInv, LifeInv'
    <2>4. /\ after.approved_count = camp.approved_count + 1 /\ after.max_creators = camp.max_creators
          /\ after.total_budget = camp.total_budget /\ after.escrow_balance = camp.escrow_balance
          /\ after.committed_payouts = camp.committed_payouts + amount /\ after.status = "Active"
        BY <1>1, <2>1 DEF Campaign
    <2> HIDE DEF camp, after, promised
    <2>5. /\ after.approved_count = Cardinality(SelectedIn(c)')
          /\ after.approved_count <= after.max_creators
          /\ SumFunction(Promised(c)') <= after.total_budget
          /\ SumFunction(Promised(c)') - after.committed_payouts + after.escrow_balance
                <= after.total_budget
        BY <1>1, <1>2, <2>1, <2>3, <2>4
    <2> QED BY <2>4, <2>5 DEF TermsOf, after
<1>8. ASSUME NEW r \in Creators, Discharged(c, r)
      PROVE  TermsOf(c)'
    <2> DEFINE amount == applications[<<c, r>>].payout_amount
    <2>1. applications[<<c, r>>] \in Application /\ amount \in Nat
        BY TermsFacts DEF Application
    <2>2. applications'[<<c, r>>].payout_amount = amount
        BY <1>8, <2>1 DEF Discharged, Application
    <2>3. Promised(c)' = Promised(c) /\ SelectedIn(c)' = SelectedIn(c)
        BY <1>8, <2>2, PromisesStand DEF Discharged, Others
    <2>4. /\ after.approved_count = camp.approved_count /\ after.max_creators = camp.max_creators
          /\ after.total_budget = camp.total_budget
          /\ after.escrow_balance = camp.escrow_balance - amount
          /\ after.committed_payouts = camp.committed_payouts - amount
          /\ after.status \in {"Completed", camp.status}
        BY <1>1, <1>8, <2>1 DEF Discharged, Settled, Campaign
    <2> HIDE DEF amount
    <2> QED BY <1>1, <1>2, <1>3, <2>1, <2>3, <2>4
<1>9. CASE Emptied(c)
    <2>1. Promised(c)' = Promised(c) /\ SelectedIn(c)' = SelectedIn(c)
        BY <1>9, PromisesStand DEF Emptied
    <2>2. PICK status : /\ SweptTo(camp, status)
                        /\ after = [camp EXCEPT !.escrow_balance = camp.committed_payouts,
                                                !.status = status]
        BY <1>9 DEF Emptied
    <2>3. /\ after.approved_count = camp.approved_count /\ after.max_creators = camp.max_creators
          /\ after.total_budget = camp.total_budget
          /\ after.escrow_balance = camp.committed_payouts
          /\ after.committed_payouts = camp.committed_payouts
          /\ after.status = status
        BY <1>1, <2>2 DEF Campaign
    <2>4. after.status = "Draft" => camp.status = "Draft"
        BY <2>2, <2>3 DEF SweptTo
    <2> QED BY <1>1, <1>2, <1>3, <2>1, <2>3, <2>4
<1> QED BY <1>4, <1>5, <1>6, <1>7, <1>8, <1>9 DEF Course

LEMMA StatusKept ==
    ASSUME LifeInv, NEW c \in CampaignIds, TermsOf(c), StatusOf(c), ApplicantsOf(c), Course(c)
    PROVE  StatusOf(c)'
<1> DEFINE camp == campaigns[c]
           after == campaigns'[c]
<1>1. /\ camp \in Campaign /\ applicants[c] \in Nat
      /\ camp.escrow_balance \in Nat /\ camp.committed_payouts \in Nat
      /\ camp.total_budget \in Nat /\ camp.approved_count \in Nat
      /\ camp.committed_payouts <= camp.escrow_balance
    BY TermsFacts
<1>2. ASSUME after.status = camp.status, after.approved_count = camp.approved_count,
             after.escrow_balance = camp.escrow_balance,
             after.committed_payouts = camp.committed_payouts,
             after.total_budget = camp.total_budget,
             applicants'[c] = applicants[c] \/ camp.status \in {"Funded", "Active"}
      PROVE  StatusOf(c)'
    BY <1>2 DEF StatusOf
<1>3. CASE BooksStand(c) \/ Joined(c)
    <2>1. /\ after.status = camp.status /\ after.approved_count = camp.approved_count
          /\ after.escrow_balance = camp.escrow_balance
          /\ after.committed_payouts = camp.committed_payouts
          /\ after.total_budget = camp.total_budget
        BY <1>1, <1>3 DEF BooksStand, Joined, Campaign
    <2>2. applicants'[c] = applicants[c] \/ camp.status \in {"Funded", "Active"}
        BY <1>3 DEF BooksStand, Joined, AtMostOne, AcceptsCreators
    <2> QED BY <1>2, <2>1, <2>2
<1>4. CASE Opened(c)
    <2>1. camp.status = "None" /\ applicants'[c] = applicants[c]
        BY <1>4 DEF Opened, NoCampaign, AtMostOne
    <2>2. applicants[c] = 0
        BY <2>1 DEF StatusOf
    <2>3. after.status = "Draft" /\ after.escrow_balance = 0
        BY <1>4 DEF Opened
    <2> QED BY <2>1, <2>2, <2>3 DEF StatusOf
<1>5. CASE Deposited(c)
    <2>1. camp.status = "Draft" /\ applicants[c] = 0
        BY <1>5 DEF Deposited, StatusOf
    <2>2. SelectedIn(c) = {}
        BY <2>1, NobodyPromised
    <2>3. camp.approved_count = 0
        BY <2>2, FS_EmptySet DEF TermsOf
    <2>4. /\ after.status = "Funded" /\ after.approved_count = 0
          /\ after.escrow_balance = camp.total_budget /\ after.total_budget = camp.total_budget
        BY <1>1, <1>5, <2>3 DEF Deposited, Campaign
    <2> QED BY <2>4 DEF StatusOf
<1>6. ASSUME NEW r \in Creators, Agreed(c, r)
      PROVE  StatusOf(c)'
    <2>1. PICK amount \in Nat \ {0} :
            /\ camp.committed_payouts + amount <= camp.escrow_balance
            /\ after = [camp EXCEPT !.approved_count = @ + 1,
                            !.committed_payouts = @ + amount, !.status = "Active"]
        BY <1>6 DEF Agreed
    <2>2. /\ after.approved_count = camp.approved_count + 1 /\ after.status = "Active"
          /\ after.escrow_balance = camp.escrow_balance
        BY <1>1, <2>1 DEF Campaign
    <2>3. after.approved_count > 0 /\ after.escrow_balance > 0
        BY <1>1, <2>1, <2>2
    <2> QED BY <2>2, <2>3 DEF StatusOf
<1>7. ASSUME NEW r \in Creators, Discharged(c, r)
      PROVE  StatusOf(c)'
    <2> DEFINE app == applications[<<c, r>>]
               amount == app.payout_amount
    <2>1. app \in Application /\ amount \in Nat
        BY TermsFacts DEF Application
    <2>2. amount > 0
        <3>1. app.status \notin {"None", "Pending"} => amount > 0
            BY DEF ApplicantsOf
        <3> QED BY <1>7, <3>1 DEF Discharged, Settleable
    <2>3. app.status \notin {"None", "Pending"}
        BY <2>2 DEF LifeInv, EscrowInv, PendingOwesNothing, ApplicationKeys
    <2>4. applicants[c] > 0 /\ camp.approved_count > 0
        <3>1. applicants[c] > 0
            BY <2>3 DEF ApplicantsOf
        <3>2. r \in SelectedIn(c)
            BY <2>2 DEF SelectedIn
        <3>3. IsFiniteSet(SelectedIn(c)) /\ Cardinality(SelectedIn(c)) \in Nat
            BY TermsFacts
        <3>4. Cardinality(SelectedIn(c)) # 0
            BY <3>2, <3>3, FS_EmptySet
        <3> QED BY <3>1, <3>3, <3>4 DEF TermsOf
    <2>5. /\ after.approved_count = camp.approved_count
          /\ after.total_budget = camp.total_budget
          /\ after.escrow_balance = camp.escrow_balance - amount
          /\ after.committed_payouts = camp.committed_payouts - amount
          /\ after.status = IF after.escrow_balance = 0 THEN "Completed" ELSE camp.status
        BY <1>1, <1>7, <2>1 DEF Discharged, Settled, Campaign
    <2>6. amount <= camp.committed_payouts
        <3>1. app.status # "Paid"
            BY <1>7 DEF Discharged, Settleable
        <3> QED BY <3>1, UnpaidIsReserved DEF LifeInv
    <2> HIDE DEF amount
    <2>7. after.escrow_balance \in Nat
        BY <1>1, <2>1, <2>5, <2>6
    <2>8. CASE after.escrow_balance = 0
        BY <2>5, <2>8 DEF StatusOf
    <2>9. CASE after.escrow_balance # 0
        <3>1. after.status = camp.status /\ camp.status \notin {"None", "Draft", "Funded"}
            BY <1>1, <2>4, <2>5, <2>9 DEF StatusOf
        <3>2. camp.status # "Completed"
            <4>1. camp.status = "Completed" => camp.escrow_balance = 0
                BY DEF StatusOf
            <4> QED BY <1>1, <2>1, <2>2, <2>6, <4>1
        <3>3. /\ camp.status \in {"Active", "Cancelled"}
              /\ camp.status = "Cancelled" => camp.escrow_balance = camp.committed_payouts
            <4>1. camp.status \in {"Active", "Cancelled"}
                BY <3>1, <3>2 DEF StatusOf
            <4>2. camp.status = "Cancelled" => camp.escrow_balance = camp.committed_payouts
                BY DEF StatusOf
            <4> QED BY <4>1, <4>2
        <3>4. camp.status = "Active" => after.approved_count > 0 /\ after.escrow_balance > 0
            BY <2>4, <2>5, <2>7, <2>9
        <3>5. camp.status = "Cancelled" => after.escrow_balance = after.committed_payouts
            BY <2>5, <3>3
        <3> QED BY <3>1, <3>3, <3>4, <3>5 DEF StatusOf
    <2> QED BY <2>8, <2>9
<1>8. CASE Emptied(c)
    <2>1. PICK status : /\ SweptTo(camp, status)
                        /\ after = [camp EXCEPT !.escrow_balance = camp.committed_payouts,
                                                !.status = status]
        BY <1>8 DEF Emptied
    <2>2. /\ after.approved_count = camp.approved_count
          /\ after.total_budget = camp.total_budget
          /\ after.escrow_balance = camp.committed_payouts
          /\ after.committed_payouts = camp.committed_payouts
          /\ after.status = status
          /\ applicants'[c] = applicants[c]
        BY <1>1, <1>8, <2>1 DEF Emptied, Campaign
    <2>3. CASE status \in {"Cancelled", "Completed"}
        BY <1>1, <2>1, <2>2, <2>3 DEF SweptTo, StatusOf
    <2>4. CASE status \notin {"Cancelled", "Completed"}
        <3>1. status = camp.status /\ camp.committed_payouts > 0
            BY <2>1, <2>4 DEF SweptTo
        <3>2. applicants[c] # 0
            BY <1>1, <3>1, NobodyPromised
        <3>3. camp.status \in {"Funded", "Active"}
            BY <2>4, <3>1, <3>2 DEF StatusOf
        <3>4. camp.status # "Funded"
            <4>1. SUFFICES ASSUME camp.status = "Funded" PROVE FALSE
                OBVIOUS
            <4>2. camp.approved_count = 0
                BY <4>1 DEF StatusOf
            <4>3. SelectedIn(c) = {}
                BY <4>2, TermsFacts, FS_EmptySet DEF TermsOf
            <4>4. Owed(c) = [r \in Creators |-> 0]
                <5>1. \A r \in Creators : applications[<<c, r>>].payout_amount \in Nat
                    BY TermsFacts DEF Application
                <5>2. \A r \in Creators : applications[<<c, r>>].payout_amount = 0
                    BY <4>3, <5>1 DEF SelectedIn
                <5> QED BY <5>2 DEF Owed
            <4>5. SumFunction(Owed(c)) = 0
                BY <4>4, SumZero
            <4> QED BY <3>1, <4>5 DEF LifeInv, EscrowInv, ReserveExact
        <3>5. camp.status = "Active" /\ camp.approved_count > 0
            BY <3>3, <3>4 DEF StatusOf
        <3> QED BY <2>2, <3>1, <3>5 DEF StatusOf
    <2> QED BY <2>3, <2>4
<1> QED BY <1>3, <1>4, <1>5, <1>6, <1>7, <1>8 DEF Course

LEMMA TermsInitially == Init => TermsInv
<1> SUFFICES ASSUME Init PROVE TermsInv
    OBVIOUS
<1>1. LifeInv
    <2>1. FrozenIsSettleable
        BY DEF Init, FrozenIsSettleable, NoApplication
    <2> QED BY <2>1, InitEstablishes DEF LifeInv
<1> SUFFICES ASSUME NEW c \in CampaignIds PROVE TermsOf(c) /\ StatusOf(c) /\ ApplicantsOf(c)
    BY <1>1 DEF TermsInv
<1>2. /\ campaigns[c] = NoCampaign /\ applicants[c] = 0
      /\ \A r \in Creators : applications[<<c, r>>] = NoApplication
    BY DEF Init, ApplicationKeys
<1>3. ApplicantsOf(c)
    BY <1>2 DEF ApplicantsOf, NoApplication
<1>4. StatusOf(c)
    BY <1>2 DEF StatusOf, NoCampaign
<1>5. SumFunction(Promised(c)) = 0 /\ SelectedIn(c) = {}
    BY <1>1, <1>2, <1>3, NobodyPromised
<1>6. TermsOf(c)
    BY <1>2, <1>5, FS_EmptySet DEF TermsOf, NoCampaign
<1> QED BY <1>3, <1>4, <1>6

LEMMA TermsInvPreserved == TermsInv /\ [Next]_vars => TermsInv'
<1> SUFFICES ASSUME TermsInv, [Next]_vars PROVE TermsInv'
    OBVIOUS
<1>1. LifeInv /\ LifeInv'
    BY LifeInvPreserved DEF TermsInv
<1> SUFFICES ASSUME NEW c \in CampaignIds PROVE (TermsOf(c) /\ StatusOf(c) /\ ApplicantsOf(c))'
    BY <1>1 DEF TermsInv
<1>2. TermsOf(c) /\ StatusOf(c) /\ ApplicantsOf(c)
    BY DEF TermsInv
<1>3. Course(c) /\ \A r \in Creators : Life(c, r)
    BY <1>1, EveryStepIsCourse, EveryStepIsLife DEF LifeInv
<1> QED BY <1>1, <1>2, <1>3, TermsKept, StatusKept, ApplicantsKept

--------------------------------------------------------------------------------
(* The theorems.                                                             *)

\* The invariant about every campaign's terms.
THEOREM TermsInvariant == Spec => []TermsInv
    BY TermsInitially, TermsInvPreserved, PTL DEF Spec

\* approve_creator counts every selected creator once, within max_creators, and
\* never promises more in all than the business deposited, whatever has been paid
\* or refunded in between.
THEOREM SelectionStaysWithinTerms == Spec => []SelectionWithinTerms
<1>1. TermsInv => SelectionWithinTerms
    BY DEF TermsInv, TermsOf, SelectionWithinTerms, SelectedIn
<1> QED BY <1>1, TermsInvariant, PTL

\* Whichever of the eight entry points that set it did so last, a campaign's status
\* is true of its books.
THEOREM StatusIsTrue == Spec => []StatusMatchesBooks
<1>1. TermsInv => StatusMatchesBooks
    BY DEF TermsInv, StatusOf, StatusMatchesBooks
<1> QED BY <1>1, TermsInvariant, PTL

\* The brief is locked from the first application on, through every later step of
\* the campaign, its completion included.
THEOREM BriefStaysLocked == Spec => BriefLocked
<1>1. ASSUME TermsInv, [Next]_vars, NEW c \in CampaignIds, NEW r \in Creators,
             applications[<<c, r>>].status # "None"
      PROVE  campaigns'[c].metadata_uri = campaigns[c].metadata_uri
    <2>1. Course(c) /\ campaigns[c] \in Campaign /\ applicants[c] > 0
        BY <1>1, EveryStepIsCourse, TermsFacts DEF TermsInv, ApplicantsOf
    <2>2. CASE BooksStand(c)
        BY <2>1, <2>2 DEF BooksStand
    <2>3. CASE Joined(c)
        BY <2>3 DEF Joined
    <2>4. ~Opened(c)
        <3>1. campaigns[c] = NoCampaign => applicants[c] = 0
            BY <1>1 DEF TermsInv, StatusOf, NoCampaign
        <3> QED BY <2>1, <3>1 DEF Opened
    <2>5. CASE Deposited(c) \/ Emptied(c)
        BY <2>1, <2>5 DEF Deposited, Emptied, Campaign
    <2>6. ASSUME NEW s \in Creators, Agreed(c, s) \/ Discharged(c, s)
          PROVE  campaigns'[c].metadata_uri = campaigns[c].metadata_uri
        BY <2>1, <2>6 DEF Agreed, Discharged, Settled, Campaign
    <2> QED BY <2>1, <2>2, <2>3, <2>4, <2>5, <2>6 DEF Course
<1>2. TermsInv /\ [Next]_vars =>
        [\A c \in CampaignIds :
            (\E r \in Creators : applications[<<c, r>>].status # "None")
            => campaigns'[c].metadata_uri = campaigns[c].metadata_uri]_vars
    BY <1>1
<1> QED BY <1>2, TermsInvariant, PTL DEF Spec, BriefLocked

--------------------------------------------------------------------------------
(* Every campaign keeps its promise.                                         *)

PromisesIn(c) ==
    [r \in Creators |-> [standing |-> Standing(applications[<<c, r>>]),
                         amount |-> applications[<<c, r>>].payout_amount]]

\* The sum in the abstract specification is the library's.
LEMMA SameSum ==
    ASSUME NEW c, NEW f
    PROVE  PromiseOf(c)!SumFunction(f) = SumFunction(f)
    BY DEF SumFunction, SumFunctionOnSet, FoldFunctionOnSet, MapThenFoldSet,
           PromiseOf!SumFunction, PromiseOf!SumFunctionOnSet, PromiseOf!FoldFunctionOnSet,
           PromiseOf!MapThenFoldSet

\* An application whose standing is one thing only.
Plain(app) ==
    /\ app.payout_amount \in Nat /\ app.frozen \in BOOLEAN
    /\ app.status = "Paid" => app.payout_amount > 0
    /\ app.frozen => Settleable(app)

LEMMA StandingIs ==
    ASSUME NEW app, Plain(app)
    PROVE  /\ Standing(app) = "none" <=> app.payout_amount = 0
           /\ Standing(app) = "settled" <=> app.status = "Paid"
           /\ Standing(app) = "contested" <=> app.frozen
           /\ Standing(app) = "promised" <=> Settleable(app) /\ ~app.frozen
           /\ Standing(app) \in {"none", "promised", "contested", "settled"}
           /\ Standing(app) \in {"promised", "contested"} <=> Settleable(app)
<1>1. CASE app.payout_amount = 0
    BY <1>1 DEF Plain, Standing, Settleable
<1>2. CASE app.status = "Paid"
    BY <1>2 DEF Plain, Standing, Settleable
<1>3. CASE app.payout_amount # 0 /\ app.status # "Paid"
    BY <1>3 DEF Plain, Standing, Settleable
<1> QED BY <1>1, <1>2, <1>3

LEMMA ApplicationsArePlain == TermsInv => \A key \in ApplicationKeys : Plain(applications[key])
<1> SUFFICES ASSUME TermsInv, NEW c \in CampaignIds, NEW r \in Creators
             PROVE  Plain(applications[<<c, r>>])
    BY DEF ApplicationKeys
<1>1. applications[<<c, r>>] \in Application
    BY TermsFacts DEF TermsInv
<1>2. FreezeOK(applications[<<c, r>>])
    BY LifeInvFacts DEF TermsInv
<1>3. applications[<<c, r>>].status = "Paid" => applications[<<c, r>>].payout_amount > 0
    BY DEF TermsInv, ApplicantsOf
<1> QED BY <1>1, <1>2, <1>3 DEF Plain, FreezeOK, Application

\* The reserve of the abstract vault is the campaign's committed_payouts.
LEMMA ReserveIsCommitted ==
    ASSUME TermsInv, NEW c \in CampaignIds
    PROVE  PromiseOf(c)!Reserve = campaigns[c].committed_payouts
<1>1. Owed(c) = [r \in Creators |->
            IF PromiseOf(c)!Outstanding(PromisesIn(c)[r]) THEN PromisesIn(c)[r].amount ELSE 0]
    <2>1. \A r \in Creators : <<c, r>> \in ApplicationKeys
        BY DEF ApplicationKeys
    <2> QED BY <2>1, StandingIs, ApplicationsArePlain DEF Owed, PromisesIn, PromiseOf!Outstanding
<1>2. PromiseOf(c)!Reserve = PromiseOf(c)!SumFunction(Owed(c))
    BY <1>1 DEF PromiseOf!Reserve, PromisesIn
<1>3. PromiseOf(c)!SumFunction(Owed(c)) = SumFunction(Owed(c))
    BY SameSum
<1> QED BY <1>2, <1>3 DEF TermsInv, LifeInv, EscrowInv, ReserveExact

\* Where no payout is agreed or settled, all that can happen to a campaign's
\* promises is that one is contested.
LEMMA QuietPromises ==
    ASSUME NEW c \in CampaignIds, \A r \in Creators : EvidenceHeld(<<c, r>>),
           \A key \in ApplicationKeys : Plain(applications[key]) /\ Plain(applications'[key]),
           PayoutsStand(c), campaigns'[c].escrow_balance = campaigns[c].escrow_balance,
           \/ \A r \in Creators : applications'[<<c, r>>] = applications[<<c, r>>]
           \/ \E r \in Creators : Others(c, r)
    PROVE  \/ \E r \in Creators : PromiseOf(c)!Contest(r)
           \/ UNCHANGED PromiseOf(c)!promiseVars
<1>1. CASE PromisesIn(c)' = PromisesIn(c)
    BY <1>1 DEF PromiseOf!promiseVars, PromisesIn
<1>2. ASSUME NEW r \in Creators, Others(c, r), PromisesIn(c)' # PromisesIn(c)
      PROVE  PromiseOf(c)!Contest(r)
    <2> DEFINE app == applications[<<c, r>>]
               after == applications'[<<c, r>>]
    <2>1. \A s \in Creators \ {r} : PromisesIn(c)'[s] = PromisesIn(c)[s]
        BY <1>2 DEF PromisesIn, Others, Standing
    <2>2. PromisesIn(c)'[r] # PromisesIn(c)[r]
        BY <1>2, <2>1 DEF PromisesIn
    <2>0. Plain(app) /\ Plain(after)
        BY DEF ApplicationKeys
    <2>3. after.payout_amount = app.payout_amount /\ (after.status = "Paid" <=> app.status = "Paid")
        BY DEF PayoutsStand, Paid
    <2>4. Standing(after) # Standing(app)
        BY <2>2, <2>3 DEF PromisesIn
    <2>5. /\ Standing(app) \in {"none", "promised", "contested", "settled"}
          /\ Standing(app) = "none" <=> app.payout_amount = 0
          /\ Standing(app) = "settled" <=> app.status = "Paid"
          /\ Standing(app) = "contested" <=> app.frozen
        BY <2>0, StandingIs
    <2>6. /\ Standing(after) \in {"none", "promised", "contested", "settled"}
          /\ Standing(after) = "none" <=> after.payout_amount = 0
          /\ Standing(after) = "settled" <=> after.status = "Paid"
          /\ Standing(after) = "contested" <=> after.frozen
        BY <2>0, StandingIs
    <2>7. app.frozen => after = app \/ after.status = "Paid"
        BY DEF EvidenceHeld, Paid
    <2>8. Standing(app) = "promised" /\ Standing(after) = "contested"
        BY <2>3, <2>4, <2>5, <2>6, <2>7
    <2>9. PromisesIn(c)' = [PromisesIn(c) EXCEPT ![r].standing = "contested"]
        BY <2>1, <2>3, <2>8 DEF PromisesIn
    <2> QED BY <2>8, <2>9 DEF PromiseOf!Contest, PromisesIn
<1> QED BY <1>1, <1>2 DEF PromisesIn

LEMMA DepositRefines ==
    ASSUME TermsInv, NEW c \in CampaignIds, Deposited(c)
    PROVE  PromiseOf(c)!Deposit
<1>1. /\ campaigns[c] \in Campaign /\ campaigns[c].status = "Draft"
      /\ campaigns[c].total_budget \in Nat
    BY TermsFacts DEF TermsInv, Deposited
<1>2. campaigns[c].escrow_balance = 0 /\ applicants[c] = 0
    BY <1>1 DEF TermsInv, StatusOf
<1>3. campaigns'[c].escrow_balance = campaigns[c].total_budget
    BY <1>1 DEF Deposited, Campaign
<1>4. campaigns[c].total_budget > 0
    BY <1>1 DEF TermsInv, TermsOf
<1>5. \A r \in Creators : Standing(applications[<<c, r>>]) = "none"
    <2> SUFFICES ASSUME NEW r \in Creators PROVE Standing(applications[<<c, r>>]) = "none"
        OBVIOUS
    <2>1. applications[<<c, r>>].status = "None"
        BY <1>2 DEF TermsInv, ApplicantsOf
    <2>2. applications[<<c, r>>].payout_amount = 0
        BY <2>1 DEF TermsInv, LifeInv, EscrowInv, PendingOwesNothing, ApplicationKeys
    <2> QED BY <2>2, StandingIs, ApplicationsArePlain DEF ApplicationKeys
<1>6. PromisesIn(c)' = PromisesIn(c)
    BY DEF Deposited, PromisesIn, Standing
<1> QED BY <1>1, <1>2, <1>3, <1>4, <1>5, <1>6 DEF PromiseOf!Deposit, PromisesIn

LEMMA SelectionRefines ==
    ASSUME TermsInv, NEW c \in CampaignIds, NEW r \in Creators, Agreed(c, r),
           Plain(applications'[<<c, r>>])
    PROVE  PromiseOf(c)!Promise(r)
<1> DEFINE app == applications[<<c, r>>]
           after == applications'[<<c, r>>]
<1>1. PICK amount \in Nat \ {0} :
        /\ campaigns[c].committed_payouts + amount <= campaigns[c].escrow_balance
        /\ campaigns'[c] = [campaigns[c] EXCEPT !.approved_count = @ + 1,
                                !.committed_payouts = @ + amount, !.status = "Active"]
        /\ app.status = "Pending"
        /\ after = [app EXCEPT !.payout_amount = amount, !.status = "Approved"]
        /\ Others(c, r)
    BY DEF Agreed
<1>2. campaigns[c] \in Campaign /\ app \in Application
    BY TermsFacts DEF TermsInv
<1>3. campaigns'[c].escrow_balance = campaigns[c].escrow_balance
    BY <1>1, <1>2 DEF Campaign
<1>4. app.payout_amount = 0 /\ ~app.frozen
    <2>1. app.payout_amount = 0
        BY <1>1 DEF TermsInv, LifeInv, EscrowInv, PendingOwesNothing, ApplicationKeys
    <2>2. app.frozen => Settleable(app)
        BY LifeInvFacts DEF TermsInv, FreezeOK
    <2> QED BY <2>1, <2>2 DEF Settleable
<1>5. after.payout_amount = amount /\ after.status = "Approved" /\ after.frozen = app.frozen
    BY <1>1, <1>2 DEF Application
<1>6. Standing(app) = "none" /\ Standing(after) = "promised"
    <2>1. Plain(app)
        BY ApplicationsArePlain DEF ApplicationKeys
    <2> QED BY <1>4, <1>5, <2>1, StandingIs DEF Settleable
<1>7. \A s \in Creators \ {r} : PromisesIn(c)'[s] = PromisesIn(c)[s]
    BY <1>1 DEF PromisesIn, Others, Standing
<1>8. PromisesIn(c)'[r] = [standing |-> "promised", amount |-> amount]
    BY <1>5, <1>6 DEF PromisesIn
<1>9. PromisesIn(c)' =
        [PromisesIn(c) EXCEPT ![r] = [standing |-> "promised", amount |-> amount]]
    BY <1>7, <1>8 DEF PromisesIn
<1>10. PromiseOf(c)!Reserve + amount <= campaigns[c].escrow_balance
    BY <1>1, ReserveIsCommitted
<1>11. PromisesIn(c)[r].standing = "none" /\ PromisesIn(c)'[r].amount = amount
    BY <1>6, <1>8 DEF PromisesIn
<1> HIDE DEF app, after
<1>12. /\ PromisesIn(c)[r].standing = "none"
       /\ PromisesIn(c)'[r].amount > 0
       /\ PromiseOf(c)!Reserve + PromisesIn(c)'[r].amount <= campaigns[c].escrow_balance
       /\ PromisesIn(c)' = [PromisesIn(c) EXCEPT
                ![r] = [standing |-> "promised", amount |-> PromisesIn(c)'[r].amount]]
    <2>1. PromisesIn(c)'[r].amount = amount /\ amount > 0
        BY <1>11
    <2>2. PromiseOf(c)!Reserve + PromisesIn(c)'[r].amount <= campaigns[c].escrow_balance
        BY <1>10, <2>1
    <2>3. PromisesIn(c)' = [PromisesIn(c) EXCEPT
                ![r] = [standing |-> "promised", amount |-> PromisesIn(c)'[r].amount]]
        BY <1>9, <2>1
    <2> QED BY <1>11, <2>1, <2>2, <2>3
<1> QED BY <1>3, <1>12 DEF PromiseOf!Promise, PromisesIn

LEMMA SettlementRefines ==
    ASSUME TermsInv, NEW c \in CampaignIds, NEW r \in Creators, Discharged(c, r),
           Plain(applications'[<<c, r>>])
    PROVE  PromiseOf(c)!Settle(r)
<1> DEFINE app == applications[<<c, r>>]
           after == applications'[<<c, r>>]
<1>1. campaigns[c] \in Campaign /\ app \in Application /\ Plain(app)
    BY TermsFacts, ApplicationsArePlain DEF TermsInv, ApplicationKeys
<1>2. Settleable(app)
    <2>1. app.status \notin {"None", "Pending"} => app.payout_amount > 0
        BY DEF TermsInv, ApplicantsOf
    <2> QED BY <2>1 DEF Discharged, Settleable
<1>3. after.payout_amount = app.payout_amount /\ after.status = "Paid"
    BY <1>1 DEF Discharged, Application
<1>4. campaigns'[c].escrow_balance = campaigns[c].escrow_balance - app.payout_amount
    BY <1>1 DEF Discharged, Settled, Campaign, Application
<1>5. Standing(app) \in {"promised", "contested"} /\ Standing(after) = "settled"
    BY <1>1, <1>2, <1>3, StandingIs
<1>6. \A s \in Creators \ {r} : PromisesIn(c)'[s] = PromisesIn(c)[s]
    BY DEF PromisesIn, Discharged, Others, Standing
<1>7. PromisesIn(c)' = [PromisesIn(c) EXCEPT ![r].standing = "settled"]
    BY <1>3, <1>5, <1>6 DEF PromisesIn
<1> QED BY <1>4, <1>5, <1>7 DEF PromiseOf!Settle, PromiseOf!Outstanding, PromisesIn

LEMMA SweepRefines ==
    ASSUME TermsInv, NEW c \in CampaignIds, Emptied(c)
    PROVE  PromiseOf(c)!Withdraw
<1>1. campaigns[c] \in Campaign
    BY TermsFacts DEF TermsInv
<1>2. campaigns'[c].escrow_balance = campaigns[c].committed_payouts
    BY <1>1 DEF Emptied, Campaign
<1>3. PromisesIn(c)' = PromisesIn(c)
    BY DEF Emptied, PromisesIn, Standing
<1> QED BY <1>2, <1>3, ReserveIsCommitted DEF PromiseOf!Withdraw, PromisesIn

LEMMA StepRefines ==
    ASSUME TermsInv, TermsInv', [Next]_vars, NEW c \in CampaignIds
    PROVE  PromiseOf(c)!Next \/ UNCHANGED PromiseOf(c)!promiseVars
<1>1. (\A key \in ApplicationKeys : Plain(applications[key]))'
    BY ApplicationsArePlain, PTL
<1>2. \A key \in ApplicationKeys : Plain(applications[key]) /\ Plain(applications'[key])
    BY <1>1, ApplicationsArePlain
<1>3. \A r \in Creators : Plain(applications'[<<c, r>>]) /\ EvidenceHeld(<<c, r>>)
    BY <1>2, EvidenceStands DEF TermsInv, ApplicationKeys
<1>4. ASSUME PayoutsStand(c), campaigns'[c].escrow_balance = campaigns[c].escrow_balance,
             \/ \A r \in Creators : applications'[<<c, r>>] = applications[<<c, r>>]
             \/ \E r \in Creators : Others(c, r)
      PROVE  PromiseOf(c)!Next \/ UNCHANGED PromiseOf(c)!promiseVars
    BY <1>2, <1>3, <1>4, QuietPromises DEF PromiseOf!Next
<1>5. campaigns[c] \in Campaign
    BY TermsFacts DEF TermsInv
<1>6. CASE BooksStand(c)
    <2>1. campaigns'[c].escrow_balance = campaigns[c].escrow_balance
        BY <1>5, <1>6 DEF BooksStand, Campaign
    <2> QED BY <1>4, <1>6, <2>1 DEF BooksStand, AtMostOne
<1>7. CASE Joined(c)
    BY <1>4, <1>7 DEF Joined
<1>8. CASE Opened(c)
    <2>1. campaigns'[c].escrow_balance = campaigns[c].escrow_balance
        BY <1>8 DEF Opened, NoCampaign
    <2> QED BY <1>4, <1>8, <2>1 DEF Opened, AtMostOne
<1>9. CASE Deposited(c)
    BY <1>9, DepositRefines DEF PromiseOf!Next
<1>10. ASSUME NEW r \in Creators, Agreed(c, r) \/ Discharged(c, r)
       PROVE  PromiseOf(c)!Next
    BY <1>3, <1>10, SelectionRefines, SettlementRefines DEF PromiseOf!Next
<1>11. CASE Emptied(c)
    BY <1>11, SweepRefines DEF PromiseOf!Next
<1>12. Course(c)
    BY EveryStepIsCourse DEF TermsInv
<1> QED BY <1>6, <1>7, <1>8, <1>9, <1>10, <1>11, <1>12 DEF Course

\* campaign-escrow implements EscrowPromise for every campaign at once, for any
\* number of campaigns, creators and tokens: whatever entry points are called in
\* whatever order, each campaign's money is deposited once, promised within what it
\* holds, settled promise by promise in full, and withdrawn only as far as it is free.
THEOREM PromisesAreKept == Spec => CampaignsKeepPromises
<1>1. Init => \A c \in CampaignIds : PromiseOf(c)!Init
    <2> SUFFICES ASSUME Init, NEW c \in CampaignIds PROVE PromiseOf(c)!Init
        OBVIOUS
    <2>1. campaigns[c].escrow_balance = 0
        BY DEF Init, NoCampaign
    <2>2. \A r \in Creators : applications[<<c, r>>] = NoApplication
        BY DEF Init, ApplicationKeys
    <2>3. NoApplication.payout_amount = 0 /\ Plain(NoApplication)
        BY DEF NoApplication, Plain
    <2>4. \A r \in Creators : Standing(applications[<<c, r>>]) = "none"
        BY <2>2, <2>3, StandingIs
    <2> QED BY <2>1, <2>2, <2>3, <2>4 DEF PromiseOf!Init
<1>2. TermsInv /\ TermsInv' /\ [Next]_vars =>
        [\A c \in CampaignIds :
            PromiseOf(c)!Next \/ UNCHANGED PromiseOf(c)!promiseVars]_vars
    BY StepRefines
<1> QED BY <1>1, <1>2, TermsInvariant, PTL DEF Spec, CampaignsKeepPromises
================================================================================
