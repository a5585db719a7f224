------------------------- MODULE ApplicationLife_proofs -------------------------
(***************************************************************************)
(* Theorems about what happens to one application.  Whatever entry point   *)
(* is called, a step does one of a few things to an application, or        *)
(* nothing (Life); what no step may do to it follows from the list.        *)
(***************************************************************************)
EXTENDS CampaignEscrow_proofs

USE EscrowAssumption, SharedAssumption

Applied(app, after) ==
    app.status = "None" /\ after = [app EXCEPT !.status = "Pending"]

Selected(app, after) ==
    /\ app.status = "Pending"
    /\ \E amount \in Nat \ {0} :
        after = [app EXCEPT !.payout_amount = amount, !.status = "Approved"]

Submitted(app, after, camp) ==
    /\ ~app.frozen /\ ~ContentDeadlinePassed(camp) /\ app.status \in {"Approved", "Rejected"}
    /\ \E proof \in Proofs :
        after = [app EXCEPT !.proof_uri = proof, !.status = "ProofSubmitted",
                            !.proof_approved = FALSE]

Accepted(app, after) ==
    /\ ~app.frozen /\ app.status = "ProofSubmitted"
    /\ after = [app EXCEPT !.proof_approved = TRUE]

Refused(app, after, camp) ==
    /\ ~app.frozen /\ ~ContentDeadlinePassed(camp) /\ app.status = "ProofSubmitted"
    /\ after = [app EXCEPT !.proof_uri = Null, !.proof_approved = FALSE, !.status = "Rejected"]

Claimed(app, after) ==
    /\ ~app.frozen /\ app.status = "ProofSubmitted"
    /\ after = [app EXCEPT !.status = "Paid"]

Contested(app, after) ==
    /\ ~app.frozen /\ Settleable(app)
    /\ after = [app EXCEPT !.frozen = TRUE, !.dispute_opened_at = now]

Resolved(app, after) ==
    /\ Settleable(app) /\ EvidenceWindowClosed(app)
    /\ after = [app EXCEPT !.status = "Paid", !.frozen = FALSE, !.dispute_opened_at = Null]

Life(c, r) ==
    LET app == applications[<<c, r>>]
        after == applications'[<<c, r>>]
        camp == campaigns[c]
    IN  \/ after = app
        \/ Applied(app, after)
        \/ Selected(app, after)
        \/ Submitted(app, after, camp)
        \/ Accepted(app, after)
        \/ Refused(app, after, camp)
        \/ Claimed(app, after)
        \/ Contested(app, after)
        \/ Resolved(app, after)

\* An entry point about application <<d, s>> is one of the things that happen to it.
LEMMA PayoutLife ==
    ASSUME EscrowInv, NEW d \in CampaignIds, NEW s \in Creators,
           PayoutStep(d, s) \/ FreezeStep(d, s) \/ SettleStep(d, s),
           NEW c \in CampaignIds, NEW r \in Creators
    PROVE  Life(c, r)
<1>1. /\ applications \in [ApplicationKeys -> Application]
      /\ <<c, r>> \in ApplicationKeys /\ <<d, s>> \in ApplicationKeys
    BY DEF EscrowInv, TypeOK, ApplicationKeys
<1> DEFINE app == applications[<<d, s>>]
           after == applications'[<<d, s>>]
           Alone == \A key \in ApplicationKeys \ {<<d, s>>} : applications'[key] = applications[key]
           Lives == \/ Applied(app, after)
                    \/ Selected(app, after)
                    \/ Submitted(app, after, campaigns[d])
                    \/ Accepted(app, after)
                    \/ Refused(app, after, campaigns[d])
                    \/ Claimed(app, after)
                    \/ Contested(app, after)
                    \/ Resolved(app, after)
<1>2. Alone /\ Lives
    <2>1. CASE ApplyToCampaign(s, d)
        BY <1>1, <2>1 DEF ApplyToCampaign, Applied
    <2>2. ASSUME NEW proof \in Proofs, SubmitProof(s, d, proof)
          PROVE  Alone /\ Lives
        BY <1>1, <2>2 DEF SubmitProof, Submitted, RequireNotFrozen
    <2>3. CASE ClaimPayment(s, d)
        BY <1>1, <2>3 DEF ClaimPayment, MayClaim, Claimed, RequireNotFrozen
    <2>4. ASSUME NEW b \in Businesses, NEW amount \in Payouts, ApproveCreator(b, d, s, amount)
          PROVE  Alone /\ Lives
        <3>1. amount \in Nat \ {0}
            BY <2>4 DEF ApproveCreator
        <3> QED BY <1>1, <2>4, <3>1 DEF ApproveCreator, Selected
    <2>5. ASSUME NEW b \in Businesses, ApproveSubmission(b, d, s)
          PROVE  Alone /\ Lives
        BY <1>1, <2>5 DEF ApproveSubmission, Accepted, RequireNotFrozen
    <2>6. ASSUME NEW b \in Businesses, RejectSubmission(b, d, s)
          PROVE  Alone /\ Lives
        BY <1>1, <2>6 DEF RejectSubmission, Refused, RequireNotFrozen
    <2>7. ASSUME NEW caller, FreezeForDispute(caller, d, s)
          PROVE  Alone /\ Lives
        BY <1>1, <2>7 DEF FreezeForDispute, MayFreeze, Contested, RequireNotFrozen
    <2>8. ASSUME NEW a, NEW res, ResolveDispute(a, d, s, res)
          PROVE  Alone /\ Lives
        BY <1>1, <2>8 DEF ResolveDispute, MayResolve, Resolved
    <2> HIDE DEF Alone, Lives
    <2> QED BY <2>1, <2>2, <2>3, <2>4, <2>5, <2>6, <2>7, <2>8
            DEF PayoutStep, FreezeStep, SettleStep
<1>3. CASE <<c, r>> = <<d, s>>
    BY <1>2, <1>3 DEF Life
<1>4. CASE <<c, r>> # <<d, s>>
    BY <1>1, <1>2, <1>4 DEF Life
<1> QED BY <1>3, <1>4

\* Every other step leaves all applications alone.
LEMMA OtherStepsLeaveApplications ==
    ASSUME \/ Governance \/ NewCampaign \/ Tick \/ TokenStep \/ UNCHANGED vars
           \/ \E d \in CampaignIds : CampaignStep(d)
    PROVE  UNCHANGED applications
<1>1. CASE Governance
    BY <1>1 DEF Governance, Initialize, Pause, Unpause, SetPaused, ProposeAdmin, AcceptAdmin,
                UpdateFeeBps, UpdateTreasury
<1>2. CASE NewCampaign
    BY <1>2 DEF NewCampaign, CreateCampaign
<1>3. CASE \E d \in CampaignIds : CampaignStep(d)
    BY <1>3 DEF CampaignStep, FundCampaign, UpdateCampaignMetadata, CancelCampaign,
                ExpireCampaign, ReclaimSurplus, EmergencyRecoverCampaign, Sweep
<1> QED BY <1>1, <1>2, <1>3 DEF Tick, TokenStep, Bar, Admit, vars

LEMMA EveryStepIsLife ==
    ASSUME EscrowInv, [Next]_vars
    PROVE  \A c \in CampaignIds, r \in Creators : Life(c, r)
<1>1. CASE \E d \in CampaignIds, s \in Creators :
            PayoutStep(d, s) \/ FreezeStep(d, s) \/ SettleStep(d, s)
    BY <1>1, PayoutLife
<1>2. CASE UNCHANGED applications
    BY <1>2 DEF Life
<1> QED BY <1>1, <1>2, OtherStepsLeaveApplications DEF Next
--------------------------------------------------------------------------------
(* Frozen payouts.                                                           *)

LEMMA OnlyTickMovesClock ==
    ASSUME [Next]_vars
    PROVE  now' = now \/ Tick
<1>1. Governance => now' = now
    BY DEF Governance, Initialize, Pause, Unpause, SetPaused, ProposeAdmin, AcceptAdmin,
           UpdateFeeBps, UpdateTreasury
<1>2. NewCampaign => now' = now
    BY DEF NewCampaign, CreateCampaign
<1>3. \A c \in CampaignIds : CampaignStep(c) => now' = now
    BY DEF CampaignStep, FundCampaign, UpdateCampaignMetadata, CancelCampaign,
           ExpireCampaign, ReclaimSurplus, EmergencyRecoverCampaign, Sweep
<1>4. ASSUME NEW c \in CampaignIds, NEW r \in Creators, PayoutStep(c, r)
      PROVE  now' = now
    <2>1. ClaimPayment(r, c) => now' = now
        BY DEF ClaimPayment
    <2>2. \A b, amount : ApproveCreator(b, c, r, amount) => now' = now
        BY DEF ApproveCreator
    <2>3. ApplyToCampaign(r, c) => now' = now
        BY DEF ApplyToCampaign
    <2>4. \A b : ApproveSubmission(b, c, r) \/ RejectSubmission(b, c, r) => now' = now
        BY DEF ApproveSubmission, RejectSubmission
    <2>5. \A proof : SubmitProof(r, c, proof) => now' = now
        BY DEF SubmitProof
    <2> QED BY <1>4, <2>1, <2>2, <2>3, <2>4, <2>5 DEF PayoutStep
<1>5. \A c \in CampaignIds, r \in Creators : FreezeStep(c, r) \/ SettleStep(c, r) => now' = now
    BY DEF FreezeStep, FreezeForDispute, SettleStep, ResolveDispute
<1> QED BY <1>1, <1>2, <1>3, <1>4, <1>5 DEF Next, TokenStep, Bar, Admit, vars

LEMMA ClockGrows ==
    ASSUME EscrowInv, [Next]_vars
    PROVE  now \in Nat /\ now' \in Nat /\ now <= now'
    BY OnlyTickMovesClock DEF Tick, EscrowInv, TypeOK

\* A payout that can be settled is on a campaign that is not completed: a
\* completed one holds nothing, so it owes nothing.
OwingIsOpen ==
    \A c \in CampaignIds, r \in Creators :
        Settleable(applications[<<c, r>>]) => campaigns[c].status # "Completed"

LEMMA SettleableIsOpen == EscrowInv => OwingIsOpen
<1> SUFFICES ASSUME EscrowInv, NEW c \in CampaignIds, NEW r \in Creators,
                    Settleable(applications[<<c, r>>])
             PROVE  campaigns[c].status # "Completed"
    BY DEF OwingIsOpen
<1>1. /\ applications[<<c, r>>].payout_amount > 0
      /\ applications[<<c, r>>].payout_amount \in Nat
      /\ applications[<<c, r>>].payout_amount <= campaigns[c].committed_payouts
    BY UnpaidIsReserved DEF Settleable
<1> QED BY <1>1, CampaignFacts

\* How an application's freeze and its clock stand.
FreezeOK(app) ==
    /\ app.frozen <=> app.dispute_opened_at # Null
    /\ app.frozen => Settleable(app) /\ app.dispute_opened_at <= now

LEMMA LifeKeepsFreeze ==
    ASSUME EscrowInv, NEW c \in CampaignIds, NEW r \in Creators, Life(c, r),
           now \in Nat, now' \in Nat, now <= now', FreezeOK(applications[<<c, r>>])
    PROVE  FreezeOK(applications[<<c, r>>])'
<1> DEFINE app == applications[<<c, r>>]
           after == applications'[<<c, r>>]
<1>1. app \in Application /\ <<c, r>> \in ApplicationKeys
    BY DEF EscrowInv, TypeOK, ApplicationKeys
<1>2. app.status \in {"None", "Pending"} => ~app.frozen
    BY <1>1 DEF EscrowInv, PendingOwesNothing, FreezeOK, Settleable
<1>3. app.frozen => app.dispute_opened_at \in Nat
    BY <1>1 DEF FreezeOK, Application
<1>4. /\ after.frozen <=> after.dispute_opened_at # Null
      /\ after.frozen => Settleable(after) /\ after.dispute_opened_at <= now'
    <2> HIDE DEF app, after
    <2>0. FreezeOK(app)
        BY DEF app
    <2>1. CASE after = app
        BY <1>3, <2>0, <2>1 DEF FreezeOK
    <2>2. CASE Applied(app, after)
        BY <1>1, <1>2, <2>0, <2>2 DEF Applied, FreezeOK, Application
    <2>3. CASE Selected(app, after)
        BY <1>1, <1>2, <2>0, <2>3 DEF Selected, FreezeOK, Application
    <2>4. CASE Submitted(app, after, campaigns[c])
        BY <1>1, <2>0, <2>4 DEF Submitted, FreezeOK, Application
    <2>5. CASE Accepted(app, after)
        BY <1>1, <2>0, <2>5 DEF Accepted, FreezeOK, Application
    <2>6. CASE Refused(app, after, campaigns[c])
        BY <1>1, <2>0, <2>6 DEF Refused, FreezeOK, Application
    <2>7. CASE Claimed(app, after)
        BY <1>1, <2>0, <2>7 DEF Claimed, FreezeOK, Application
    <2>8. CASE Contested(app, after)
        BY <1>1, <2>8 DEF Contested, Settleable, Application
    <2>9. CASE Resolved(app, after)
        BY <1>1, <2>9 DEF Resolved, Application
    <2> QED BY <2>1, <2>2, <2>3, <2>4, <2>5, <2>6, <2>7, <2>8, <2>9 DEF Life, app, after
<1> QED BY <1>4 DEF FreezeOK, Settleable

LifeInv == EscrowInv /\ FrozenIsSettleable

LEMMA LifeInvFacts ==
    ASSUME LifeInv, NEW c \in CampaignIds, NEW r \in Creators
    PROVE  FreezeOK(applications[<<c, r>>])
    BY DEF LifeInv, FrozenIsSettleable, FreezeOK, ApplicationKeys

LEMMA LifeInvPreserved == LifeInv /\ [Next]_vars => LifeInv'
<1> SUFFICES ASSUME LifeInv, [Next]_vars PROVE LifeInv'
    OBVIOUS
<1>1. EscrowInv /\ EscrowInv'
    BY StepsPreserve DEF LifeInv
<1>2. ASSUME NEW c \in CampaignIds, NEW r \in Creators
      PROVE  FreezeOK(applications[<<c, r>>])'
    BY <1>1, ClockGrows, EveryStepIsLife, LifeInvFacts, LifeKeepsFreeze
<1>3. OwingIsOpen'
    BY <1>1, SettleableIsOpen, PTL
<1>4. FrozenIsSettleable'
    BY <1>2, <1>3 DEF FrozenIsSettleable, FreezeOK, OwingIsOpen, ApplicationKeys
<1> QED BY <1>1, <1>4 DEF LifeInv

\* The invariant of the theorems below.
THEOREM LifeInvariant == Spec => []LifeInv
<1>1. Init => LifeInv
    <2>1. Init => FrozenIsSettleable
        BY DEF Init, FrozenIsSettleable, NoApplication
    <2> QED BY <2>1, InitEstablishes DEF LifeInv
<1> QED BY <1>1, LifeInvPreserved, PTL DEF Spec
--------------------------------------------------------------------------------
(* What no step may do.                                                      *)

LEMMA EvidenceStands ==
    ASSUME LifeInv, [Next]_vars, NEW c \in CampaignIds, NEW r \in Creators
    PROVE  EvidenceHeld(<<c, r>>)
<1> DEFINE app == applications[<<c, r>>]
           after == applications'[<<c, r>>]
<1>1. SUFFICES ASSUME app.frozen
               PROVE  \/ after = app
                      \/ /\ after.status = "Paid" /\ after.proof_uri = app.proof_uri
                         /\ now >= app.dispute_opened_at + MIN_EVIDENCE_WINDOW
    BY DEF EvidenceHeld, Paid
<1>2. app \in Application /\ now \in Nat
    BY DEF LifeInv, EscrowInv, TypeOK, ApplicationKeys
<1>3. app.status \notin {"None", "Pending"} /\ app.dispute_opened_at \in Nat
    <2>1. FreezeOK(app)
        BY LifeInvFacts
    <2>2. app.payout_amount > 0
        BY <1>1, <2>1 DEF FreezeOK, Settleable
    <2>3. app.status \in {"None", "Pending"} => app.payout_amount = 0
        BY DEF LifeInv, EscrowInv, PendingOwesNothing, ApplicationKeys
    <2> QED BY <1>1, <1>2, <2>1, <2>2, <2>3 DEF FreezeOK, Application
<1>4. Life(c, r)
    BY EveryStepIsLife DEF LifeInv
<1> HIDE DEF app, after
<1>5. CASE Resolved(app, after)
    BY <1>2, <1>3, <1>5 DEF Resolved, EvidenceWindowClosed, Application
<1> QED BY <1>1, <1>3, <1>4, <1>5
        DEF Life, Applied, Selected, Submitted, Accepted, Refused, Claimed, Contested, app, after

LEMMA PaidStaysPaid ==
    ASSUME LifeInv, [Next]_vars, NEW c \in CampaignIds, NEW r \in Creators, Paid(<<c, r>>)
    PROVE  applications'[<<c, r>>] = applications[<<c, r>>]
<1>1. Life(c, r)
    BY EveryStepIsLife DEF LifeInv
<1> QED BY <1>1 DEF Life, Applied, Selected, Submitted, Accepted, Refused, Claimed, Contested,
                    Resolved, Settleable, Paid

LEMMA SilenceApproves ==
    ASSUME LifeInv, [Next]_vars, NEW c \in CampaignIds, NEW r \in Creators
    PROVE  ApprovedBySilence(c, r)
<1> DEFINE app == applications[<<c, r>>]
           after == applications'[<<c, r>>]
<1>1. SUFFICES ASSUME app.status = "ProofSubmitted", ContentDeadlinePassed(campaigns[c])
               PROVE  /\ after.status \in {"ProofSubmitted", "Paid"}
                      /\ after.proof_uri = app.proof_uri
                      /\ app.proof_approved => after.proof_approved
    BY DEF ApprovedBySilence, ContentDeadlinePassed
<1>2. app \in Application
    BY DEF LifeInv, EscrowInv, TypeOK, ApplicationKeys
<1>3. Life(c, r)
    BY EveryStepIsLife DEF LifeInv
<1>4. \/ after = app \/ Accepted(app, after) \/ Claimed(app, after)
      \/ Contested(app, after) \/ Resolved(app, after)
    BY <1>1, <1>3 DEF Life, Applied, Selected, Submitted, Refused
<1> HIDE DEF app, after
<1> QED BY <1>1, <1>2, <1>4 DEF Accepted, Claimed, Contested, Resolved, Application

\* A frozen payout can still be settled, and its clock runs from the freeze.
THEOREM FrozenStaysSettleable == Spec => []FrozenIsSettleable
<1>1. LifeInv => FrozenIsSettleable
    BY DEF LifeInv
<1> QED BY <1>1, LifeInvariant, PTL

\* No call touches the evidence of a frozen payout, and no call settles it
\* before MIN_EVIDENCE_WINDOW has run out since freeze_for_dispute.
THEOREM EvidenceIsHeld == Spec => EvidenceHeldForWindow
<1>1. LifeInv /\ [Next]_vars => [\A key \in ApplicationKeys : EvidenceHeld(key)]_vars
    BY EvidenceStands DEF ApplicationKeys
<1> QED BY <1>1, LifeInvariant, PTL DEF Spec, EvidenceHeldForWindow

\* After the content deadline reject_submission and submit_proof cannot undo a
\* submission: silence approves it.
THEOREM AutoApproval == Spec => AutoApprovalHolds
<1>1. LifeInv /\ [Next]_vars => [\A c \in CampaignIds, r \in Creators : ApprovedBySilence(c, r)]_vars
    BY SilenceApproves
<1> QED BY <1>1, LifeInvariant, PTL DEF Spec, AutoApprovalHolds
--------------------------------------------------------------------------------
(* The reserve is spent by settlements only.                                 *)

\* The reserve of no campaign falls.
ReservesStand ==
    \A c \in CampaignIds : campaigns'[c].committed_payouts >= campaigns[c].committed_payouts

LEMMA CampaignStepsKeepReserve ==
    ASSUME EscrowInv, NEW d \in CampaignIds, CampaignStep(d)
    PROVE  ReservesStand
<1>1. /\ campaigns \in [CampaignIds -> Campaign]
      /\ \A c \in CampaignIds : campaigns[c].committed_payouts \in Nat
    BY CampaignFacts DEF EscrowInv, TypeOK
<1>2. ASSUME NEW b, FundCampaign(b, d) PROVE ReservesStand
    BY <1>1, <1>2 DEF FundCampaign, Campaign, ReservesStand
<1>3. ASSUME NEW b, NEW brief, UpdateCampaignMetadata(d, b, brief) PROVE ReservesStand
    <2>1. \A c \in CampaignIds \ {d} : campaigns'[c] = campaigns[c]
        BY <1>1, <1>3 DEF UpdateCampaignMetadata
    <2>2. campaigns'[d].committed_payouts = campaigns[d].committed_payouts
        BY <1>1, <1>3 DEF UpdateCampaignMetadata, Campaign
    <2> QED BY <1>1, <2>1, <2>2 DEF ReservesStand
<1>4. ASSUME NEW to, NEW status, Sweep(d, to, status) PROVE ReservesStand
    BY <1>1, <1>4 DEF Sweep, Campaign, ReservesStand
<1> QED BY <1>2, <1>3, <1>4
        DEF CampaignStep, CancelCampaign, ExpireCampaign, ReclaimSurplus, EmergencyRecoverCampaign

LEMMA CreateKeepsReserve ==
    ASSUME EscrowInv, NewCampaign
    PROVE  ReservesStand
<1> DEFINE d == instance.next_campaign_id
<1>1. /\ campaigns \in [CampaignIds -> Campaign] /\ d \in CampaignIds
      /\ \A c \in CampaignIds : campaigns[c].committed_payouts \in Nat
    <2>1. instance \in Instance /\ campaigns \in [CampaignIds -> Campaign]
        BY DEF EscrowInv, TypeOK
    <2>2. d < MAX_CAMPAIGNS
        BY DEF NewCampaign, CreateCampaign
    <2>3. d \in CampaignIds
        BY <2>1, <2>2 DEF Instance, CampaignIds
    <2> QED BY <2>1, <2>3, CampaignFacts
<1>2. campaigns[d] = NoCampaign
    BY <1>1 DEF EscrowInv, TypeOK, IdleHoldsNothing, Instance
<1>3. campaigns[d].committed_payouts = 0
    BY <1>2 DEF NoCampaign
<1>4. \A c \in CampaignIds \ {d} : campaigns'[c] = campaigns[c]
    BY <1>1 DEF NewCampaign, CreateCampaign
<1>5. campaigns'[d].committed_payouts = 0
    BY <1>1 DEF NewCampaign, CreateCampaign
<1> HIDE DEF d
<1> QED BY <1>1, <1>3, <1>4, <1>5 DEF ReservesStand

LEMMA PayoutStepsKeepReserve ==
    ASSUME EscrowInv, NEW d \in CampaignIds, NEW s \in Creators,
           PayoutStep(d, s) \/ FreezeStep(d, s), ~ClaimPayment(s, d)
    PROVE  ReservesStand
<1>1. /\ campaigns \in [CampaignIds -> Campaign]
      /\ \A c \in CampaignIds : campaigns[c].committed_payouts \in Nat
    BY CampaignFacts DEF EscrowInv, TypeOK
<1>2. ASSUME NEW b, NEW amount \in Payouts, ApproveCreator(b, d, s, amount) PROVE ReservesStand
    <2>1. amount \in Nat
        BY <1>2 DEF ApproveCreator
    <2>2. \A c \in CampaignIds \ {d} : campaigns'[c] = campaigns[c]
        BY <1>1, <1>2 DEF ApproveCreator
    <2>3. campaigns'[d].committed_payouts = campaigns[d].committed_payouts + amount
        BY <1>1, <1>2 DEF ApproveCreator, Campaign
    <2> QED BY <1>1, <2>1, <2>2, <2>3 DEF ReservesStand
<1>3. CASE UNCHANGED campaigns
    BY <1>1, <1>3 DEF ReservesStand
<1>4. ApplyToCampaign(s, d) => UNCHANGED campaigns
    BY DEF ApplyToCampaign
<1>5. \A proof : SubmitProof(s, d, proof) => UNCHANGED campaigns
    BY DEF SubmitProof
<1>6. \A b : ApproveSubmission(b, d, s) \/ RejectSubmission(b, d, s) => UNCHANGED campaigns
    BY DEF ApproveSubmission, RejectSubmission
<1>7. FreezeStep(d, s) => UNCHANGED campaigns
    BY DEF FreezeStep, FreezeForDispute
<1> QED BY <1>2, <1>3, <1>4, <1>5, <1>6, <1>7 DEF PayoutStep

LEMMA SettlementsSpendReserve ==
    ASSUME EscrowInv, NEW d \in CampaignIds, NEW s \in Creators,
           ClaimPayment(s, d) \/ SettleStep(d, s), NEW c \in CampaignIds
    PROVE  ReserveFallsBySettlement(c)
<1> DEFINE amount == applications[<<d, s>>].payout_amount
<1>1. /\ campaigns \in [CampaignIds -> Campaign]
      /\ campaigns[c].committed_payouts \in Nat /\ campaigns[d].committed_payouts \in Nat
      /\ applications \in [ApplicationKeys -> Application] /\ <<d, s>> \in ApplicationKeys
    BY CampaignFacts DEF EscrowInv, TypeOK, ApplicationKeys
<1>2. /\ applications[<<d, s>>].status # "Paid"
      /\ applications'[<<d, s>>].status = "Paid"
      /\ campaigns' = [campaigns EXCEPT ![d] = Settled(campaigns[d], amount)]
    <2>1. CASE ClaimPayment(s, d)
        BY <1>1, <2>1 DEF ClaimPayment, MayClaim, Application
    <2>2. CASE SettleStep(d, s)
        BY <1>1, <2>2 DEF SettleStep, ResolveDispute, MayResolve, Settleable, Application
    <2> QED BY <2>1, <2>2
<1>3. amount \in Nat /\ amount <= campaigns[d].committed_payouts
    BY <1>2, UnpaidIsReserved
<1>4. campaigns[d] \in Campaign /\ campaigns[d].committed_payouts <= campaigns[d].escrow_balance
    BY CampaignFacts
<1> HIDE DEF amount
<1>5. campaigns'[d] = Settled(campaigns[d], amount)
    BY <1>1, <1>2
<1>6. campaigns'[d].committed_payouts = campaigns[d].committed_payouts - amount
    BY <1>3, <1>4, <1>5, SettledBooks
<1>7. CASE c = d
    <2>1. campaigns[d].committed_payouts - campaigns'[d].committed_payouts = amount
        BY <1>1, <1>3, <1>6
    <2> QED BY <1>2, <1>7, <2>1 DEF ReserveFallsBySettlement, Paid, amount
<1>8. CASE c # d
    <2>1. campaigns'[c] = campaigns[c]
        BY <1>1, <1>2, <1>8
    <2> QED BY <1>1, <2>1 DEF ReserveFallsBySettlement
<1> QED BY <1>7, <1>8

LEMMA ReserveFalls ==
    ASSUME EscrowInv, [Next]_vars, NEW c \in CampaignIds
    PROVE  ReserveFallsBySettlement(c)
<1>1. CASE ReservesStand
    <2>1. /\ campaigns'[c].committed_payouts >= campaigns[c].committed_payouts
          /\ campaigns'[c].committed_payouts \in Nat /\ campaigns[c].committed_payouts \in Nat
        BY <1>1, StepsPreserve DEF ReservesStand, EscrowInv, TypeOK, Campaign
    <2> QED BY <2>1 DEF ReserveFallsBySettlement
<1>2. CASE \E d \in CampaignIds, s \in Creators : ClaimPayment(s, d) \/ SettleStep(d, s)
    BY <1>2, SettlementsSpendReserve
<1>3. Governance \/ Tick \/ TokenStep \/ UNCHANGED vars => ReservesStand
    <2>1. Governance \/ Tick \/ TokenStep \/ UNCHANGED vars => UNCHANGED campaigns
        BY DEF Governance, Initialize, Pause, Unpause, SetPaused, ProposeAdmin, AcceptAdmin,
               UpdateFeeBps, UpdateTreasury, Tick, TokenStep, Bar, Admit, vars
    <2>2. \A d \in CampaignIds : campaigns[d].committed_payouts \in Nat
        BY CampaignFacts
    <2> QED BY <2>1, <2>2 DEF ReservesStand
<1> QED BY <1>1, <1>2, <1>3, CreateKeepsReserve, CampaignStepsKeepReserve, PayoutStepsKeepReserve
        DEF Next

\* Of the two routes that settle a payout, claim_payment and resolve_dispute,
\* only one ever succeeds, once; and neither a refund nor anything else spends
\* what an approved creator is owed.
THEOREM SettlementIsOnce == Spec => SettledOnce
<1>1. LifeInv /\ [Next]_vars =>
        [/\ \A key \in ApplicationKeys : Paid(key) => applications'[key] = applications[key]
         /\ \A c \in CampaignIds : ReserveFallsBySettlement(c)]_vars
    BY PaidStaysPaid, ReserveFalls DEF ApplicationKeys, LifeInv
<1> QED BY <1>1, LifeInvariant, PTL DEF Spec, SettledOnce
================================================================================
