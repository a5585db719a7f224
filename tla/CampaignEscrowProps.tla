--------------------------- MODULE CampaignEscrowProps ---------------------------
(***************************************************************************)
(* What makes campaign-escrow correct.  A `key` is a pair <<id, creator>>: *)
(* one creator's payout on one campaign.                                   *)
(***************************************************************************)
EXTENDS CampaignEscrow

Instance ==
    [admin : Admins \cup {Null}, pending_admin : Admins \cup {Null},
     treasury : Admins \cup Treasuries \cup {Null}, fee_bps : BasisPoints \cup {Null},
     dispute_contract : DisputeContracts \cup {Null}, paused : BOOLEAN,
     next_campaign_id : 0 .. MAX_CAMPAIGNS]

Campaign ==
    [business : Businesses \cup {Null}, token : Tokens \cup {Null}, total_budget : Nat,
     escrow_balance : Nat, committed_payouts : Nat, fee_bps : BasisPoints,
     max_creators : Nat, approved_count : Nat, application_deadline : Nat,
     completion_deadline : Nat, metadata_uri : Briefs \cup {Null}, status : CampaignStatus]

Application ==
    [proof_uri : Proofs \cup {Null}, payout_amount : Nat, proof_approved : BOOLEAN,
     frozen : BOOLEAN, dispute_opened_at : Nat \cup {Null}, status : ApplicationStatus]

\* The shape of the state.  That escrow_balance, committed_payouts and the
\* token balances are naturals is not the shape of their type but a result:
\* they are i128, and checked_sub would let them go negative.
TypeOK ==
    /\ instance \in Instance
    /\ campaigns \in [CampaignIds -> Campaign]
    /\ applications \in [ApplicationKeys -> Application]
    /\ applicants \in [CampaignIds -> Nat]
    /\ balances \in [Tokens -> [Accounts -> Nat]]
    /\ now \in 0 .. MAX_TIME
    /\ barred \subseteq Tokens \X Accounts

--------------------------------------------------------------------------------
(* The money.                                                                *)

\* What each creator of campaign c is still owed, and what each was promised.
Owed(c) == [r \in Creators |->
              IF Settleable(applications[<<c, r>>]) THEN applications[<<c, r>>].payout_amount ELSE 0]
Promised(c) == [r \in Creators |-> applications[<<c, r>>].payout_amount]

\* What the campaigns funded in token t still hold, by their own books.
HeldIn(t) == [c \in CampaignIds |->
                IF campaigns[c].token = t THEN campaigns[c].escrow_balance ELSE 0]

\* committed_payouts is, to the last unit, what the campaign's approved and
\* unpaid creators are owed, and the escrow covers it: through approvals,
\* claims, settlements and the four refund paths, in any order.
ReserveExact ==
    \A c \in CampaignIds :
        /\ campaigns[c].committed_payouts = SumFunction(Owed(c))
        /\ campaigns[c].committed_payouts <= campaigns[c].escrow_balance

\* All campaigns in a token share one token balance of the contract: it always
\* covers the sum of their escrow_balances, so that no campaign's refund or
\* payout is made from another campaign's money.
Solvency ==
    \A t \in Tokens : balances[t][EscrowContract] >= SumFunction(HeldIn(t))

\* The selection: approved_count counts exactly the creators with an agreed
\* payout, never more than max_creators, and what they were promised in all,
\* paid or unpaid, never passes the budget the business deposited.
SelectionWithinTerms ==
    \A c \in CampaignIds :
        LET selected == {r \in Creators : applications[<<c, r>>].payout_amount > 0} IN
        /\ campaigns[c].approved_count = Cardinality(selected)
        /\ campaigns[c].approved_count <= campaigns[c].max_creators
        /\ SumFunction(Promised(c)) <= campaigns[c].total_budget

\* What a campaign's status promises about its books: a draft holds nothing and
\* has nobody, a funded one holds the whole budget and owes nobody, an active one
\* has selected somebody and still holds something, a cancelled one keeps exactly
\* the reserve, a completed one holds nothing.
StatusMatchesBooks ==
    \A c \in CampaignIds :
        LET camp == campaigns[c] IN
        CASE camp.status \in {"None", "Draft"} ->
                camp.escrow_balance = 0 /\ applicants[c] = 0
          [] camp.status = "Funded" ->
                /\ camp.approved_count = 0
                /\ camp.escrow_balance = camp.total_budget
          [] camp.status = "Active" -> camp.approved_count > 0 /\ camp.escrow_balance > 0
          [] camp.status = "Cancelled" -> camp.escrow_balance = camp.committed_payouts
          [] camp.status = "Completed" -> camp.escrow_balance = 0
          [] OTHER -> FALSE

\* How one application stands as a promise.
Standing(app) ==
    CASE app.payout_amount = 0 -> "none"
      [] app.status = "Paid" -> "settled"
      [] app.frozen -> "contested"
      [] OTHER -> "promised"

\* The promise each campaign makes, read off its books.
PromiseOf(c) == INSTANCE EscrowPromise WITH
    vault <- campaigns[c].escrow_balance,
    promises <- [r \in Creators |-> [standing |-> Standing(applications[<<c, r>>]),
                                     amount |-> applications[<<c, r>>].payout_amount]]

\* Every campaign keeps its promise (it implements EscrowPromise), whatever
\* happens to the others: a step of the contract deposits, promises, contests,
\* settles in full or withdraws exactly the free part, or is no step of that
\* campaign's promise.  This is \A c : PromiseOf(c)!Spec, with the quantifier
\* inside the box.
CampaignsKeepPromises ==
    /\ \A c \in CampaignIds : PromiseOf(c)!Init
    /\ [][\A c \in CampaignIds :
            PromiseOf(c)!Next \/ UNCHANGED PromiseOf(c)!promiseVars]_vars

--------------------------------------------------------------------------------
(* Disputes.                                                                 *)

\* `frozen` and `dispute_opened_at` never drift apart, and only a payout that
\* can still be settled is ever frozen: on a campaign that is not completed,
\* where resolve_dispute would refuse it for ever.
FrozenIsSettleable ==
    \A key \in ApplicationKeys :
        LET app == applications[key] IN
        /\ app.frozen <=> app.dispute_opened_at # Null
        /\ app.frozen =>
            /\ Settleable(app)
            /\ campaigns[key[1]].status # "Completed"
            /\ app.dispute_opened_at <= now

\* What can be called, below, is said with the guards of the calls: an action whose
\* guard holds can happen, since the rest of it assigns every variable a value.

\* The fee on a whole payout has a value, and the treasury of the moment can take
\* it: it does not matter where there is no fee.
FeeCanBePaid(camp, app) ==
    /\ FitsI128(app.payout_amount * camp.fee_bps)
    /\ Share(app.payout_amount, camp.fee_bps) > 0 => Receives(camp.token, instance.treasury)

\* Once the window on a dispute has run out, the admin in office can settle it in
\* favour of either side, as far as the token reaches that side: neither a party
\* that gets nothing nor an overflow of a fee nobody owes is in the way.
FrozenCanBeSettled ==
    \A c \in CampaignIds, r \in Creators :
        LET camp == campaigns[c]
            app == applications[<<c, r>>]
        IN
        /\ ~instance.paused
        /\ EvidenceWindowClosed(app)
        => \E a \in Admins :
            /\ Receives(camp.token, camp.business) => MayResolve(a, c, r, RefundBusiness)
            /\ (FeeCanBePaid(camp, app) /\ Receives(camp.token, r)) => MayResolve(a, c, r, PayCreator)

\* A payout that is due can be claimed: the proof was accepted or its review
\* period is over, the payout is not contested, and neither cancellation,
\* expiry, recovery nor another creator's payment has taken the money away.
\* Nobody but its creator and, if a fee is due, the treasury can be in the way,
\* by an account the token does not reach; only an amount whose product with the
\* fee passes i128 is refused.
DueCanBeClaimed ==
    \A c \in CampaignIds, r \in Creators :
        LET app == applications[<<c, r>>] IN
        /\ ~instance.paused
        /\ app.status = "ProofSubmitted" /\ ~app.frozen
        /\ app.proof_approved \/ now > campaigns[c].completion_deadline
        /\ FeeCanBePaid(campaigns[c], app) /\ Receives(campaigns[c].token, r)
        => MayClaim(r, c)

\* A payout on campaign c that the admin in office can move on: freeze it or, once
\* frozen, settle it for the business as soon as the window has run out.
AdminCanMoveOn(c, r) ==
    LET app == applications[<<c, r>>] IN
    /\ Settleable(app)
    /\ \E a \in Admins :
        IF app.frozen
        THEN EvidenceWindowClosed(app) => MayResolve(a, c, r, RefundBusiness)
        ELSE MayFreeze(a, c, r)

\* No unit is stranded in a campaign whose content deadline has passed, whatever
\* the calls before: as long as it holds any and the token reaches its business,
\* the business can take its part back or some payout is left that the admin can
\* move on, though its creator never comes back and neither creator nor treasury
\* can be paid.  So the last unit is never one nobody may ask for: not behind a
\* closed campaign, a rounding, or a reserve no payout stands behind.
NothingIsStranded ==
    \A c \in CampaignIds :
        LET camp == campaigns[c] IN
        /\ camp.escrow_balance > 0
        /\ ~instance.paused
        /\ now > camp.completion_deadline
        /\ Receives(camp.token, camp.business)
        => \/ MayExpire(camp.business, c)
           \/ \E r \in Creators : AdminCanMoveOn(c, r)

--------------------------------------------------------------------------------
(* What no step may do.                                                      *)

Paid(key) == applications[key].status = "Paid"

EvidenceHeld(key) ==
    LET app == applications[key] IN
    app.frozen =>
        \/ applications'[key] = app
        \/ /\ Paid(key)'
           /\ applications'[key].proof_uri = app.proof_uri
           /\ now >= app.dispute_opened_at + MIN_EVIDENCE_WINDOW

\* A frozen payout's evidence stands still: no step touches its proof, review
\* or clock until the one that settles it, and that one not before the window
\* has run out since the freeze.
EvidenceHeldForWindow == [][\A key \in ApplicationKeys : EvidenceHeld(key)]_vars

ReserveFallsBySettlement(c) ==
    campaigns'[c].committed_payouts < campaigns[c].committed_payouts =>
        \E r \in Creators :
            /\ ~Paid(<<c, r>>) /\ Paid(<<c, r>>)'
            /\ campaigns[c].committed_payouts - campaigns'[c].committed_payouts
                 = applications[<<c, r>>].payout_amount

\* A payout is settled once: nothing ever happens to a paid application again,
\* whoever asks, and its campaign's reserve is spent in no other way: whenever
\* committed_payouts falls, one payout of exactly that amount was paid.
SettledOnce ==
    [][/\ \A key \in ApplicationKeys : Paid(key) => applications'[key] = applications[key]
       /\ \A c \in CampaignIds : ReserveFallsBySettlement(c)]_vars

ApprovedBySilence(c, r) ==
    LET app == applications[<<c, r>>] IN
    (app.status = "ProofSubmitted" /\ ~app.frozen /\ now > campaigns[c].completion_deadline)
    => /\ applications'[<<c, r>>].status \in {"ProofSubmitted", "Paid"}
       /\ applications'[<<c, r>>].proof_uri = app.proof_uri
       /\ app.proof_approved => applications'[<<c, r>>].proof_approved

\* Auto-approval: once the content deadline has passed, submitted work that is
\* not contested can no longer be rejected or altered, only approved, disputed
\* or paid.
AutoApprovalHolds == [][\A c \in CampaignIds, r \in Creators : ApprovedBySilence(c, r)]_vars

\* What the creator's side of a payout may come to before the fee: all of it, if it
\* is claimed; what the admin's resolution makes of it, if it is under dispute.
GrossOf(app) ==
    IF app.frozen
    THEN {CreatorGross(app.payout_amount, resolution) :
            resolution \in {res \in Resolutions : res.bps \in BasisPoints}}
    ELSE {app.payout_amount}

\* A payout is paid by the terms it was agreed on: the creator's side less the fee
\* in force when the campaign was created, however often the admin has changed it
\* since, that fee to the treasury of the moment, and what a settlement leaves of
\* the payout to the business; every other account stands.
PaidOnAgreedTerms ==
    [][\A c \in CampaignIds :
        LET camp == campaigns[c] IN
        /\ camp.status = "None" =>
            campaigns'[c].fee_bps \in {0, instance.fee_bps}
        /\ camp.status # "None" =>
            /\ campaigns'[c].fee_bps = camp.fee_bps
            /\ \A r \in Creators :
                LET app == applications[<<c, r>>] IN
                (~Paid(<<c, r>>) /\ Paid(<<c, r>>)') =>
                    \E gross \in GrossOf(app) : \A a \in Accounts \ {EscrowContract} :
                        balances'[camp.token][a] = balances[camp.token][a]
                            + (IF a = r THEN gross - Share(gross, camp.fee_bps) ELSE 0)
                            + (IF a = instance.treasury THEN Share(gross, camp.fee_bps) ELSE 0)
                            + (IF a = camp.business THEN app.payout_amount - gross ELSE 0)]_vars

\* Every unit that enters or leaves the contract is booked to a campaign: the
\* contract's balance of a token moves exactly as its campaigns' escrow does, so
\* that the parts of a split add up to the payout.  (A treasury that is the
\* contract itself would leave the fees here, outside every campaign's books.)
EveryMovementBooked ==
    [][\A t \in Tokens :
        instance.treasury # EscrowContract =>
            balances'[t][EscrowContract] - balances[t][EscrowContract]
              = SumFunction(HeldIn(t))' - SumFunction(HeldIn(t))]_vars

\* The unallocated part of a campaign's escrow shrinks by a payout agreed on, or it
\* leaves whole and to one account: its business's, or the treasury's once the
\* recovery grace period after the content deadline is over.  The reserve stays
\* and nobody else gains or loses.
SurplusReturnsToBusiness ==
    [][\A c \in CampaignIds :
        LET camp == campaigns[c]
            free == camp.escrow_balance - camp.committed_payouts
            entitled == {camp.business} \cup
                (IF now > camp.completion_deadline + EMERGENCY_RECOVERY_GRACE_PERIOD
                 THEN {instance.treasury} ELSE {})
        IN  (/\ free > campaigns'[c].escrow_balance - campaigns'[c].committed_payouts
             /\ campaigns'[c].approved_count = camp.approved_count)
            => /\ campaigns'[c].escrow_balance = camp.committed_payouts
               /\ campaigns'[c].committed_payouts = camp.committed_payouts
               /\ \E payee \in entitled : \A a \in Accounts \ {EscrowContract} :
                    balances'[camp.token][a] = balances[camp.token][a]
                        + (IF a = payee THEN free ELSE 0)]_vars

\* While the contract is paused no money moves and no campaign or application
\* changes: neither a dispute nor an emergency recovery goes around the pause.
PauseHolds ==
    [][instance.paused =>
        UNCHANGED <<campaigns, applications, applicants, balances>>]_vars

\* The brief is locked for those who rely on it: it does not change once any
\* creator has an application on the campaign.
BriefLocked ==
    [][\A c \in CampaignIds :
        (\E r \in Creators : applications[<<c, r>>].status # "None")
        => campaigns'[c].metadata_uri = campaigns[c].metadata_uri]_vars
================================================================================
