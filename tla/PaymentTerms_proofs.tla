-------------------------- MODULE PaymentTerms_proofs --------------------------
(***************************************************************************)
(* Theorems about the money that moves: who is paid what by a claim, where *)
(* a sweep goes, that the contract's balance moves as its books do, and    *)
(* that nothing moves while it is paused.  CampaignEscrow_proofs needs to  *)
(* know only that a payment takes no more than its amount; here its effect *)
(* on every account counts.                                                *)
(***************************************************************************)
EXTENDS CampaignTerms_proofs

USE EscrowAssumption, SharedAssumption

\* A campaign that was created has a business and a token, for good.
PartiesOf(c) ==
    LET camp == campaigns[c] IN
    IF camp.status = "None"
    THEN camp.business = Null /\ camp.fee_bps = 0
    ELSE camp.business \in Businesses /\ camp.token \in Tokens

MoneyInv == TermsInv /\ \A c \in CampaignIds : PartiesOf(c)

LEMMA PartiesKept ==
    ASSUME TermsInv, NEW c \in CampaignIds, PartiesOf(c), Course(c)
    PROVE  /\ PartiesOf(c)'
           /\ campaigns[c].status # "None" =>
                /\ campaigns'[c].status # "None"
                /\ campaigns'[c].token = campaigns[c].token
                /\ campaigns'[c].business = campaigns[c].business
                /\ campaigns'[c].fee_bps = campaigns[c].fee_bps
           /\ campaigns[c].status = "None" => campaigns'[c].fee_bps \in {0, instance.fee_bps}
<1> DEFINE camp == campaigns[c]
           after == campaigns'[c]
           Kept == /\ after.token = camp.token /\ after.business = camp.business
                   /\ after.fee_bps = camp.fee_bps
<1>1. camp \in Campaign /\ NoCampaign.status = "None"
    BY TermsFacts DEF TermsInv, NoCampaign
<1>2. CASE BooksStand(c) \/ Joined(c)
    <2>1. Kept /\ after.status = camp.status
        BY <1>1, <1>2 DEF BooksStand, Joined, Campaign
    <2> QED BY <2>1 DEF PartiesOf
<1>3. CASE Opened(c)
    BY <1>1, <1>3 DEF PartiesOf, Opened
<1>4. CASE Deposited(c)
    <2>1. Kept /\ after.status = "Funded" /\ camp.status = "Draft"
        BY <1>1, <1>4 DEF Deposited, Campaign
    <2> QED BY <2>1 DEF PartiesOf
<1>5. ASSUME NEW r \in Creators, Agreed(c, r)
      PROVE  Kept /\ after.status = "Active" /\ camp.status # "None"
    BY <1>1, <1>5 DEF Agreed, AcceptsCreators, Campaign
<1>6. ASSUME NEW r \in Creators, Discharged(c, r)
      PROVE  Kept /\ after.status \in {camp.status, "Completed"} /\ camp.status # "None"
    <2>1. Kept /\ after.status \in {camp.status, "Completed"}
        BY <1>1, <1>6 DEF Discharged, Settled, Campaign
    <2>2. applications[<<c, r>>].status # "None"
        BY <1>6 DEF Discharged, Settleable, TermsInv, LifeInv, EscrowInv, PendingOwesNothing, ApplicationKeys
    <2>3. applicants[c] > 0
        BY <2>2 DEF TermsInv, ApplicantsOf
    <2>4. camp.status # "None"
        BY <2>3 DEF TermsInv, StatusOf
    <2> QED BY <2>1, <2>4
<1>7. CASE Emptied(c)
    <2>1. camp.status # "None"
        BY <1>7 DEF Emptied, PartiesOf, Accounts
    <2>2. Kept
        BY <1>1, <1>7 DEF Emptied, Campaign
    <2>3. after.status # "None"
        BY <1>1, <1>7, <2>1 DEF Emptied, SweptTo, Campaign
    <2> QED BY <2>1, <2>2, <2>3 DEF PartiesOf
<1>8. CASE \E r \in Creators : Agreed(c, r) \/ Discharged(c, r)
    BY <1>5, <1>6, <1>8 DEF PartiesOf
<1> QED BY <1>2, <1>3, <1>4, <1>7, <1>8 DEF Course

LEMMA MoneyInvPreserved == MoneyInv /\ [Next]_vars => MoneyInv'
<1> SUFFICES ASSUME MoneyInv, [Next]_vars PROVE MoneyInv'
    OBVIOUS
<1>1. TermsInv /\ TermsInv'
    BY TermsInvPreserved DEF MoneyInv
<1>2. \A c \in CampaignIds : PartiesOf(c)'
    BY <1>1, EveryStepIsCourse, PartiesKept DEF MoneyInv, TermsInv
<1> QED BY <1>1, <1>2 DEF MoneyInv

\* The invariant, with every campaign's parties.
THEOREM MoneyInvariant == Spec => []MoneyInv
<1>1. Init => MoneyInv
    <2>1. Init => \A c \in CampaignIds : PartiesOf(c)
        BY DEF Init, PartiesOf, NoCampaign
    <2> QED BY <2>1, TermsInitially DEF MoneyInv
<1> QED BY <1>1, MoneyInvPreserved, PTL DEF Spec

--------------------------------------------------------------------------------
(* What a payment does to every account.                                     *)

\* The ledger `after` a payment of the contract, account by account.
PaidFrom(before, after, token, to, amount) ==
    /\ after \in Ledgers
    /\ \A t \in Tokens, a \in Accounts :
        after[t][a] = before[t][a] + (IF t = token /\ a = to THEN amount ELSE 0)
                                   - (IF t = token /\ a = EscrowContract THEN amount ELSE 0)

LEMMA PayExactly ==
    ASSUME NEW ledger \in Ledgers, NEW token \in Tokens, NEW to, NEW amount \in Nat,
           CanPay(ledger, token, to, amount)
    PROVE  PaidFrom(ledger, Pay(ledger, token, to, amount), token, to, amount)
<1>1. Pay(ledger, token, to, amount) \in Ledgers
    BY PayKeepsLedger
<1>2. CASE amount > 0
    <2>1. Pay(ledger, token, to, amount) = Transfer(ledger, token, EscrowContract, to, amount)
        BY <1>2 DEF Pay
    <2>2. ASSUME NEW t \in Tokens, NEW a \in Accounts
          PROVE  Transfer(ledger, token, EscrowContract, to, amount)[t][a] = ledger[t][a]
                    + (IF t = token /\ a = to THEN amount ELSE 0)
                    - (IF t = token /\ a = EscrowContract THEN amount ELSE 0)
        <3>1. ledger[t][a] \in Nat /\ DOMAIN ledger[t] = Accounts /\ DOMAIN ledger = Tokens
            BY DEF Ledgers
        <3>2. CASE t = token
            BY <3>1, <3>2 DEF Transfer
        <3>3. CASE t # token
            BY <3>1, <3>3 DEF Transfer
        <3> QED BY <3>2, <3>3
    <2> QED BY <1>1, <2>1, <2>2 DEF PaidFrom
<1>3. CASE amount = 0
    <2>1. Pay(ledger, token, to, amount) = ledger
        BY <1>3 DEF Pay
    <2>2. \A t \in Tokens, a \in Accounts : ledger[t][a] \in Nat
        BY DEF Ledgers
    <2> QED BY <1>1, <1>3, <2>1, <2>2 DEF PaidFrom
<1> QED BY <1>2, <1>3

\* No application becomes paid in this step.
NobodyPaid == \A key \in ApplicationKeys : Paid(key)' => Paid(key)

LEMMA ReviewPaysNobody ==
    ASSUME LifeInv, NEW d \in CampaignIds, NEW s \in Creators,
           \/ ApplyToCampaign(s, d)
           \/ \E proof \in Proofs : SubmitProof(s, d, proof)
           \/ \E b \in Businesses :
                \/ \E amount \in Payouts : ApproveCreator(b, d, s, amount)
                \/ ApproveSubmission(b, d, s) \/ RejectSubmission(b, d, s)
           \/ FreezeStep(d, s)
    PROVE  NobodyPaid
<1>1. applications \in [ApplicationKeys -> Application] /\ <<d, s>> \in ApplicationKeys
    BY DEF LifeInv, EscrowInv, TypeOK, ApplicationKeys
<1>2. CASE ApplyToCampaign(s, d)
    BY <1>1, <1>2 DEF ApplyToCampaign, NobodyPaid, Paid
<1>3. ASSUME NEW proof \in Proofs, SubmitProof(s, d, proof) PROVE NobodyPaid
    <2>1. /\ \A key \in ApplicationKeys \ {<<d, s>>} : applications'[key] = applications[key]
          /\ applications'[<<d, s>>] = [applications[<<d, s>>] EXCEPT !.proof_uri = proof,
                                            !.status = "ProofSubmitted", !.proof_approved = FALSE]
        BY <1>1, <1>3 DEF SubmitProof
    <2>2. applications'[<<d, s>>].status = "ProofSubmitted"
        BY <1>1, <2>1 DEF Application
    <2> QED BY <2>1, <2>2 DEF NobodyPaid, Paid
<1>4. ASSUME NEW b \in Businesses, NEW amount \in Payouts, ApproveCreator(b, d, s, amount)
      PROVE  NobodyPaid
    <2>1. /\ \A key \in ApplicationKeys \ {<<d, s>>} : applications'[key] = applications[key]
          /\ applications'[<<d, s>>] = [applications[<<d, s>>] EXCEPT
                                            !.payout_amount = amount, !.status = "Approved"]
        BY <1>1, <1>4 DEF ApproveCreator
    <2>2. applications'[<<d, s>>].status = "Approved"
        BY <1>1, <2>1 DEF Application
    <2> QED BY <2>1, <2>2 DEF NobodyPaid, Paid
<1>5. ASSUME NEW b \in Businesses, ApproveSubmission(b, d, s) PROVE NobodyPaid
    BY <1>1, <1>5 DEF ApproveSubmission, NobodyPaid, Paid
<1>6. ASSUME NEW b \in Businesses, RejectSubmission(b, d, s) PROVE NobodyPaid
    BY <1>1, <1>6 DEF RejectSubmission, NobodyPaid, Paid
<1>7. ASSUME NEW caller, FreezeForDispute(caller, d, s) PROVE NobodyPaid
    BY <1>1, <1>7 DEF FreezeForDispute, NobodyPaid, Paid
<1> QED BY <1>2, <1>3, <1>4, <1>5, <1>6, <1>7 DEF FreezeStep

\* A payout is paid by its claim or by its settlement, and by nothing else.
LEMMA WhoPays ==
    ASSUME LifeInv, [Next]_vars, NEW c \in CampaignIds, NEW r \in Creators,
           ~Paid(<<c, r>>), Paid(<<c, r>>)'
    PROVE  ClaimPayment(r, c) \/ SettleStep(c, r)
<1>1. applications \in [ApplicationKeys -> Application] /\ <<c, r>> \in ApplicationKeys
    BY DEF LifeInv, EscrowInv, TypeOK, ApplicationKeys
<1>2. applications'[<<c, r>>] # applications[<<c, r>>]
    BY DEF Paid
<1>3. PICK d \in CampaignIds, s \in Creators :
            PayoutStep(d, s) \/ FreezeStep(d, s) \/ SettleStep(d, s)
    BY <1>2, OtherStepsLeaveApplications DEF Next
<1>4. <<d, s>> \in ApplicationKeys
    BY DEF ApplicationKeys
<1>5. CASE ClaimPayment(s, d) \/ SettleStep(d, s)
    <2>1. \A key \in ApplicationKeys \ {<<d, s>>} : applications'[key] = applications[key]
        BY <1>1, <1>4, <1>5 DEF ClaimPayment, SettleStep, ResolveDispute
    <2>2. d = c /\ s = r
        BY <1>1, <1>2, <2>1
    <2> QED BY <1>5, <2>2
<1>6. CASE ~(ClaimPayment(s, d) \/ SettleStep(d, s))
    <2>1. NobodyPaid
        BY <1>3, <1>6, ReviewPaysNobody DEF PayoutStep
    <2> QED BY <1>1, <2>1 DEF NobodyPaid
<1> QED BY <1>5, <1>6

\* A claim to the last unit.
LEMMA ClaimPays ==
    ASSUME MoneyInv, NEW c \in CampaignIds, NEW r \in Creators, ClaimPayment(r, c)
    PROVE  LET camp == campaigns[c]
               amount == applications[<<c, r>>].payout_amount
               fee == Share(amount, camp.fee_bps)
           IN
           /\ camp.token \in Tokens /\ amount \in Nat /\ fee \in 0 .. amount
           /\ \E mid : /\ PaidFrom(balances, mid, camp.token, instance.treasury, fee)
                       /\ PaidFrom(mid, balances', camp.token, r, amount - fee)
<1> DEFINE camp == campaigns[c]
           amount == applications[<<c, r>>].payout_amount
           fee == Share(amount, camp.fee_bps)
           mid == Pay(balances, camp.token, instance.treasury, fee)
<1>1. applications[<<c, r>>].status = "ProofSubmitted"
    BY DEF ClaimPayment, MayClaim
<1>2. amount \in Nat /\ camp \in Campaign
    BY <1>1, UnpaidIsReserved, TermsFacts DEF MoneyInv, TermsInv, LifeInv
<1>3. fee \in 0 .. amount
    BY <1>2, ShareIsPart DEF Campaign
<1>4. camp.token \in Tokens
    <2>1. applicants[c] > 0
        BY <1>1 DEF MoneyInv, TermsInv, ApplicantsOf
    <2>2. camp.status # "None"
        BY <2>1 DEF MoneyInv, TermsInv, StatusOf
    <2> QED BY <2>2 DEF MoneyInv, PartiesOf
<1>5. /\ CanPay(balances, camp.token, instance.treasury, fee)
      /\ CanPay(mid, camp.token, r, amount - fee)
      /\ balances' = Pay(mid, camp.token, r, amount - fee)
    BY DEF ClaimPayment, MayClaim, CanPayCreator, PayCreatorNet, AfterFee, FeeOn, AgreedFee
<1> HIDE DEF camp, amount, fee
<1>6. PaidFrom(balances, mid, camp.token, instance.treasury, fee)
    <2>1. balances \in Ledgers
        BY BalancesAreNaturals DEF MoneyInv, TermsInv, LifeInv
    <2> QED BY <1>2, <1>3, <1>4, <1>5, <2>1, PayExactly
<1> HIDE DEF mid
<1>7. PaidFrom(mid, balances', camp.token, r, amount - fee)
    <2>1. mid \in Ledgers /\ amount - fee \in Nat
        BY <1>2, <1>3, <1>6 DEF PaidFrom
    <2> QED BY <1>4, <1>5, <2>1, PayExactly
<1> QED BY <1>2, <1>3, <1>4, <1>6, <1>7 DEF camp, amount, fee

\* Campaign c is open, and its books are those of its type.
LEMMA PartiesFacts ==
    ASSUME MoneyInv, NEW c \in CampaignIds, NEW r \in Creators,
           applications[<<c, r>>].status # "None" \/ campaigns[c].status # "None"
    PROVE  campaigns[c].token \in Tokens /\ campaigns[c].business \in Businesses
<1>1. applications[<<c, r>>].status # "None" => applicants[c] > 0
    BY DEF MoneyInv, TermsInv, ApplicantsOf
<1>2. campaigns[c].status # "None"
    BY <1>1 DEF MoneyInv, TermsInv, StatusOf
<1> QED BY <1>2 DEF MoneyInv, PartiesOf

\* A settlement to the last unit.
LEMMA ResolvePays ==
    ASSUME MoneyInv, NEW c \in CampaignIds, NEW r \in Creators, NEW admin,
           NEW resolution \in Resolutions, ResolveDispute(admin, c, r, resolution)
    PROVE  LET camp == campaigns[c]
               amount == applications[<<c, r>>].payout_amount
               gross == CreatorGross(amount, resolution)
               fee == Share(gross, camp.fee_bps)
           IN
           /\ camp.token \in Tokens /\ camp.business \in Businesses
           /\ amount \in Nat /\ gross \in 0 .. amount /\ fee \in 0 .. gross
           /\ \E mid1, mid2 :
                /\ PaidFrom(balances, mid1, camp.token, instance.treasury, fee)
                /\ PaidFrom(mid1, mid2, camp.token, r, gross - fee)
                /\ PaidFrom(mid2, balances', camp.token, camp.business, amount - gross)
<1> DEFINE camp == campaigns[c]
           amount == applications[<<c, r>>].payout_amount
           gross == CreatorGross(amount, resolution)
           fee == Share(gross, camp.fee_bps)
           mid1 == Pay(balances, camp.token, instance.treasury, fee)
           mid2 == Pay(mid1, camp.token, r, gross - fee)
<1>1. EscrowInv /\ applications[<<c, r>>].status # "Paid" /\ amount > 0
    BY DEF ResolveDispute, MayResolve, Settleable, MoneyInv, TermsInv, LifeInv
<1>2. amount \in Nat /\ camp \in Campaign
    BY <1>1, UnpaidIsReserved, CampaignFacts
<1>3. gross \in 0 .. amount
    BY <1>2, GrossIsPart DEF ResolveDispute, MayResolve
<1>4. fee \in 0 .. gross
    <2>1. gross \in Nat /\ camp.fee_bps \in BasisPoints
        BY <1>2, <1>3 DEF Campaign
    <2> QED BY <2>1, ShareIsPart
<1>5. camp.token \in Tokens /\ camp.business \in Businesses
    <2>1. applications[<<c, r>>].status # "None"
        BY <1>1 DEF EscrowInv, PendingOwesNothing, ApplicationKeys
    <2> QED BY <2>1, PartiesFacts
<1>6. /\ CanPay(balances, camp.token, instance.treasury, fee)
      /\ CanPay(mid1, camp.token, r, gross - fee)
      /\ CanPay(mid2, camp.token, camp.business, amount - gross)
      /\ balances' = Pay(mid2, camp.token, camp.business, amount - gross)
    BY DEF ResolveDispute, MayResolve, CanPayCreator, PayCreatorNet,
        AfterFee, FeeOn, AgreedFee, BusinessAmount
<1>7. balances \in Ledgers
    BY <1>1, BalancesAreNaturals
<1> HIDE DEF camp, amount, gross, fee
<1>8. PaidFrom(balances, mid1, camp.token, instance.treasury, fee)
    BY <1>2, <1>3, <1>4, <1>5, <1>6, <1>7, PayExactly
<1> HIDE DEF mid1
<1>9. PaidFrom(mid1, mid2, camp.token, r, gross - fee)
    <2>1. mid1 \in Ledgers /\ gross - fee \in Nat
        BY <1>2, <1>3, <1>4, <1>8 DEF PaidFrom
    <2> QED BY <1>5, <1>6, <2>1, PayExactly
<1> HIDE DEF mid2
<1>10. PaidFrom(mid2, balances', camp.token, camp.business, amount - gross)
    <2>1. mid2 \in Ledgers /\ amount - gross \in Nat
        BY <1>2, <1>3, <1>9 DEF PaidFrom
    <2> QED BY <1>5, <1>6, <2>1, PayExactly
<1> QED BY <1>2, <1>3, <1>4, <1>5, <1>8, <1>9, <1>10 DEF camp, amount, gross, fee

\* A payout nobody contests is paid by its claim, never by a settlement, and one
\* under dispute by a settlement.
LEMMA WhoPaysWhich ==
    ASSUME LifeInv, [Next]_vars, NEW c \in CampaignIds, NEW r \in Creators,
           ~Paid(<<c, r>>), Paid(<<c, r>>)'
    PROVE  IF applications[<<c, r>>].frozen THEN SettleStep(c, r) ELSE ClaimPayment(r, c)
<1>1. CASE applications[<<c, r>>].frozen
    BY <1>1, WhoPays DEF ClaimPayment, MayClaim, RequireNotFrozen
<1>2. CASE ~applications[<<c, r>>].frozen
    <2>1. applications[<<c, r>>].dispute_opened_at = Null
        BY <1>2, UnfrozenClock
    <2>2. ~SettleStep(c, r)
        BY <2>1 DEF SettleStep, ResolveDispute, MayResolve, EvidenceWindowClosed
    <2> QED BY <1>2, <2>2, WhoPays
<1> QED BY <1>1, <1>2

\* The accounts after a payout of which `gross` is the creator's side.
PaidByTerms(c, r, gross) ==
    LET camp == campaigns[c] IN
    \A a \in Accounts \ {EscrowContract} :
        balances'[camp.token][a] = balances[camp.token][a]
            + (IF a = r THEN gross - Share(gross, camp.fee_bps) ELSE 0)
            + (IF a = instance.treasury THEN Share(gross, camp.fee_bps) ELSE 0)
            + (IF a = camp.business THEN applications[<<c, r>>].payout_amount - gross ELSE 0)

LEMMA ClaimPaysOut ==
    ASSUME MoneyInv, NEW c \in CampaignIds, NEW r \in Creators, ClaimPayment(r, c)
    PROVE  PaidByTerms(c, r, applications[<<c, r>>].payout_amount)
<1> DEFINE token == campaigns[c].token
           amount == applications[<<c, r>>].payout_amount
           fee == Share(amount, campaigns[c].fee_bps)
<1>1. /\ token \in Tokens /\ amount \in Nat /\ fee \in 0 .. amount
      /\ \E mid : /\ PaidFrom(balances, mid, token, instance.treasury, fee)
                  /\ PaidFrom(mid, balances', token, r, amount - fee)
    BY ClaimPays
<1> HIDE DEF token, amount, fee
<1>2. PICK mid : /\ PaidFrom(balances, mid, token, instance.treasury, fee)
                 /\ PaidFrom(mid, balances', token, r, amount - fee)
    BY <1>1
<1>3. ASSUME NEW a \in Accounts \ {EscrowContract}
      PROVE  balances'[token][a] = balances[token][a] + (IF a = r THEN amount - fee ELSE 0)
                                                      + (IF a = instance.treasury THEN fee ELSE 0)
                                                      + (IF a = campaigns[c].business THEN amount - amount ELSE 0)
    <2>1. balances[token][a] \in Nat
        BY <1>1, BalancesAreNaturals DEF MoneyInv, TermsInv, LifeInv, Ledgers
    <2>2. mid[token][a] = balances[token][a] + (IF a = instance.treasury THEN fee ELSE 0)
        BY <1>1, <1>2, <2>1 DEF PaidFrom
    <2>3. balances'[token][a] = mid[token][a] + (IF a = r THEN amount - fee ELSE 0)
        BY <1>1, <1>2, <2>1, <2>2 DEF PaidFrom
    <2> QED BY <1>1, <2>1, <2>2, <2>3
<1> QED BY <1>3 DEF PaidByTerms, token, amount, fee

LEMMA SettlementPaysOut ==
    ASSUME MoneyInv, NEW c \in CampaignIds, NEW r \in Creators, NEW admin,
           NEW resolution \in Resolutions, ResolveDispute(admin, c, r, resolution)
    PROVE  PaidByTerms(c, r, CreatorGross(applications[<<c, r>>].payout_amount, resolution))
<1> DEFINE token == campaigns[c].token
           business == campaigns[c].business
           amount == applications[<<c, r>>].payout_amount
           gross == CreatorGross(amount, resolution)
           fee == Share(gross, campaigns[c].fee_bps)
<1>1. /\ token \in Tokens /\ amount \in Nat /\ gross \in 0 .. amount /\ fee \in 0 .. gross
      /\ \E mid1, mid2 :
            /\ PaidFrom(balances, mid1, token, instance.treasury, fee)
            /\ PaidFrom(mid1, mid2, token, r, gross - fee)
            /\ PaidFrom(mid2, balances', token, business, amount - gross)
    BY ResolvePays
<1> HIDE DEF token, business, amount, gross, fee
<1>2. PICK mid1, mid2 :
            /\ PaidFrom(balances, mid1, token, instance.treasury, fee)
            /\ PaidFrom(mid1, mid2, token, r, gross - fee)
            /\ PaidFrom(mid2, balances', token, business, amount - gross)
    BY <1>1
<1>3. ASSUME NEW a \in Accounts \ {EscrowContract}
      PROVE  balances'[token][a] = balances[token][a] + (IF a = r THEN gross - fee ELSE 0)
                                                      + (IF a = instance.treasury THEN fee ELSE 0)
                                                      + (IF a = business THEN amount - gross ELSE 0)
    <2>1. balances[token][a] \in Nat
        BY <1>1, BalancesAreNaturals DEF MoneyInv, TermsInv, LifeInv, Ledgers
    <2>2. mid1[token][a] = balances[token][a] + (IF a = instance.treasury THEN fee ELSE 0)
        BY <1>1, <1>2, <2>1 DEF PaidFrom
    <2>3. mid2[token][a] = mid1[token][a] + (IF a = r THEN gross - fee ELSE 0)
        BY <1>1, <1>2, <2>1, <2>2 DEF PaidFrom
    <2>4. balances'[token][a] = mid2[token][a] + (IF a = business THEN amount - gross ELSE 0)
        BY <1>1, <1>2, <2>1, <2>2, <2>3 DEF PaidFrom
    <2> QED BY <1>1, <2>1, <2>2, <2>3, <2>4
<1> QED BY <1>3 DEF PaidByTerms, token, business, amount, gross, fee

\* Claimed or settled, a payout reaches its creator less the fee of the campaign's
\* creation, the treasury gets that fee, the business what a settlement leaves it,
\* and nobody else's account moves; the agreed fee is the one in force then, and
\* never changes.
THEOREM AgreedTermsPay == Spec => PaidOnAgreedTerms
<1>1. ASSUME MoneyInv, [Next]_vars, NEW c \in CampaignIds, NEW r \in Creators,
             ~Paid(<<c, r>>), Paid(<<c, r>>)'
      PROVE  \E gross \in GrossOf(applications[<<c, r>>]) : PaidByTerms(c, r, gross)
    <2>1. CASE ~applications[<<c, r>>].frozen
        <3>1. ClaimPayment(r, c)
            BY <1>1, <2>1, WhoPaysWhich DEF MoneyInv, TermsInv
        <3> QED BY <1>1, <2>1, <3>1, ClaimPaysOut DEF GrossOf
    <2>2. CASE applications[<<c, r>>].frozen
        <3>1. SettleStep(c, r)
            BY <1>1, <2>2, WhoPaysWhich DEF MoneyInv, TermsInv
        <3>2. PICK admin \in Admins, resolution \in Resolutions :
                    ResolveDispute(admin, c, r, resolution)
            BY <3>1 DEF SettleStep
        <3>3. resolution.bps \in BasisPoints
            BY <3>2 DEF ResolveDispute, MayResolve
        <3>4. CreatorGross(applications[<<c, r>>].payout_amount, resolution) \in GrossOf(applications[<<c, r>>])
            BY <2>2, <3>3 DEF GrossOf
        <3>5. PaidByTerms(c, r, CreatorGross(applications[<<c, r>>].payout_amount, resolution))
            BY <1>1, <3>2, SettlementPaysOut
        <3> QED BY <3>4, <3>5
    <2> QED BY <2>1, <2>2
<1>2. ASSUME MoneyInv, [Next]_vars, NEW c \in CampaignIds
      PROVE  /\ campaigns[c].status = "None" => campaigns'[c].fee_bps \in {0, instance.fee_bps}
             /\ campaigns[c].status # "None" => campaigns'[c].fee_bps = campaigns[c].fee_bps
    BY <1>2, EveryStepIsCourse, PartiesKept DEF MoneyInv, TermsInv
<1>3. MoneyInv /\ [Next]_vars =>
        [\A c \in CampaignIds :
            LET camp == campaigns[c] IN
            /\ camp.status = "None" => campaigns'[c].fee_bps \in {0, instance.fee_bps}
            /\ camp.status # "None" =>
                /\ campaigns'[c].fee_bps = camp.fee_bps
                /\ \A r \in Creators :
                    LET app == applications[<<c, r>>] IN
                    (~Paid(<<c, r>>) /\ Paid(<<c, r>>)') =>
                        \E gross \in GrossOf(app) : \A a \in Accounts \ {EscrowContract} :
                            balances'[camp.token][a] = balances[camp.token][a]
                                + (IF a = r THEN gross - Share(gross, camp.fee_bps) ELSE 0)
                                + (IF a = instance.treasury THEN Share(gross, camp.fee_bps) ELSE 0)
                                + (IF a = camp.business THEN app.payout_amount - gross ELSE 0)]_vars
    BY <1>1, <1>2 DEF PaidByTerms
<1> QED BY <1>3, MoneyInvariant, PTL DEF Spec, PaidOnAgreedTerms

--------------------------------------------------------------------------------
(* The pause.                                                                *)

\* Whatever else is called while the contract is paused, governance included,
\* every campaign, application and balance is where it was.
THEOREM PauseIsTotal == Spec => PauseHolds
<1>1. ASSUME instance.paused, [Next]_vars
      PROVE  UNCHANGED <<campaigns, applications, applicants, balances>>
    <2>1. CASE Governance \/ Tick \/ TokenStep \/ UNCHANGED vars
        BY <2>1 DEF Governance, Initialize, Pause, Unpause, SetPaused, ProposeAdmin, AcceptAdmin,
            UpdateFeeBps, UpdateTreasury, Tick, TokenStep, Bar, Admit, vars
    <2>2. ~NewCampaign
        BY <1>1 DEF NewCampaign, CreateCampaign, RequireNotPaused
    <2>3. ASSUME NEW c \in CampaignIds PROVE ~CampaignStep(c)
        BY <1>1 DEF CampaignStep, FundCampaign, UpdateCampaignMetadata, CancelCampaign,
            ExpireCampaign, MayExpire, ReclaimSurplus, EmergencyRecoverCampaign, RequireNotPaused
    <2>4. ASSUME NEW c \in CampaignIds, NEW r \in Creators
          PROVE  ~(PayoutStep(c, r) \/ FreezeStep(c, r) \/ SettleStep(c, r))
        BY <1>1 DEF PayoutStep, ApplyToCampaign, SubmitProof, ClaimPayment, MayClaim, ApproveCreator,
            ApproveSubmission, RejectSubmission, FreezeStep, FreezeForDispute, MayFreeze, SettleStep,
            ResolveDispute, MayResolve, RequireNotPaused
    <2> QED BY <1>1, <2>1, <2>2, <2>3, <2>4 DEF Next
<1>2. [Next]_vars =>
        [instance.paused => UNCHANGED <<campaigns, applications, applicants, balances>>]_vars
    BY <1>1
<1> QED BY <1>2, PTL DEF Spec, PauseHolds

--------------------------------------------------------------------------------
(* Where a sweep goes.                                                       *)

LEMMA SweepPays ==
    ASSUME MoneyInv, NEW c \in CampaignIds, NEW to, NEW status, Sweep(c, to, status),
           campaigns[c].status # "None" \/ campaigns[c].business \in Businesses
    PROVE  LET free == campaigns[c].escrow_balance - campaigns[c].committed_payouts IN
           /\ campaigns[c].token \in Tokens /\ campaigns[c].business \in Businesses
           /\ free \in Nat
           /\ PaidFrom(balances, balances', campaigns[c].token, to, free)
<1> DEFINE camp == campaigns[c]
           free == camp.escrow_balance - camp.committed_payouts
<1>1. camp.status # "None" /\ camp.token \in Tokens /\ camp.business \in Businesses
    BY DEF MoneyInv, PartiesOf, Accounts
<1>2. free \in Nat
    BY CampaignFacts DEF MoneyInv, TermsInv, LifeInv
<1>3. CanPay(balances, camp.token, to, free) /\ balances' = Pay(balances, camp.token, to, free)
    BY DEF Sweep, CanSweep, Unallocated
<1>4. balances \in Ledgers
    BY BalancesAreNaturals DEF MoneyInv, TermsInv, LifeInv
<1> HIDE DEF camp, free
<1>5. PaidFrom(balances, balances', camp.token, to, free)
    BY <1>1, <1>2, <1>3, <1>4, PayExactly
<1> QED BY <1>1, <1>2, <1>5 DEF camp, free

\* What campaign c holds and owes nobody.
FreeIn(c) == campaigns[c].escrow_balance - campaigns[c].committed_payouts

\* A campaign's free part shrinks by a sweep of that campaign, or because it
\* agrees a payout.
LEMMA WhoFrees ==
    ASSUME MoneyInv, [Next]_vars, NEW c \in CampaignIds, FreeIn(c) > FreeIn(c)',
           campaigns'[c].approved_count = campaigns[c].approved_count
    PROVE  \/ \E b \in Businesses : CancelCampaign(b, c) \/ ExpireCampaign(b, c) \/ ReclaimSurplus(b, c)
           \/ \E a \in Admins : EmergencyRecoverCampaign(a, c)
<1>1. /\ campaigns \in [CampaignIds -> Campaign] /\ campaigns[c] \in Campaign
      /\ campaigns[c].escrow_balance \in Nat /\ campaigns[c].committed_payouts \in Nat
      /\ campaigns[c].approved_count \in Nat /\ campaigns[c].total_budget \in Nat
      /\ campaigns[c].status = "Draft" => campaigns[c].escrow_balance = 0
    BY CampaignFacts DEF MoneyInv, TermsInv, LifeInv, EscrowInv, TypeOK, Campaign
<1>2. campaigns'[c] # campaigns[c]
    BY <1>1 DEF FreeIn
<1>3. ~(Governance \/ Tick \/ TokenStep \/ UNCHANGED vars)
    BY <1>2 DEF Governance, Initialize, Pause, Unpause, SetPaused, ProposeAdmin, AcceptAdmin,
        UpdateFeeBps, UpdateTreasury, Tick, TokenStep, Bar, Admit, vars
<1>4. ~NewCampaign
    <2>1. SUFFICES ASSUME NewCampaign PROVE FALSE
        OBVIOUS
    <2>2. campaigns[c] = NoCampaign
        <3>1. instance.next_campaign_id = c
            BY <1>1, <1>2, <2>1 DEF NewCampaign, CreateCampaign
        <3> QED BY <3>1 DEF MoneyInv, TermsInv, LifeInv, EscrowInv, IdleHoldsNothing, CampaignIds
    <2>3. FreeIn(c) = 0
        BY <2>2 DEF FreeIn, NoCampaign
    <2>4. FreeIn(c)' = 0
        BY <1>1, <1>2, <2>1 DEF FreeIn, NewCampaign, CreateCampaign
    <2> QED BY <2>3, <2>4
<1>5. ASSUME NEW d \in CampaignIds, NEW r \in Creators,
             PayoutStep(d, r) \/ FreezeStep(d, r) \/ SettleStep(d, r)
      PROVE  FALSE
    <2>1. CASE ClaimPayment(r, d) \/ SettleStep(d, r)
        <3>1. d = c /\ applications[<<c, r>>].status # "Paid"
            BY <1>1, <1>2, <2>1 DEF ClaimPayment, MayClaim, SettleStep, ResolveDispute, MayResolve, Settleable
        <3>2. campaigns'[c] = Settled(campaigns[c], applications[<<c, r>>].payout_amount)
            BY <1>1, <2>1, <3>1 DEF ClaimPayment, SettleStep, ResolveDispute
        <3>3. FreeIn(c)' = FreeIn(c)
            <4> DEFINE amount == applications[<<c, r>>].payout_amount
            <4>1. amount \in Nat /\ amount <= campaigns[c].committed_payouts
                BY <3>1, UnpaidIsReserved DEF MoneyInv, TermsInv, LifeInv
            <4>2. campaigns[c].committed_payouts <= campaigns[c].escrow_balance
                BY CampaignFacts DEF MoneyInv, TermsInv, LifeInv
            <4> HIDE DEF amount
            <4>3. /\ campaigns'[c].escrow_balance = campaigns[c].escrow_balance - amount
                  /\ campaigns'[c].committed_payouts = campaigns[c].committed_payouts - amount
                BY <1>1, <3>2, <4>1, <4>2, SettledBooks DEF amount
            <4> QED BY <1>1, <4>1, <4>3 DEF FreeIn
        <3> QED BY <1>1, <3>3 DEF FreeIn
    <2>2. ASSUME NEW b \in Businesses, NEW amount \in Payouts, ApproveCreator(b, d, r, amount)
          PROVE  FALSE
        <3>1. d = c
            BY <1>1, <1>2, <2>2 DEF ApproveCreator
        <3>2. campaigns'[c].approved_count = campaigns[c].approved_count + 1
            BY <1>1, <2>2, <3>1 DEF ApproveCreator, Campaign
        <3> QED BY <1>1, <3>2
    <2>3. CASE ~(ClaimPayment(r, d) \/ SettleStep(d, r)) /\
               ~\E b \in Businesses, amount \in Payouts : ApproveCreator(b, d, r, amount)
        BY <1>2, <1>5, <2>3 DEF PayoutStep, ApplyToCampaign, SubmitProof, ApproveSubmission,
            RejectSubmission, FreezeStep, FreezeForDispute
    <2> QED BY <2>1, <2>2, <2>3
<1>6. PICK d \in CampaignIds : CampaignStep(d)
    BY <1>3, <1>4, <1>5 DEF Next
<1>7. d = c
    BY <1>1, <1>2, <1>6 DEF CampaignStep, FundCampaign, UpdateCampaignMetadata, CancelCampaign,
        ExpireCampaign, ReclaimSurplus, EmergencyRecoverCampaign, Sweep
<1>8. ASSUME NEW b \in Businesses PROVE ~FundCampaign(b, c)
    <2>1. FundCampaign(b, c) =>
            /\ FreeIn(c)' = campaigns[c].total_budget - campaigns[c].committed_payouts
            /\ campaigns[c].escrow_balance = 0
        BY <1>1 DEF FundCampaign, FreeIn, Campaign
    <2> QED BY <1>1, <2>1 DEF FreeIn
<1>9. ASSUME NEW b \in Businesses, NEW brief \in Briefs PROVE ~UpdateCampaignMetadata(c, b, brief)
    <2>1. UpdateCampaignMetadata(c, b, brief) =>
            campaigns'[c] = [campaigns[c] EXCEPT !.metadata_uri = brief]
        BY <1>1 DEF UpdateCampaignMetadata
    <2>2. UpdateCampaignMetadata(c, b, brief) => FreeIn(c)' = FreeIn(c)
        BY <1>1, <2>1 DEF FreeIn, Campaign
    <2> QED BY <1>1, <2>2 DEF FreeIn
<1> QED BY <1>6, <1>7, <1>8, <1>9 DEF CampaignStep

\* Campaign c is swept to this account, and to no other.
SweptWhole(c, payee) ==
    /\ campaigns'[c].escrow_balance = campaigns[c].committed_payouts
    /\ campaigns'[c].committed_payouts = campaigns[c].committed_payouts
    /\ \A a \in Accounts \ {EscrowContract} :
        balances'[campaigns[c].token][a] = balances[campaigns[c].token][a]
            + (IF a = payee THEN FreeIn(c) ELSE 0)

LEMMA SweepIsWhole ==
    ASSUME MoneyInv, NEW c \in CampaignIds, NEW to, NEW status, Sweep(c, to, status),
           campaigns[c].status # "None" \/ campaigns[c].business \in Businesses
    PROVE  SweptWhole(c, to)
<1>1. campaigns \in [CampaignIds -> Campaign] /\ balances \in Ledgers
    BY BalancesAreNaturals DEF MoneyInv, TermsInv, LifeInv, EscrowInv, TypeOK
<1>2. /\ campaigns'[c].escrow_balance = campaigns[c].committed_payouts
      /\ campaigns'[c].committed_payouts = campaigns[c].committed_payouts
    BY <1>1 DEF Sweep, Campaign
<1>3. /\ campaigns[c].token \in Tokens /\ FreeIn(c) \in Nat
      /\ PaidFrom(balances, balances', campaigns[c].token, to, FreeIn(c))
    BY SweepPays DEF FreeIn
<1> HIDE DEF FreeIn
<1>4. ASSUME NEW a \in Accounts \ {EscrowContract}
      PROVE  balances'[campaigns[c].token][a] = balances[campaigns[c].token][a]
                + (IF a = to THEN FreeIn(c) ELSE 0)
    <2>1. balances[campaigns[c].token][a] \in Nat
        BY <1>1, <1>3 DEF Ledgers
    <2> QED BY <1>3, <2>1 DEF PaidFrom
<1> QED BY <1>2, <1>4 DEF SweptWhole

\* What a campaign holds and owes nobody leaves whole when it goes, to its business
\* or, after the grace period, to the treasury; it is never split and never goes
\* anywhere else.
THEOREM SurplusGoesBack == Spec => SurplusReturnsToBusiness
<1>1. ASSUME MoneyInv, [Next]_vars, NEW c \in CampaignIds, FreeIn(c) > FreeIn(c)',
             campaigns'[c].approved_count = campaigns[c].approved_count
      PROVE  \/ SweptWhole(c, campaigns[c].business)
             \/ /\ now > campaigns[c].completion_deadline + EMERGENCY_RECOVERY_GRACE_PERIOD
                /\ SweptWhole(c, instance.treasury)
    <2>1. ASSUME NEW b \in Businesses,
                 CancelCampaign(b, c) \/ ExpireCampaign(b, c) \/ ReclaimSurplus(b, c)
          PROVE  SweptWhole(c, campaigns[c].business)
        <3>1. campaigns[c].business = b /\ \E status : Sweep(c, b, status)
            BY <2>1 DEF CancelCampaign, ExpireCampaign, MayExpire, ReclaimSurplus, OwnedBy
        <3> QED BY <1>1, <3>1, SweepIsWhole
    <2>2. ASSUME NEW a \in Admins, EmergencyRecoverCampaign(a, c)
          PROVE  /\ now > campaigns[c].completion_deadline + EMERGENCY_RECOVERY_GRACE_PERIOD
                 /\ SweptWhole(c, instance.treasury)
        <3>1. /\ now > campaigns[c].completion_deadline + EMERGENCY_RECOVERY_GRACE_PERIOD
              /\ campaigns[c].status # "None" /\ Sweep(c, instance.treasury, "Cancelled")
            BY <2>2 DEF EmergencyRecoverCampaign, GracePeriodEnd, NotClosed
        <3> QED BY <1>1, <3>1, SweepIsWhole
    <2> QED BY <1>1, <2>1, <2>2, WhoFrees
<1>2. ASSUME MoneyInv, [Next]_vars, NEW c \in CampaignIds, FreeIn(c) > FreeIn(c)',
             campaigns'[c].approved_count = campaigns[c].approved_count
      PROVE  \E payee \in {campaigns[c].business} \cup
                 (IF now > campaigns[c].completion_deadline + EMERGENCY_RECOVERY_GRACE_PERIOD
                  THEN {instance.treasury} ELSE {}) : SweptWhole(c, payee)
    BY <1>1, <1>2
<1>3. MoneyInv /\ [Next]_vars =>
        [\A c \in CampaignIds :
            LET camp == campaigns[c]
                free == camp.escrow_balance - camp.committed_payouts
                entitled == {camp.business} \cup
                    (IF now > camp.completion_deadline + EMERGENCY_RECOVERY_GRACE_PERIOD
                     THEN {instance.treasury} ELSE {})
            IN  (/\ free > campaigns'[c].escrow_balance - campaigns'[c].committed_payouts
                 /\ campaigns'[c].approved_count = camp.approved_count)
                => /\ campaigns'[c].escrow_balance = camp.committed_payouts
                   /\ campaigns'[c].committed_payouts = camp.committed_payouts
                   /\ \E payee \in entitled : \A a \in Accounts \ {EscrowContract} :
                        balances'[camp.token][a] = balances[camp.token][a]
                            + (IF a = payee THEN free ELSE 0)]_vars
    BY <1>2 DEF SweptWhole, FreeIn
<1> QED BY <1>3, MoneyInvariant, PTL DEF Spec, SurplusReturnsToBusiness

--------------------------------------------------------------------------------
(* The contract's balance moves as its books do.                             *)

\* One campaign's books move, and the contract's balance in its token with them.
BookedTo(c) ==
    /\ Books(c)
    /\ \A t \in Tokens :
        balances'[t][EscrowContract] = balances[t][EscrowContract] +
            (IF t = campaigns[c].token
             THEN campaigns'[c].escrow_balance - campaigns[c].escrow_balance ELSE 0)

Booked(t) ==
    balances'[t][EscrowContract] - balances[t][EscrowContract]
      = SumFunction(HeldIn(t))' - SumFunction(HeldIn(t))

\* The campaigns' holdings in a token move as the one campaign's escrow.
LEMMA HeldAfter ==
    ASSUME EscrowInv, NEW c \in CampaignIds, Books(c), NEW t \in Tokens
    PROVE  /\ SumFunction(HeldIn(t)) \in Nat /\ SumFunction(HeldIn(t)') \in Nat
           /\ SumFunction(HeldIn(t)') = SumFunction(HeldIn(t)) +
                (IF t = campaigns[c].token
                 THEN campaigns'[c].escrow_balance - campaigns[c].escrow_balance ELSE 0)
<1>1. HeldIn(t) \in [CampaignIds -> Nat] /\ HeldIn(t)' \in [CampaignIds -> Nat]
    BY DEF HeldIn, Books, Campaign, EscrowInv, TypeOK
<1>2. \A d \in CampaignIds \ {c} : HeldIn(t)'[d] = HeldIn(t)[d]
    BY DEF HeldIn, Books
<1>3. SumFunction(HeldIn(t)') = SumFunction(HeldIn(t)) - HeldIn(t)[c] + HeldIn(t)'[c]
    BY <1>1, <1>2, CampaignIdsFinite, SumUpdate
<1>4. /\ SumFunction(HeldIn(t)) \in Nat /\ SumFunction(HeldIn(t)') \in Nat
      /\ HeldIn(t)[c] \in Nat /\ HeldIn(t)'[c] \in Nat
    BY <1>1, CampaignIdsFinite, SumBound
<1>5. HeldIn(t)'[c] - HeldIn(t)[c] =
        (IF t = campaigns[c].token
         THEN campaigns'[c].escrow_balance - campaigns[c].escrow_balance ELSE 0)
    BY DEF HeldIn, Books, Campaign, EscrowInv, TypeOK
<1> HIDE DEF HeldIn
<1>6. SumFunction(HeldIn(t)') = SumFunction(HeldIn(t)) + (HeldIn(t)'[c] - HeldIn(t)[c])
    BY <1>3, <1>4
<1> QED BY <1>4, <1>5, <1>6

LEMMA BookedToIsBooked ==
    ASSUME EscrowInv, NEW c \in CampaignIds, BookedTo(c), NEW t \in Tokens
    PROVE  Booked(t)
<1> DEFINE d == IF t = campaigns[c].token
                THEN campaigns'[c].escrow_balance - campaigns[c].escrow_balance ELSE 0
<1>1. balances[t][EscrowContract] \in Nat
    BY BalancesAreNaturals
<1>2. balances'[t][EscrowContract] = balances[t][EscrowContract] + d
    BY DEF BookedTo
<1>3. /\ SumFunction(HeldIn(t)) \in Nat /\ SumFunction(HeldIn(t)') = SumFunction(HeldIn(t)) + d
      /\ d \in Int
    <2>1. campaigns[c].escrow_balance \in Nat /\ campaigns'[c].escrow_balance \in Nat
        BY CampaignFacts DEF BookedTo, Books, Campaign
    <2> QED BY <2>1, HeldAfter DEF BookedTo
<1> HIDE DEF d, HeldIn
<1> QED BY <1>1, <1>2, <1>3 DEF Booked

\* A step that moves neither the contract's balance nor any campaign's escrow.
LEMMA NothingMoved ==
    ASSUME EscrowInv, balances' = balances, campaigns' \in [CampaignIds -> Campaign],
           \A d \in CampaignIds :
                /\ campaigns'[d].escrow_balance = campaigns[d].escrow_balance
                /\ campaigns'[d].token = campaigns[d].token \/ campaigns[d].escrow_balance = 0,
           NEW t \in Tokens
    PROVE  Booked(t)
<1>1. HeldIn(t)' = HeldIn(t)
    BY DEF HeldIn
<1>2. HeldIn(t) \in [CampaignIds -> Nat]
    BY DEF HeldIn, Campaign, EscrowInv, TypeOK
<1>3. SumFunction(HeldIn(t)) \in Nat
    BY <1>2, CampaignIdsFinite, SumBound
<1>4. balances[t][EscrowContract] \in Nat
    BY BalancesAreNaturals
<1> QED BY <1>1, <1>3, <1>4 DEF Booked

\* The payout leaves the contract whole, and only the payout.
LEMMA SettlementIsBooked ==
    ASSUME MoneyInv, instance.treasury # EscrowContract,
           NEW c \in CampaignIds, NEW r \in Creators, ClaimPayment(r, c) \/ SettleStep(c, r)
    PROVE  BookedTo(c)
<1> DEFINE amount == applications[<<c, r>>].payout_amount
           token == campaigns[c].token
<1>1. EscrowInv /\ applications[<<c, r>>].status # "Paid"
    BY DEF ClaimPayment, MayClaim, SettleStep, ResolveDispute, MayResolve, Settleable, MoneyInv, TermsInv, LifeInv
<1>2. /\ amount \in Nat /\ amount <= campaigns[c].committed_payouts
      /\ campaigns \in [CampaignIds -> Campaign] /\ campaigns[c] \in Campaign
      /\ campaigns[c].escrow_balance \in Nat
      /\ campaigns[c].committed_payouts <= campaigns[c].escrow_balance
    BY <1>1, UnpaidIsReserved, CampaignFacts DEF EscrowInv, TypeOK
<1>3. campaigns' = [campaigns EXCEPT ![c] = Settled(campaigns[c], amount)]
    BY DEF ClaimPayment, SettleStep, ResolveDispute
<1>4. EscrowContract \in Accounts /\ r # EscrowContract
    BY DEF Accounts
<1>5. \A t \in Tokens : balances[t][EscrowContract] \in Nat
    BY <1>1, BalancesAreNaturals
<1>6. ASSUME NEW t \in Tokens
      PROVE  balances'[t][EscrowContract] =
                balances[t][EscrowContract] - (IF t = token THEN amount ELSE 0)
    <2>1. CASE ClaimPayment(r, c)
        <3> DEFINE fee == Share(amount, campaigns[c].fee_bps)
        <3>1. fee \in 0 .. amount /\
              \E mid : /\ PaidFrom(balances, mid, token, instance.treasury, fee)
                       /\ PaidFrom(mid, balances', token, r, amount - fee)
            BY <2>1, ClaimPays
        <3> HIDE DEF fee, amount, token
        <3>2. PICK mid : /\ PaidFrom(balances, mid, token, instance.treasury, fee)
                         /\ PaidFrom(mid, balances', token, r, amount - fee)
            BY <3>1
        <3>3. mid[t][EscrowContract] =
                balances[t][EscrowContract] - (IF t = token THEN fee ELSE 0)
            BY <1>2, <1>4, <1>5, <3>1, <3>2 DEF PaidFrom
        <3>4. balances'[t][EscrowContract] =
                mid[t][EscrowContract] - (IF t = token THEN amount - fee ELSE 0)
            BY <1>2, <1>4, <1>5, <3>1, <3>2, <3>3 DEF PaidFrom
        <3> QED BY <1>2, <1>5, <3>1, <3>3, <3>4
    <2>2. ASSUME NEW a \in Admins, NEW res \in Resolutions, ResolveDispute(a, c, r, res)
          PROVE  balances'[t][EscrowContract] =
                    balances[t][EscrowContract] - (IF t = token THEN amount ELSE 0)
        <3> DEFINE gross == CreatorGross(amount, res)
                   fee == Share(gross, campaigns[c].fee_bps)
                   business == campaigns[c].business
        <3>1. /\ business \in Businesses /\ gross \in 0 .. amount /\ fee \in 0 .. gross
              /\ \E mid1, mid2 :
                    /\ PaidFrom(balances, mid1, token, instance.treasury, fee)
                    /\ PaidFrom(mid1, mid2, token, r, gross - fee)
                    /\ PaidFrom(mid2, balances', token, business, amount - gross)
            BY <2>2, ResolvePays
        <3> HIDE DEF gross, fee, amount, token, business
        <3>2. PICK mid1, mid2 :
                    /\ PaidFrom(balances, mid1, token, instance.treasury, fee)
                    /\ PaidFrom(mid1, mid2, token, r, gross - fee)
                    /\ PaidFrom(mid2, balances', token, business, amount - gross)
            BY <3>1
        <3>3. mid1[t][EscrowContract] =
                balances[t][EscrowContract] - (IF t = token THEN fee ELSE 0)
            BY <1>2, <1>4, <1>5, <3>1, <3>2 DEF PaidFrom
        <3>4. mid2[t][EscrowContract] =
                mid1[t][EscrowContract] - (IF t = token THEN gross - fee ELSE 0)
            BY <1>2, <1>4, <1>5, <3>1, <3>2, <3>3 DEF PaidFrom
        <3>5. business # EscrowContract
            BY <3>1
        <3>6. balances'[t][EscrowContract] =
                mid2[t][EscrowContract] - (IF t = token THEN amount - gross ELSE 0)
            BY <1>2, <1>4, <1>5, <3>1, <3>2, <3>3, <3>4, <3>5 DEF PaidFrom
        <3> QED BY <1>2, <1>5, <3>1, <3>3, <3>4, <3>6
    <2> QED BY <2>1, <2>2 DEF SettleStep
<1> HIDE DEF amount
<1>7. /\ campaigns'[c] \in Campaign
      /\ campaigns'[c].escrow_balance = campaigns[c].escrow_balance - amount
      /\ campaigns'[c].token = token
    <2>1. campaigns'[c] = Settled(campaigns[c], amount)
        BY <1>2, <1>3
    <2> QED BY <1>2, <2>1, SettledBooks
<1>8. Books(c)
    BY <1>2, <1>3, <1>7 DEF Books
<1> QED BY <1>2, <1>5, <1>6, <1>7, <1>8 DEF BookedTo

\* The budget comes in whole.
LEMMA DepositIsBooked ==
    ASSUME MoneyInv, NEW c \in CampaignIds, NEW b \in Businesses, FundCampaign(b, c)
    PROVE  BookedTo(c)
<1> DEFINE budget == campaigns[c].total_budget
           token == campaigns[c].token
<1>1. /\ campaigns \in [CampaignIds -> Campaign] /\ campaigns[c] \in Campaign
      /\ budget \in Nat /\ campaigns[c].status = "Draft" /\ campaigns[c].escrow_balance = 0
    BY CampaignFacts DEF MoneyInv, TermsInv, LifeInv, EscrowInv, TypeOK, Campaign, FundCampaign
<1>2. token \in Tokens
    BY <1>1 DEF MoneyInv, PartiesOf
<1>3. balances \in Ledgers /\ EscrowContract \in Accounts /\ b # EscrowContract
    BY BalancesAreNaturals DEF MoneyInv, TermsInv, LifeInv, Accounts
<1>4. balances' = Transfer(balances, token, b, EscrowContract, budget)
    BY DEF FundCampaign
<1>5. campaigns'[c] = [campaigns[c] EXCEPT !.escrow_balance = budget, !.status = "Funded"]
    BY <1>1 DEF FundCampaign
<1> HIDE DEF budget
<1>6. /\ campaigns'[c] \in Campaign /\ campaigns'[c].token = token
      /\ campaigns'[c].escrow_balance = budget
    BY <1>1, <1>5 DEF Campaign, CampaignStatus
<1>7. Books(c)
    BY <1>1, <1>6 DEF Books, FundCampaign
<1> HIDE DEF token
<1>8. \A t \in Tokens :
        balances'[t][EscrowContract] =
            balances[t][EscrowContract] + (IF t = token THEN budget ELSE 0)
    BY <1>1, <1>2, <1>3, <1>4 DEF Transfer, Ledgers
<1> QED BY <1>1, <1>6, <1>7, <1>8 DEF BookedTo, token

\* A sweep takes out what it writes off.
LEMMA SweepIsBooked ==
    ASSUME MoneyInv, NEW c \in CampaignIds, NEW to, NEW status \in CampaignStatus,
           Sweep(c, to, status), to # EscrowContract,
           campaigns[c].status # "None" \/ campaigns[c].business \in Businesses
    PROVE  BookedTo(c)
<1> DEFINE free == campaigns[c].escrow_balance - campaigns[c].committed_payouts
<1>1. /\ campaigns \in [CampaignIds -> Campaign] /\ campaigns[c] \in Campaign
      /\ campaigns[c].escrow_balance \in Nat /\ campaigns[c].committed_payouts \in Nat
    BY CampaignFacts DEF MoneyInv, TermsInv, LifeInv, EscrowInv, TypeOK
<1>2. free \in Nat /\ PaidFrom(balances, balances', campaigns[c].token, to, free)
    BY SweepPays
<1>3. /\ campaigns'[c] = [campaigns[c] EXCEPT !.escrow_balance = campaigns[c].committed_payouts,
                                              !.status = status]
      /\ \A d \in CampaignIds \ {c} : campaigns'[d] = campaigns[d]
      /\ campaigns' = [campaigns EXCEPT ![c] = campaigns'[c]]
    BY <1>1 DEF Sweep
<1>4. /\ campaigns'[c] \in Campaign /\ campaigns'[c].token = campaigns[c].token
      /\ campaigns'[c].escrow_balance = campaigns[c].committed_payouts
    BY <1>1, <1>3 DEF Campaign
<1>5. Books(c)
    BY <1>1, <1>3, <1>4 DEF Books
<1>6. EscrowContract \in Accounts /\ \A t \in Tokens : balances[t][EscrowContract] \in Nat
    BY BalancesAreNaturals DEF MoneyInv, TermsInv, LifeInv, Accounts
<1>7. \A t \in Tokens :
        balances'[t][EscrowContract] =
            balances[t][EscrowContract] - (IF t = campaigns[c].token THEN free ELSE 0)
    BY <1>2, <1>6 DEF PaidFrom
<1> QED BY <1>1, <1>4, <1>5, <1>6, <1>7 DEF BookedTo

LEMMA CampaignStepIsBooked ==
    ASSUME MoneyInv, instance.treasury # EscrowContract, NEW c \in CampaignIds,
           CampaignStep(c), NEW t \in Tokens
    PROVE  Booked(t)
<1>1. EscrowInv /\ campaigns \in [CampaignIds -> Campaign] /\ campaigns[c] \in Campaign
    BY CampaignFacts DEF MoneyInv, TermsInv, LifeInv, EscrowInv, TypeOK
<1>2. "Cancelled" \in CampaignStatus /\ "Completed" \in CampaignStatus
    BY DEF CampaignStatus
<1>3. ASSUME NEW b \in Businesses, FundCampaign(b, c) PROVE Booked(t)
    BY <1>1, <1>3, DepositIsBooked, BookedToIsBooked
<1>4. ASSUME NEW b \in Businesses, NEW brief \in Briefs, UpdateCampaignMetadata(c, b, brief)
      PROVE  Booked(t)
    <2>1. /\ campaigns'[c] = [campaigns[c] EXCEPT !.metadata_uri = brief]
          /\ \A d \in CampaignIds \ {c} : campaigns'[d] = campaigns[d]
          /\ campaigns' = [campaigns EXCEPT ![c] = campaigns'[c]] /\ balances' = balances
        BY <1>1, <1>4 DEF UpdateCampaignMetadata
    <2>2. /\ campaigns'[c] \in Campaign /\ campaigns'[c].token = campaigns[c].token
          /\ campaigns'[c].escrow_balance = campaigns[c].escrow_balance
        BY <1>1, <2>1 DEF Campaign
    <2>3. campaigns' \in [CampaignIds -> Campaign]
        BY <1>1, <2>1, <2>2
    <2> QED BY <1>1, <2>1, <2>2, <2>3, NothingMoved
<1>5. ASSUME NEW b \in Businesses,
             CancelCampaign(b, c) \/ ExpireCampaign(b, c) \/ ReclaimSurplus(b, c)
      PROVE  Booked(t)
    <2>1. campaigns[c].business = b /\ b # EscrowContract
        BY <1>5 DEF CancelCampaign, ExpireCampaign, MayExpire, ReclaimSurplus, OwnedBy
    <2>2. PICK status \in CampaignStatus : Sweep(c, b, status)
        BY <1>1, <1>2, <1>5 DEF CancelCampaign, ExpireCampaign, ReclaimSurplus, Campaign
    <2> QED BY <1>1, <2>1, <2>2, SweepIsBooked, BookedToIsBooked
<1>6. ASSUME NEW a \in Admins, EmergencyRecoverCampaign(a, c) PROVE Booked(t)
    <2>1. Sweep(c, instance.treasury, "Cancelled") /\ campaigns[c].status # "None"
        BY <1>6 DEF EmergencyRecoverCampaign, NotClosed
    <2> QED BY <1>1, <1>2, <2>1, SweepIsBooked, BookedToIsBooked
<1> QED BY <1>3, <1>4, <1>5, <1>6 DEF CampaignStep

\* Every unit that enters or leaves the contract enters or leaves one campaign's
\* escrow: nothing is paid, refunded or swept off the books, and no rounding of
\* a split or a fee is left behind.
THEOREM MoneyIsBooked == Spec => EveryMovementBooked
<1>1. ASSUME MoneyInv, [Next]_vars, instance.treasury # EscrowContract, NEW t \in Tokens
      PROVE  Booked(t)
    <2>1. EscrowInv /\ campaigns \in [CampaignIds -> Campaign]
        BY <1>1 DEF MoneyInv, TermsInv, LifeInv, EscrowInv, TypeOK
    <2>2. CASE balances' = balances /\ campaigns' = campaigns
        BY <2>1, <2>2, NothingMoved
    <2>3. CASE Governance \/ Tick \/ TokenStep \/ UNCHANGED vars
        BY <2>2, <2>3 DEF Governance, Initialize, Pause, Unpause, SetPaused, ProposeAdmin,
            AcceptAdmin, UpdateFeeBps, UpdateTreasury, Tick, TokenStep, Bar, Admit, vars
    <2>4. CASE NewCampaign
        <3> DEFINE c == instance.next_campaign_id
        <3>1. balances' = balances /\ c \in CampaignIds /\ campaigns[c].escrow_balance = 0
            BY <2>1, <2>4 DEF NewCampaign, CreateCampaign, EscrowInv, IdleHoldsNothing, TypeOK,
                Instance, CampaignIds, NoCampaign
        <3>2. /\ campaigns'[c].escrow_balance = 0
              /\ \A d \in CampaignIds \ {c} : campaigns'[d] = campaigns[d]
            BY <2>1, <2>4, <3>1 DEF NewCampaign, CreateCampaign
        <3>3. campaigns' \in [CampaignIds -> Campaign]
            BY <1>1, StepsPreserve DEF MoneyInv, TermsInv, LifeInv, EscrowInv, TypeOK
        <3> HIDE DEF c
        <3> QED BY <2>1, <3>1, <3>2, <3>3, NothingMoved
    <2>5. ASSUME NEW c \in CampaignIds, NEW r \in Creators,
                 PayoutStep(c, r) \/ FreezeStep(c, r) \/ SettleStep(c, r)
          PROVE  Booked(t)
        <3>1. CASE ClaimPayment(r, c) \/ SettleStep(c, r)
            BY <1>1, <2>1, <3>1, SettlementIsBooked, BookedToIsBooked
        <3>2. ASSUME NEW b \in Businesses, NEW amount \in Payouts, ApproveCreator(b, c, r, amount)
              PROVE  Booked(t)
            <4>1. /\ balances' = balances
                  /\ \A d \in CampaignIds \ {c} : campaigns'[d] = campaigns[d]
                  /\ campaigns'[c] = [campaigns[c] EXCEPT !.approved_count = @ + 1,
                        !.committed_payouts = campaigns[c].committed_payouts + amount,
                        !.status = "Active"]
                BY <2>1, <3>2 DEF ApproveCreator
            <4>2. /\ campaigns'[c].token = campaigns[c].token
                  /\ campaigns'[c].escrow_balance = campaigns[c].escrow_balance
                BY <2>1, <4>1 DEF Campaign
            <4>3. campaigns' \in [CampaignIds -> Campaign]
                BY <1>1, StepsPreserve DEF MoneyInv, TermsInv, LifeInv, EscrowInv, TypeOK
            <4> QED BY <2>1, <4>1, <4>2, <4>3, NothingMoved
        <3>3. CASE ~(ClaimPayment(r, c) \/ SettleStep(c, r)) /\
                   ~\E b \in Businesses, amount \in Payouts : ApproveCreator(b, c, r, amount)
            BY <2>2, <2>5, <3>3 DEF PayoutStep, ApplyToCampaign, SubmitProof, ApproveSubmission,
                RejectSubmission, FreezeStep, FreezeForDispute
        <3> QED BY <3>1, <3>2, <3>3
    <2> QED BY <1>1, <2>3, <2>4, <2>5, CampaignStepIsBooked DEF Next
<1>2. MoneyInv /\ [Next]_vars =>
        [\A t \in Tokens :
            instance.treasury # EscrowContract =>
                balances'[t][EscrowContract] - balances[t][EscrowContract]
                  = SumFunction(HeldIn(t))' - SumFunction(HeldIn(t))]_vars
    BY <1>1 DEF Booked
<1> QED BY <1>2, MoneyInvariant, PTL DEF Spec, EveryMovementBooked

--------------------------------------------------------------------------------
(* What can be called.  That a guard holds is a fact about the state alone:  *)
(* the money a call pays out is there, because the reserve covers the payout *)
(* and the contract's balance covers the campaign; and the invariant rules   *)
(* out what the guard would refuse.                                          *)

\* The contract's balance of a campaign's token covers the campaign's escrow.
LEMMA EscrowIsThere ==
    ASSUME EscrowInv, NEW c \in CampaignIds, campaigns[c].token \in Tokens
    PROVE  balances[campaigns[c].token][EscrowContract] >= campaigns[c].escrow_balance
<1> DEFINE t == campaigns[c].token
<1>1. HeldIn(t) \in [CampaignIds -> Nat]
    BY DEF HeldIn, Campaign, EscrowInv, TypeOK
<1>2. HeldIn(t)[c] = campaigns[c].escrow_balance
    BY DEF HeldIn
<1>3. HeldIn(t)[c] <= SumFunction(HeldIn(t)) /\ SumFunction(HeldIn(t)) \in Nat
    BY <1>1, CampaignIdsFinite, SumBound
<1>4. balances[t][EscrowContract] >= SumFunction(HeldIn(t)) /\ balances[t][EscrowContract] \in Nat
    BY BalancesAreNaturals DEF EscrowInv, Solvency
<1>5. HeldIn(t)[c] \in Nat
    BY <1>1
<1> HIDE DEF HeldIn
<1> QED BY <1>2, <1>3, <1>4, <1>5

\* The fee and the net go through when the balance covers the gross and the token
\* reaches whoever is paid something, and the rest of the balance stays.
LEMMA CreatorCanBePaid ==
    ASSUME balances \in Ledgers, NEW camp, camp.token \in Tokens, camp.fee_bps \in BasisPoints,
           NEW creator, NEW gross \in Nat,
           balances[camp.token][EscrowContract] >= gross,
           FitsI128(gross * camp.fee_bps),
           Share(gross, camp.fee_bps) > 0 => Receives(camp.token, instance.treasury),
           gross > 0 => Receives(camp.token, creator)
    PROVE  /\ CanPayCreator(camp, creator, gross)
           /\ PayCreatorNet(camp, creator, gross) \in Ledgers
           /\ PayCreatorNet(camp, creator, gross)[camp.token][EscrowContract]
                >= balances[camp.token][EscrowContract] - gross
<1> DEFINE token == camp.token
           fee == FeeOn(camp, gross)
           mid == AfterFee(camp, gross)
           after == PayCreatorNet(camp, creator, gross)
<1>1. fee = Share(gross, camp.fee_bps) /\ fee \in 0 .. gross
    BY ShareIsPart DEF FeeOn, AgreedFee
<1>2. mid = Pay(balances, token, instance.treasury, fee) /\ after = Pay(mid, token, creator, gross - fee)
    BY DEF AfterFee, PayCreatorNet
<1>3. EscrowContract \in Accounts /\ balances[token][EscrowContract] \in Nat
    BY DEF Accounts, Ledgers
<1>4. CanPay(balances, token, instance.treasury, fee)
    BY <1>1, <1>3 DEF CanPay, Covers
<1> HIDE DEF fee, mid, after, token
<1>5. /\ mid \in Ledgers /\ mid[token][EscrowContract] \in Nat
      /\ mid[token][EscrowContract] >= balances[token][EscrowContract] - fee
    <2>1. mid \in Ledgers /\ token \in Tokens
          /\ \A t \in Tokens : mid[t][EscrowContract] >= balances[t][EscrowContract] -
                                    (IF t = token THEN fee ELSE 0)
        BY <1>1, <1>2, <1>4, PayKeepsLedger DEF token
    <2> QED BY <1>3, <2>1 DEF Ledgers
<1>6. gross - fee \in Nat /\ mid[token][EscrowContract] >= gross - fee
    BY <1>1, <1>3, <1>5 DEF token
<1>7. CanPay(mid, token, creator, gross - fee)
    BY <1>1, <1>6 DEF CanPay, Covers, token
<1>8. /\ after \in Ledgers
      /\ after[token][EscrowContract] >= mid[token][EscrowContract] - (gross - fee)
    BY <1>2, <1>5, <1>6, <1>7, PayKeepsLedger DEF token
<1>9. after[token][EscrowContract] \in Nat
    BY <1>3, <1>8 DEF Ledgers, token
<1>10. after[token][EscrowContract] >= balances[token][EscrowContract] - gross
    BY <1>1, <1>3, <1>5, <1>8, <1>9
<1> QED BY <1>4, <1>7, <1>8, <1>10 DEF CanPayCreator, AgreedFee, fee, mid, after, token

\* The figures behind an unpaid payout: its campaign reserves it, in a token the
\* contract holds the escrow of.
LEMMA PayoutIsCovered ==
    ASSUME MoneyInv, NEW c \in CampaignIds, NEW r \in Creators,
           applications[<<c, r>>].status \notin {"None", "Paid"}
    PROVE  /\ balances \in Ledgers
           /\ campaigns[c].token \in Tokens /\ campaigns[c].business \in Businesses
           /\ campaigns[c].fee_bps \in BasisPoints
           /\ applications[<<c, r>>].payout_amount \in Nat
           /\ applications[<<c, r>>].payout_amount <= campaigns[c].escrow_balance
           /\ balances[campaigns[c].token][EscrowContract] \in Nat
           /\ balances[campaigns[c].token][EscrowContract] >= applications[<<c, r>>].payout_amount
<1>1. EscrowInv
    BY DEF MoneyInv, TermsInv, LifeInv
<1>2. campaigns[c].token \in Tokens /\ campaigns[c].business \in Businesses
    BY PartiesFacts
<1>3. /\ balances \in Ledgers /\ balances[campaigns[c].token][EscrowContract] \in Nat
      /\ campaigns[c].fee_bps \in BasisPoints
    BY <1>1, <1>2, BalancesAreNaturals, CampaignFacts DEF Campaign
<1>4. /\ applications[<<c, r>>].payout_amount \in Nat
      /\ applications[<<c, r>>].payout_amount <= campaigns[c].committed_payouts
      /\ campaigns[c].committed_payouts \in Nat /\ campaigns[c].escrow_balance \in Nat
      /\ campaigns[c].committed_payouts <= campaigns[c].escrow_balance
    BY <1>1, UnpaidIsReserved, CampaignFacts
<1>5. balances[campaigns[c].token][EscrowContract] >= campaigns[c].escrow_balance
    BY <1>1, <1>2, EscrowIsThere
<1> QED BY <1>2, <1>3, <1>4, <1>5

\* The guard of claim_payment holds of every payout that is due: nothing done
\* before, by anybody and to any campaign, can have taken its money away.
THEOREM DueIsClaimable == Spec => []DueCanBeClaimed
<1>1. ASSUME MoneyInv, NEW c \in CampaignIds, NEW r \in Creators,
             ~instance.paused,
             applications[<<c, r>>].status = "ProofSubmitted", ~applications[<<c, r>>].frozen,
             applications[<<c, r>>].proof_approved \/ now > campaigns[c].completion_deadline,
             FeeCanBePaid(campaigns[c], applications[<<c, r>>]), Receives(campaigns[c].token, r)
      PROVE  MayClaim(r, c)
    <2> DEFINE camp == campaigns[c]
               amount == applications[<<c, r>>].payout_amount
    <2>1. /\ balances \in Ledgers /\ camp.token \in Tokens /\ camp.fee_bps \in BasisPoints
          /\ amount \in Nat /\ balances[camp.token][EscrowContract] >= amount
        BY <1>1, PayoutIsCovered
    <2>2. /\ FitsI128(amount * camp.fee_bps)
          /\ Share(amount, camp.fee_bps) > 0 => Receives(camp.token, instance.treasury)
        BY <1>1 DEF FeeCanBePaid
    <2> HIDE DEF camp, amount
    <2>3. CanPayCreator(camp, r, amount)
        BY <1>1, <2>1, <2>2, CreatorCanBePaid DEF camp
    <2> QED BY <1>1, <2>3 DEF MayClaim, RequireNotPaused, RequireNotFrozen, ContentDeadlinePassed,
                camp, amount
<1>2. MoneyInv => DueCanBeClaimed
    BY <1>1 DEF DueCanBeClaimed
<1> QED BY <1>2, MoneyInvariant, PTL

\* Once a campaign was created there is an admin in office, and a treasury:
\* initialize comes first, and either is only ever handed over.
InOffice ==
    /\ Initialized => instance.admin \in Admins /\ instance.treasury \in Admins \cup Treasuries
    /\ instance.next_campaign_id > 0 => Initialized

LEMMA OfficeKept == EscrowInv /\ InOffice /\ [Next]_vars => InOffice'
<1> SUFFICES ASSUME EscrowInv, InOffice, [Next]_vars PROVE InOffice'
    OBVIOUS
<1>1. instance \in Instance
    BY DEF EscrowInv, TypeOK
<1>2. CASE Governance
    <2>1. \A a \in Admins : a # Null
        BY DEF Accounts
    <2>2. ~Initialized => instance.pending_admin = Null
        BY DEF EscrowInv, SetUpTogether
    <2> QED BY <1>1, <1>2, <2>1, <2>2 DEF Governance, Initialize, Pause, Unpause, SetPaused,
            ProposeAdmin, AcceptAdmin, UpdateFeeBps, UpdateTreasury, RequireAdmin, Instance,
            InOffice, Initialized
<1>3. CASE NewCampaign
    BY <1>1, <1>3 DEF NewCampaign, CreateCampaign, Initialized, Instance, InOffice
<1>4. CASE instance' = instance
    BY <1>4 DEF InOffice, Initialized
<1>5. ASSUME NEW c \in CampaignIds, CampaignStep(c) PROVE instance' = instance
    BY <1>5 DEF CampaignStep, FundCampaign, UpdateCampaignMetadata, CancelCampaign, ExpireCampaign,
        ReclaimSurplus, EmergencyRecoverCampaign, Sweep
<1>6. ASSUME NEW c \in CampaignIds, NEW r \in Creators,
             PayoutStep(c, r) \/ FreezeStep(c, r) \/ SettleStep(c, r)
      PROVE  instance' = instance
    BY <1>6 DEF PayoutStep, ApplyToCampaign, SubmitProof, ClaimPayment, ApproveCreator,
        ApproveSubmission, RejectSubmission, FreezeStep, FreezeForDispute, SettleStep, ResolveDispute
<1>7. CASE Tick \/ TokenStep \/ UNCHANGED vars
    BY <1>4, <1>7 DEF Tick, TokenStep, Bar, Admit, vars
<1> QED BY <1>2, <1>3, <1>4, <1>5, <1>6, <1>7 DEF Next

\* The money's invariant, with the admin who settles disputes.
OpenInv == MoneyInv /\ InOffice

LEMMA OpenInvariant == Spec => []OpenInv
<1>1. Init => InOffice
    BY DEF Init, InOffice, Initialized
<1>2. MoneyInv => EscrowInv
    BY DEF MoneyInv, TermsInv, LifeInv
<1>3. MoneyInv /\ InOffice /\ [Next]_vars => InOffice'
    BY <1>2, OfficeKept
<1> QED BY <1>1, <1>3, MoneyInvariant, PTL DEF Spec, OpenInv

LEMMA AdminOfCampaign ==
    ASSUME OpenInv, NEW c \in CampaignIds, campaigns[c].status # "None"
    PROVE  /\ instance.admin \in Admins /\ Initialized
           /\ instance.treasury \in Admins \cup Treasuries
<1>1. EscrowInv /\ instance \in Instance
    BY DEF OpenInv, MoneyInv, TermsInv, LifeInv, EscrowInv, TypeOK
<1>2. c < instance.next_campaign_id
    BY <1>1, InUse
<1>3. instance.next_campaign_id > 0
    BY <1>1, <1>2 DEF Instance, CampaignIds
<1> QED BY <1>3 DEF OpenInv, InOffice

LEMMA NothingOfNothing ==
    ASSUME NEW bps \in BasisPoints
    PROVE  FitsI128(0 * bps) /\ Share(0, bps) = 0
<1>1. 0 * bps = 0
    BY DEF BasisPoints, BASIS_POINTS_DENOMINATOR
<1>2. Share(0, bps) \in 0 .. 0
    BY ShareIsPart
<1> QED BY <1>1, <1>2 DEF FitsI128

\* The settlements an admin can make once the window has run out.
LEMMA SettlementIsOpen ==
    ASSUME OpenInv, NEW c \in CampaignIds, NEW r \in Creators,
           ~instance.paused, EvidenceWindowClosed(applications[<<c, r>>])
    PROVE  /\ instance.admin \in Admins
           /\ Receives(campaigns[c].token, campaigns[c].business) =>
                MayResolve(instance.admin, c, r, RefundBusiness)
           /\ (/\ FeeCanBePaid(campaigns[c], applications[<<c, r>>])
               /\ Receives(campaigns[c].token, r)) =>
                MayResolve(instance.admin, c, r, PayCreator)
<1> DEFINE camp == campaigns[c]
           app == applications[<<c, r>>]
           amount == app.payout_amount
           Common == /\ RequireNotPaused /\ RequireAdmin(instance.admin)
                     /\ camp.status # "Completed" /\ Settleable(app) /\ EvidenceWindowClosed(app)
<1>1. MoneyInv /\ LifeInv /\ EscrowInv /\ <<c, r>> \in ApplicationKeys
    BY DEF OpenInv, MoneyInv, TermsInv, LifeInv, ApplicationKeys
<1>2. app.dispute_opened_at # Null /\ camp.status # "Completed" /\ Settleable(app)
    BY <1>1 DEF EvidenceWindowClosed, LifeInv, FrozenIsSettleable
<1>3. app.status \notin {"None", "Paid"} /\ amount > 0
    BY <1>1, <1>2 DEF Settleable, EscrowInv, PendingOwesNothing
<1>4. /\ balances \in Ledgers /\ camp.token \in Tokens /\ camp.fee_bps \in BasisPoints
      /\ amount \in Nat /\ balances[camp.token][EscrowContract] \in Nat
      /\ balances[camp.token][EscrowContract] >= amount
    BY <1>1, <1>3, PayoutIsCovered
<1>5. instance.admin \in Admins
    <2>1. camp.status # "None"
        BY <1>1, <1>3 DEF MoneyInv, TermsInv, ApplicantsOf, StatusOf
    <2> QED BY <2>1, AdminOfCampaign
<1>6. Common
    BY <1>2 DEF RequireNotPaused, RequireAdmin
<1>7. ASSUME Receives(camp.token, camp.business)
      PROVE  MayResolve(instance.admin, c, r, RefundBusiness)
    <2> DEFINE ledger == PayCreatorNet(camp, r, 0)
    <2>1. /\ RefundBusiness.kind = "RefundBusiness" /\ RefundBusiness.bps = 0
          /\ RefundBusiness.bps \in BasisPoints
        BY DEF RefundBusiness, BasisPoints, BASIS_POINTS_DENOMINATOR
    <2>2. CreatorGross(amount, RefundBusiness) = 0 /\ BusinessAmount(amount, RefundBusiness) = amount
        BY <1>4, <2>1 DEF CreatorGross, BusinessAmount
    <2> HIDE DEF camp
    <2>3. FitsI128(0 * camp.fee_bps) /\ Share(0, camp.fee_bps) = 0
        BY <1>4, NothingOfNothing
    <2> HIDE DEF amount
    <2>4. /\ CanPayCreator(camp, r, 0) /\ ledger \in Ledgers
          /\ ledger[camp.token][EscrowContract] >= balances[camp.token][EscrowContract] - 0
        BY <1>4, <2>3, CreatorCanBePaid
    <2>5. ledger[camp.token][EscrowContract] \in Nat
        BY <1>4, <2>4 DEF Ledgers, Accounts
    <2>6. CanPay(ledger, camp.token, camp.business, amount)
        BY <1>4, <1>7, <2>4, <2>5 DEF CanPay, Covers
    <2> HIDE DEF ledger
    <2> QED BY <1>6, <2>1, <2>2, <2>4, <2>6 DEF MayResolve, camp, amount, ledger
<1>8. ASSUME FeeCanBePaid(camp, app), Receives(camp.token, r)
      PROVE  MayResolve(instance.admin, c, r, PayCreator)
    <2>1. /\ PayCreator.kind = "PayCreator" /\ PayCreator.bps \in BasisPoints
        BY DEF PayCreator, BasisPoints, BASIS_POINTS_DENOMINATOR
    <2>2. CreatorGross(amount, PayCreator) = amount /\ BusinessAmount(amount, PayCreator) = 0
        BY <1>4, <2>1 DEF CreatorGross, BusinessAmount
    <2>3. /\ FitsI128(amount * camp.fee_bps)
          /\ Share(amount, camp.fee_bps) > 0 => Receives(camp.token, instance.treasury)
        BY <1>8 DEF FeeCanBePaid
    <2> HIDE DEF camp, amount
    <2>4. CanPayCreator(camp, r, amount)
        BY <1>4, <1>8, <2>3, CreatorCanBePaid
    <2>5. CanPay(PayCreatorNet(camp, r, amount), camp.token, camp.business, 0)
        BY DEF CanPay
    <2> QED BY <1>6, <2>1, <2>2, <2>4, <2>5 DEF MayResolve, camp, amount
<1> QED BY <1>5, <1>7, <1>8

\* A frozen payout whose window has run out is never stuck: the admin can refund
\* the business, whatever the creator's account does, and pay the creator, whatever
\* the business's does.
THEOREM FrozenIsOpen == Spec => []FrozenCanBeSettled
<1>1. ASSUME OpenInv, NEW c \in CampaignIds, NEW r \in Creators,
             ~instance.paused, EvidenceWindowClosed(applications[<<c, r>>])
      PROVE  \E a \in Admins :
                /\ Receives(campaigns[c].token, campaigns[c].business) =>
                    MayResolve(a, c, r, RefundBusiness)
                /\ (/\ FeeCanBePaid(campaigns[c], applications[<<c, r>>])
                    /\ Receives(campaigns[c].token, r)) => MayResolve(a, c, r, PayCreator)
    BY <1>1, SettlementIsOpen
<1>2. OpenInv => FrozenCanBeSettled
    BY <1>1 DEF FrozenCanBeSettled
<1> QED BY <1>2, OpenInvariant, PTL

\* A reserve is somebody's: what a campaign owes in all, it owes to some creator.
LEMMA ReserveIsOwed ==
    ASSUME EscrowInv, NEW c \in CampaignIds, campaigns[c].committed_payouts > 0
    PROVE  \E r \in Creators : Settleable(applications[<<c, r>>])
<1>1. SUFFICES ASSUME \A r \in Creators : ~Settleable(applications[<<c, r>>]) PROVE FALSE
    OBVIOUS
<1>2. Owed(c) = [r \in Creators |-> 0]
    BY <1>1 DEF Owed
<1>3. SumFunction(Owed(c)) = 0
    BY <1>2, SumZero
<1> QED BY <1>3 DEF EscrowInv, ReserveExact

\* From every state the contract can be in, the last unit of a campaign past its
\* deadline has a call that moves it on.
THEOREM AlwaysAWayOut == Spec => []NothingIsStranded
<1>1. ASSUME OpenInv, NEW c \in CampaignIds, campaigns[c].escrow_balance > 0,
             ~instance.paused, now > campaigns[c].completion_deadline,
             Receives(campaigns[c].token, campaigns[c].business)
      PROVE  \/ MayExpire(campaigns[c].business, c)
             \/ \E r \in Creators : AdminCanMoveOn(c, r)
    <2> DEFINE camp == campaigns[c]
    <2>1. MoneyInv /\ EscrowInv /\ StatusOf(c)
        BY <1>1 DEF OpenInv, MoneyInv, TermsInv, LifeInv
    <2>2. /\ camp.escrow_balance \in Nat /\ camp.committed_payouts \in Nat
          /\ camp.committed_payouts <= camp.escrow_balance
        BY <2>1, CampaignFacts
    <2>3. camp.status \in {"Funded", "Active", "Cancelled"}
        BY <1>1, <2>1 DEF StatusOf
    <2>4. CASE camp.status # "Cancelled"
        <3>1. camp.token \in Tokens
            BY <2>1, <2>3 DEF MoneyInv, PartiesOf
        <3>2. /\ balances[camp.token][EscrowContract] >= camp.escrow_balance
              /\ balances[camp.token][EscrowContract] \in Nat
            BY <2>1, <3>1, EscrowIsThere, BalancesAreNaturals
        <3>3. CanSweep(camp, camp.business)
            BY <1>1, <2>2, <3>2 DEF CanSweep, CanPay, Covers, Unallocated
        <3> QED BY <1>1, <2>3, <2>4, <3>3 DEF MayExpire, RequireNotPaused, OwnedBy,
                    ContentDeadlinePassed, NotClosed
    <2>5. CASE camp.status = "Cancelled"
        <3>1. camp.committed_payouts > 0
            BY <1>1, <2>1, <2>5 DEF StatusOf
        <3>2. PICK r \in Creators : Settleable(applications[<<c, r>>])
            BY <2>1, <3>1, ReserveIsOwed
        <3>3. instance.admin \in Admins /\ Initialized
            BY <1>1, <2>5, AdminOfCampaign
        <3>4. CASE applications[<<c, r>>].frozen
            <4>1. EvidenceWindowClosed(applications[<<c, r>>]) =>
                    MayResolve(instance.admin, c, r, RefundBusiness)
                BY <1>1, SettlementIsOpen
            <4> QED BY <3>2, <3>3, <3>4, <4>1 DEF AdminCanMoveOn
        <3>5. CASE ~applications[<<c, r>>].frozen
            <4>1. MayFreeze(instance.admin, c, r)
                BY <1>1, <3>2, <3>3, <3>5 DEF MayFreeze, RequireNotPaused, RequireAdmin, RequireNotFrozen
            <4> QED BY <3>2, <3>3, <3>5, <4>1 DEF AdminCanMoveOn
        <3> QED BY <3>4, <3>5
    <2> QED BY <2>4, <2>5
<1>2. OpenInv => NothingIsStranded
    BY <1>1 DEF NothingIsStranded
<1> QED BY <1>2, OpenInvariant, PTL
================================================================================
