------------------------- MODULE CampaignEscrow_proofs -------------------------
(***************************************************************************)
(* Theorems about campaign-escrow, for every value of the constants: the   *)
(* types, the exactness of every campaign's reserve and the solvency of    *)
(* the contract in every token.  None of the three is inductive alone.     *)
(* A claim keeps committed_payouts a natural because the claimed payout is *)
(* one of the summands of the reserve; a refund keeps escrow_balance one   *)
(* because the reserve is covered; funding may overwrite escrow_balance    *)
(* only because a draft holds nothing; a new campaign may overwrite the    *)
(* storage of its id only because nobody has touched it; and a campaign's  *)
(* fee is a fee only because initialize sets it together with the admin.   *)
(***************************************************************************)
EXTENDS CampaignEscrowProps, SumLemmas

USE EscrowAssumption, SharedAssumption

\* initialize sets the fee with the admin, and nobody can be proposed before.
SetUpTogether ==
    IF Initialized THEN instance.fee_bps # Null ELSE instance.pending_admin = Null

\* A campaign not yet funded, or completed, holds nothing, and an id not handed
\* out yet has no campaign and no applications.
IdleHoldsNothing ==
    \A c \in CampaignIds :
        /\ campaigns[c].status \in {"None", "Draft", "Completed"} => campaigns[c].escrow_balance = 0
        /\ c >= instance.next_campaign_id =>
            /\ campaigns[c] = NoCampaign
            /\ \A r \in Creators : applications[<<c, r>>] = NoApplication

\* Nobody is owed anything before a payout is agreed.
PendingOwesNothing ==
    \A key \in ApplicationKeys :
        applications[key].status \in {"None", "Pending"} => applications[key].payout_amount = 0

EscrowInv ==
    /\ TypeOK /\ ReserveExact /\ Solvency
    /\ SetUpTogether /\ IdleHoldsNothing /\ PendingOwesNothing

--------------------------------------------------------------------------------
(* Arithmetic, the ledger and the sums.                                      *)

\* A share in basis points of an amount is part of it: rounding down never
\* makes a fee, or a creator's part of a split, negative or more than the whole.
LEMMA ShareIsPart ==
    ASSUME NEW amount \in Nat, NEW bps \in BasisPoints
    PROVE  Share(amount, bps) \in 0 .. amount
<1> DEFINE product == amount * bps
<1>1. product \in Nat /\ product <= amount * 10000
    BY SMT DEF BasisPoints, BASIS_POINTS_DENOMINATOR
<1>2. product \div 10000 \in 0 .. amount
    <2> HIDE DEF product
    <2> QED BY <1>1
<1> QED BY <1>2 DEF Share, BASIS_POINTS_DENOMINATOR

Ledgers == [Tokens -> [Accounts -> Nat]]

\* A transfer that is covered leaves every balance a natural, and takes no more
\* than its amount from anybody.
LEMMA TransferKeepsLedger ==
    ASSUME NEW ledger \in Ledgers, NEW token, NEW from, NEW to, NEW amount \in Nat,
           Covers(ledger, token, from, amount)
    PROVE  LET after == Transfer(ledger, token, from, to, amount) IN
           /\ after \in Ledgers
           /\ \A t \in Tokens, a \in Accounts :
                /\ after[t][a] >= ledger[t][a] -
                        (IF t = token /\ a = from THEN amount ELSE 0)
                /\ t = token /\ a = to /\ a # from =>
                        after[t][a] = ledger[t][a] + amount
<1>1. CASE token \in Tokens
    BY <1>1 DEF Ledgers, Covers, Transfer
<1>2. CASE token \notin Tokens
    <2>1. Transfer(ledger, token, from, to, amount) = ledger
        BY <1>2 DEF Ledgers, Transfer
    <2> QED BY <1>2, <2>1 DEF Ledgers
<1> QED BY <1>1, <1>2

\* The same of a payment out of the contract's own balance.
LEMMA PayKeepsLedger ==
    ASSUME NEW ledger \in Ledgers, NEW token, NEW to, NEW amount \in Nat,
           CanPay(ledger, token, to, amount)
    PROVE  LET after == Pay(ledger, token, to, amount) IN
           /\ after \in Ledgers
           /\ \A t \in Tokens :
                after[t][EscrowContract] >= ledger[t][EscrowContract] -
                        (IF t = token THEN amount ELSE 0)
<1>1. EscrowContract \in Accounts
    BY DEF Accounts
<1>2. CASE amount > 0
    BY <1>1, <1>2, TransferKeepsLedger DEF Pay, CanPay
<1>3. CASE amount = 0
    BY <1>1, <1>3 DEF Pay, Ledgers
<1> QED BY <1>2, <1>3

\* An application step of creator r on campaign c.
Touches(c, r) ==
    /\ applications' \in [ApplicationKeys -> Application]
    /\ \A key \in ApplicationKeys \ {<<c, r>>} : applications'[key] = applications[key]

LEMMA OwedIsFunction ==
    ASSUME applications \in [ApplicationKeys -> Application], NEW d \in CampaignIds
    PROVE  Owed(d) \in [Creators -> Nat]
    BY DEF Owed, Application, ApplicationKeys

\* It changes what its own campaign owes, and by what that payout changes.
LEMMA OwedAfter ==
    ASSUME applications \in [ApplicationKeys -> Application],
           NEW c \in CampaignIds, NEW r \in Creators, Touches(c, r), NEW d \in CampaignIds
    PROVE  SumFunction(Owed(d)') = SumFunction(Owed(d))
                + (IF d = c THEN Owed(c)'[r] - Owed(c)[r] ELSE 0)
<1>1. Owed(d) \in [Creators -> Nat]
    BY OwedIsFunction
<1>2. Owed(d)' \in [Creators -> Nat]
    BY DEF Touches, Owed, Application, ApplicationKeys
<1>3. CASE d = c
    <2>1. \A s \in Creators \ {r} : Owed(d)'[s] = Owed(d)[s]
        BY <1>3 DEF Touches, Owed, ApplicationKeys, Settleable
    <2>2. SumFunction(Owed(d)') = SumFunction(Owed(d)) - Owed(d)[r] + Owed(d)'[r]
        BY <1>1, <1>2, <2>1, SumUpdate
    <2>3. SumFunction(Owed(d)) \in Nat
        BY <1>1, SumBound
    <2>4. Owed(d)[r] \in Nat /\ Owed(d)'[r] \in Nat
        BY <1>1, <1>2
    <2> QED BY <1>3, <2>2, <2>3, <2>4
<1>4. CASE d # c
    <2>1. Owed(d)' = Owed(d)
        BY <1>4 DEF Touches, Owed, ApplicationKeys, Settleable
    <2>2. SumFunction(Owed(d)) \in Nat
        BY <1>1, SumBound
    <2> QED BY <1>4, <2>1, <2>2
<1> QED BY <1>3, <1>4

\* A step of the books of campaign c alone, in the token it had.
Books(c) ==
    /\ campaigns' \in [CampaignIds -> Campaign]
    /\ campaigns'[c].token = campaigns[c].token
    /\ \A d \in CampaignIds \ {c} : campaigns'[d] = campaigns[d]

LEMMA CampaignIdsFinite == IsFiniteSet(CampaignIds)
<1>1. 0 \in Int /\ MAX_CAMPAIGNS - 1 \in Int
    OBVIOUS
<1> QED BY <1>1, FS_Interval DEF CampaignIds

\* The contract stays solvent when its balance moves with the campaign's escrow.
LEMMA SolvencyAfter ==
    ASSUME campaigns \in [CampaignIds -> Campaign], balances \in Ledgers, balances' \in Ledgers,
           Solvency, NEW c \in CampaignIds, Books(c),
           \A t \in Tokens :
               balances'[t][EscrowContract] >= balances[t][EscrowContract]
                    + (IF t = campaigns[c].token
                       THEN campaigns'[c].escrow_balance - campaigns[c].escrow_balance ELSE 0)
    PROVE  Solvency'
<1>1. IsFiniteSet(CampaignIds)
    BY CampaignIdsFinite
<1>2. ASSUME NEW t \in Tokens
      PROVE  balances'[t][EscrowContract] >= SumFunction(HeldIn(t)')
    <2>1. HeldIn(t) \in [CampaignIds -> Nat] /\ HeldIn(t)' \in [CampaignIds -> Nat]
        BY DEF HeldIn, Books, Campaign
    <2>2. \A d \in CampaignIds \ {c} : HeldIn(t)'[d] = HeldIn(t)[d]
        BY DEF HeldIn, Books
    <2>3. SumFunction(HeldIn(t)') = SumFunction(HeldIn(t)) - HeldIn(t)[c] + HeldIn(t)'[c]
        BY <1>1, <2>1, <2>2, SumUpdate
    <2>4. SumFunction(HeldIn(t)) \in Nat
        BY <1>1, <2>1, SumBound
    <2>5. HeldIn(t)'[c] - HeldIn(t)[c] =
            (IF t = campaigns[c].token
             THEN campaigns'[c].escrow_balance - campaigns[c].escrow_balance ELSE 0)
        BY DEF HeldIn, Books, Campaign
    <2>6. HeldIn(t)[c] \in Nat /\ HeldIn(t)'[c] \in Nat
        BY <2>1
    <2>7. balances[t][EscrowContract] >= SumFunction(HeldIn(t))
        BY DEF Solvency
    <2>8. balances[t][EscrowContract] \in Nat /\ balances'[t][EscrowContract] \in Nat
        BY DEF Ledgers, Accounts
    <2>9. balances'[t][EscrowContract] >= balances[t][EscrowContract]
                + (HeldIn(t)'[c] - HeldIn(t)[c])
        BY <2>5
    <2> HIDE DEF HeldIn
    <2> QED BY <2>3, <2>4, <2>6, <2>7, <2>8, <2>9
<1> QED BY <1>2 DEF Solvency
--------------------------------------------------------------------------------
(* The invariant: initially, and through each kind of step.                  *)

LEMMA InitEstablishes == Init => EscrowInv
<1> SUFFICES ASSUME Init PROVE EscrowInv
    OBVIOUS
<1>1. TypeOK
    <2>1. instance \in Instance
        BY DEF Init, Instance
    <2>2. NoCampaign \in Campaign
        BY DEF NoCampaign, Campaign, BasisPoints, BASIS_POINTS_DENOMINATOR, CampaignStatus
    <2>3. NoApplication \in Application
        BY DEF NoApplication, Application, ApplicationStatus
    <2>4. balances \in [Tokens -> [Accounts -> Nat]]
        BY DEF Init
    <2> QED BY <2>1, <2>2, <2>3, <2>4 DEF Init, TypeOK
<1>2. ReserveExact
    <2> SUFFICES ASSUME NEW c \in CampaignIds
                 PROVE  /\ campaigns[c].committed_payouts = SumFunction(Owed(c))
                        /\ campaigns[c].committed_payouts <= campaigns[c].escrow_balance
        BY DEF ReserveExact
    <2>1. Owed(c) = [r \in Creators |-> 0]
        BY DEF Init, Owed, Settleable, NoApplication, ApplicationKeys
    <2>2. SumFunction(Owed(c)) = 0
        BY <2>1, SumZero
    <2> QED BY <2>2 DEF Init, NoCampaign
<1>3. Solvency
    <2> SUFFICES ASSUME NEW t \in Tokens
                 PROVE  balances[t][EscrowContract] >= SumFunction(HeldIn(t))
        BY DEF Solvency
    <2>1. HeldIn(t) = [c \in CampaignIds |-> 0]
        BY DEF Init, HeldIn, NoCampaign
    <2>2. IsFiniteSet(CampaignIds)
        BY CampaignIdsFinite
    <2>3. SumFunction(HeldIn(t)) = 0
        BY <2>1, <2>2, SumZero
    <2> QED BY <2>3 DEF Init, Accounts
<1>4. SetUpTogether
    BY DEF Init, SetUpTogether, Initialized
<1>5. IdleHoldsNothing
    BY DEF Init, IdleHoldsNothing, NoCampaign, ApplicationKeys
<1>6. PendingOwesNothing
    BY DEF Init, PendingOwesNothing, NoApplication
<1> QED BY <1>1, <1>2, <1>3, <1>4, <1>5, <1>6 DEF EscrowInv

\* Governance and the clock leave every campaign, application and balance alone.
LEMMA AsideKeeps ==
    ASSUME EscrowInv,
           instance' \in Instance, SetUpTogether', now' \in 0 .. MAX_TIME,
           barred' \subseteq Tokens \X Accounts,
           instance'.next_campaign_id = instance.next_campaign_id,
           UNCHANGED <<campaigns, applications, applicants, balances>>
    PROVE  EscrowInv'
<1>1. TypeOK'
    BY DEF EscrowInv, TypeOK
<1>2. ReserveExact'
    BY DEF EscrowInv, ReserveExact, Owed, Settleable
<1>3. Solvency'
    BY DEF EscrowInv, Solvency, HeldIn
<1>4. IdleHoldsNothing'
    BY DEF EscrowInv, IdleHoldsNothing
<1>5. PendingOwesNothing'
    BY DEF EscrowInv, PendingOwesNothing
<1> QED BY <1>1, <1>2, <1>3, <1>4, <1>5 DEF EscrowInv

LEMMA GovernanceKeeps ==
    ASSUME EscrowInv, Governance
    PROVE  EscrowInv'
<1> USE DEF Accounts
<1> DEFINE Kept == /\ UNCHANGED <<campaigns, applications, applicants, balances, now, barred>>
                   /\ instance'.next_campaign_id = instance.next_campaign_id
                   /\ instance' \in Instance /\ SetUpTogether'
<1>1. /\ instance \in Instance /\ SetUpTogether /\ now \in 0 .. MAX_TIME
      /\ barred \subseteq Tokens \X Accounts
    BY DEF EscrowInv, TypeOK
<1>2. PICK admin \in Admins :
        \/ \E d \in DisputeContracts, fee \in InitialFees : Initialize(admin, d, fee)
        \/ Pause(admin)
        \/ Unpause(admin)
        \/ \E new_admin \in Admins : ProposeAdmin(admin, new_admin)
        \/ AcceptAdmin(admin)
        \/ \E fee \in NewFees : UpdateFeeBps(admin, fee)
        \/ \E treasury \in Treasuries : UpdateTreasury(admin, treasury)
    BY DEF Governance
<1>3. ASSUME NEW d \in DisputeContracts, NEW fee \in InitialFees, Initialize(admin, d, fee)
      PROVE  Kept
    BY <1>1, <1>3 DEF Initialize, SetUpTogether, Initialized, Instance
<1>4. ASSUME NEW paused \in BOOLEAN, SetPaused(admin, paused)
      PROVE  Kept
    BY <1>1, <1>4 DEF SetPaused, SetUpTogether, Initialized, Instance
<1>5. ASSUME NEW new_admin \in Admins, ProposeAdmin(admin, new_admin)
      PROVE  Kept
    BY <1>1, <1>5 DEF ProposeAdmin, RequireAdmin, SetUpTogether, Initialized, Instance
<1>6. ASSUME AcceptAdmin(admin)
      PROVE  Kept
    BY <1>1, <1>6 DEF AcceptAdmin, SetUpTogether, Initialized, Instance
<1>7. ASSUME NEW fee \in NewFees, UpdateFeeBps(admin, fee)
      PROVE  Kept
    <2>1. fee \in 0 .. MAX_UPDATED_FEE /\ instance.admin = admin
        BY <1>7 DEF UpdateFeeBps, RequireAdmin
    <2>2. MAX_UPDATED_FEE \in 0 .. 10000
        BY DEF BasisPoints, BASIS_POINTS_DENOMINATOR
    <2>3. fee \in 0 .. 10000
        BY <2>1, <2>2
    <2>4. fee \in BasisPoints /\ fee # Null
        BY <2>3 DEF BasisPoints, BASIS_POINTS_DENOMINATOR
    <2>5. instance' = [instance EXCEPT !.fee_bps = fee]
        BY <1>7 DEF UpdateFeeBps
    <2>6. instance' \in Instance /\ SetUpTogether'
        BY <1>1, <2>1, <2>4, <2>5 DEF SetUpTogether, Initialized, Instance
    <2>7. instance'.next_campaign_id = instance.next_campaign_id
        BY <1>1, <2>5 DEF Instance
    <2> QED BY <1>7, <2>6, <2>7 DEF UpdateFeeBps
<1>8. ASSUME NEW treasury \in Treasuries, UpdateTreasury(admin, treasury)
      PROVE  Kept
    BY <1>1, <1>8 DEF UpdateTreasury, RequireAdmin, SetUpTogether, Initialized, Instance
<1>9. Kept
    BY <1>2, <1>3, <1>4, <1>5, <1>6, <1>7, <1>8 DEF Pause, Unpause
<1> QED BY <1>1, <1>9, AsideKeeps

LEMMA TickKeeps ==
    ASSUME EscrowInv, Tick
    PROVE  EscrowInv'
<1>1. /\ instance' \in Instance /\ SetUpTogether' /\ now' \in 0 .. MAX_TIME
      /\ barred' \subseteq Tokens \X Accounts
    BY DEF EscrowInv, TypeOK, Tick, SetUpTogether, Initialized
<1> QED BY <1>1, AsideKeeps DEF Tick

LEMMA TokenStepKeeps ==
    ASSUME EscrowInv, TokenStep
    PROVE  EscrowInv'
<1>1. PICK t \in Tokens, a \in MayBeBarred : Bar(t, a) \/ Admit(t, a)
    BY DEF TokenStep
<1>2. a \in Accounts
    OBVIOUS
<1>3. /\ UNCHANGED <<instance, campaigns, applications, applicants, balances, now>>
      /\ barred' \subseteq barred \cup {<<t, a>>}
    BY <1>1 DEF Bar, Admit
<1>4. /\ instance' \in Instance /\ SetUpTogether' /\ now' \in 0 .. MAX_TIME
      /\ barred' \subseteq Tokens \X Accounts
    BY <1>2, <1>3 DEF EscrowInv, TypeOK, SetUpTogether, Initialized
<1> QED BY <1>3, <1>4, AsideKeeps
--------------------------------------------------------------------------------
(* Every entry point about one campaign preserves the invariant for the same *)
(* reason: its books and what it owes move together, within its escrow, and  *)
(* the contract's balance moves with the escrow.                             *)

\* Such a step, on a campaign whose id has been handed out.
StepOf(c) ==
    /\ c < instance.next_campaign_id
    /\ Books(c)
    /\ campaigns'[c].committed_payouts <= campaigns'[c].escrow_balance
    /\ campaigns'[c].status \in {"None", "Draft", "Completed"} => campaigns'[c].escrow_balance = 0
    /\ UNCHANGED <<instance, now, barred>>
    /\ applicants' \in [CampaignIds -> Nat]
    /\ balances' \in Ledgers
    /\ \A t \in Tokens :
        balances'[t][EscrowContract] >= balances[t][EscrowContract]
            + (IF t = campaigns[c].token
               THEN campaigns'[c].escrow_balance - campaigns[c].escrow_balance ELSE 0)

\* What the campaigns owe moves with their committed payouts.
OwedMoves(c) ==
    /\ applications' \in [ApplicationKeys -> Application]
    /\ \A d \in CampaignIds \ {c}, s \in Creators :
        applications'[<<d, s>>] = applications[<<d, s>>]
    /\ PendingOwesNothing'
    /\ \A d \in CampaignIds :
        SumFunction(Owed(d)') = SumFunction(Owed(d)) +
            (IF d = c
             THEN campaigns'[c].committed_payouts - campaigns[c].committed_payouts ELSE 0)

LEMMA StepKeeps ==
    ASSUME EscrowInv, NEW c \in CampaignIds, StepOf(c), OwedMoves(c)
    PROVE  EscrowInv'
<1> USE DEF EscrowInv
<1>1. TypeOK'
    BY DEF TypeOK, StepOf, OwedMoves, Books, Ledgers
<1>2. ReserveExact'
    <2> SUFFICES ASSUME NEW d \in CampaignIds
                 PROVE  /\ campaigns'[d].committed_payouts = SumFunction(Owed(d)')
                        /\ campaigns'[d].committed_payouts <= campaigns'[d].escrow_balance
        BY DEF ReserveExact
    <2>1. /\ campaigns[d].committed_payouts = SumFunction(Owed(d))
          /\ campaigns[d].committed_payouts <= campaigns[d].escrow_balance
        BY DEF ReserveExact
    <2>2. SumFunction(Owed(d)') = SumFunction(Owed(d)) +
            (IF d = c
             THEN campaigns'[c].committed_payouts - campaigns[c].committed_payouts ELSE 0)
        BY DEF OwedMoves
    <2>3. campaigns[d].committed_payouts \in Nat /\ campaigns'[d].committed_payouts \in Nat
        BY <1>1 DEF TypeOK, Campaign
    <2>4. CASE d = c
        BY <2>1, <2>2, <2>3, <2>4 DEF StepOf
    <2>5. CASE d # c
        <3>1. campaigns'[d] = campaigns[d]
            BY <2>5 DEF StepOf, Books
        <3> QED BY <2>1, <2>2, <2>3, <2>5, <3>1
    <2> QED BY <2>4, <2>5
<1>3. Solvency'
    BY SolvencyAfter DEF TypeOK, StepOf, Ledgers
<1>4. SetUpTogether'
    BY DEF StepOf, SetUpTogether, Initialized
<1>5. IdleHoldsNothing'
    <2> SUFFICES ASSUME NEW d \in CampaignIds
                 PROVE  /\ campaigns'[d].status \in {"None", "Draft", "Completed"}
                                => campaigns'[d].escrow_balance = 0
                        /\ d >= instance'.next_campaign_id =>
                            /\ campaigns'[d] = NoCampaign
                            /\ \A s \in Creators : applications'[<<d, s>>] = NoApplication
        BY DEF IdleHoldsNothing
    <2>1. CASE d = c
        <3>1. ~ c >= instance.next_campaign_id
            BY DEF StepOf, TypeOK, Instance, CampaignIds
        <3> QED BY <2>1, <3>1 DEF StepOf
    <2>2. CASE d # c
        BY <2>2 DEF StepOf, OwedMoves, Books, IdleHoldsNothing
    <2> QED BY <2>1, <2>2
<1>6. PendingOwesNothing'
    BY DEF OwedMoves
<1> QED BY <1>1, <1>2, <1>3, <1>4, <1>5, <1>6

LEMMA BalancesAreNaturals ==
    ASSUME EscrowInv
    PROVE  balances \in Ledgers /\ \A t \in Tokens : balances[t][EscrowContract] \in Nat
<1>1. EscrowContract \in Accounts
    BY DEF Accounts
<1> QED BY <1>1 DEF EscrowInv, TypeOK, Ledgers

LEMMA CampaignFacts ==
    ASSUME EscrowInv, NEW c \in CampaignIds
    PROVE  /\ campaigns[c] \in Campaign
           /\ campaigns[c].escrow_balance \in Nat
           /\ campaigns[c].committed_payouts \in Nat
           /\ campaigns[c].committed_payouts <= campaigns[c].escrow_balance
           /\ campaigns[c].status \in {"None", "Draft", "Completed"} => campaigns[c].escrow_balance = 0
    BY DEF EscrowInv, TypeOK, ReserveExact, IdleHoldsNothing, Campaign

\* A step that moves no money.
LEMMA QuietStep ==
    ASSUME EscrowInv, NEW c \in CampaignIds, c < instance.next_campaign_id, Books(c),
           campaigns'[c].escrow_balance = campaigns[c].escrow_balance,
           campaigns'[c].committed_payouts <= campaigns'[c].escrow_balance,
           campaigns'[c].status \in {"None", "Draft", "Completed"} => campaigns'[c].escrow_balance = 0,
           UNCHANGED <<instance, balances, now, barred>>, applicants' \in [CampaignIds -> Nat]
    PROVE  StepOf(c)
<1>1. /\ balances' \in Ledgers
      /\ \A t \in Tokens : balances'[t][EscrowContract] = balances[t][EscrowContract]
                          /\ balances[t][EscrowContract] \in Nat
    BY BalancesAreNaturals
<1>2. campaigns[c].escrow_balance \in Nat
    BY CampaignFacts
<1> QED BY <1>1, <1>2 DEF StepOf

LEMMA NoCampaignFields == NoCampaign.status = "None" /\ NoCampaign.business = Null
    BY DEF NoCampaign

\* A campaign somebody did something with has had its id handed out.
LEMMA InUse ==
    ASSUME EscrowInv, NEW c \in CampaignIds,
           \/ campaigns[c].status # "None"
           \/ \E b \in Businesses : campaigns[c].business = b
           \/ \E r \in Creators : \/ applications[<<c, r>>].status # "None"
                                  \/ applications[<<c, r>>].payout_amount # 0
    PROVE  c < instance.next_campaign_id
<1>1. ASSUME c >= instance.next_campaign_id
      PROVE  FALSE
    <2>1. campaigns[c] = NoCampaign /\ \A r \in Creators : applications[<<c, r>>] = NoApplication
        BY <1>1 DEF EscrowInv, IdleHoldsNothing
    <2>2. campaigns[c].status = "None" /\ campaigns[c].business = Null
        BY <2>1, NoCampaignFields
    <2>3. \A r \in Creators : applications[<<c, r>>].status = "None"
                                /\ applications[<<c, r>>].payout_amount = 0
        BY <2>1 DEF NoApplication
    <2>4. Null \notin Businesses
        BY DEF Accounts
    <2> QED BY <2>2, <2>3, <2>4
<1> QED BY <1>1 DEF EscrowInv, TypeOK, Instance, CampaignIds

\* A step of one application moves what is owed by what that payout does.
LEMMA OwedMovesWithPayout ==
    ASSUME EscrowInv, NEW c \in CampaignIds, NEW r \in Creators, Touches(c, r),
           applications'[<<c, r>>].status \in {"None", "Pending"}
                => applications'[<<c, r>>].payout_amount = 0,
           campaigns'[c].committed_payouts - campaigns[c].committed_payouts
                = Owed(c)'[r] - Owed(c)[r]
    PROVE  OwedMoves(c)
<1>1. applications \in [ApplicationKeys -> Application]
    BY DEF EscrowInv, TypeOK
<1>2. PendingOwesNothing'
    BY DEF EscrowInv, PendingOwesNothing, Touches
<1>3. \A d \in CampaignIds \ {c}, s \in Creators :
        applications'[<<d, s>>] = applications[<<d, s>>]
    BY DEF Touches, ApplicationKeys
<1>4. \A d \in CampaignIds :
        SumFunction(Owed(d)') = SumFunction(Owed(d)) + (IF d = c THEN Owed(c)'[r] - Owed(c)[r] ELSE 0)
    BY <1>1, OwedAfter
<1> QED BY <1>2, <1>3, <1>4 DEF OwedMoves, Touches

\* A step that leaves applications alone leaves what is owed alone.
LEMMA OwedStays ==
    ASSUME EscrowInv, NEW c \in CampaignIds, UNCHANGED applications,
           campaigns'[c].committed_payouts = campaigns[c].committed_payouts
    PROVE  OwedMoves(c)
<1>1. applications' \in [ApplicationKeys -> Application] /\ PendingOwesNothing'
    BY DEF EscrowInv, TypeOK, PendingOwesNothing
<1>2. ASSUME NEW d \in CampaignIds
      PROVE  SumFunction(Owed(d)') = SumFunction(Owed(d)) +
                (IF d = c
                 THEN campaigns'[c].committed_payouts - campaigns[c].committed_payouts ELSE 0)
    <2>1. Owed(d)' = Owed(d)
        BY DEF Owed, Settleable
    <2>2. SumFunction(Owed(d)) \in Nat
        BY SumBound, OwedIsFunction DEF EscrowInv, TypeOK
    <2>3. campaigns[c].committed_payouts \in Nat
        BY DEF EscrowInv, TypeOK, Campaign
    <2> QED BY <2>1, <2>2, <2>3
<1> QED BY <1>1, <1>2 DEF OwedMoves
--------------------------------------------------------------------------------
(* Applications, reviews and freezes: nothing owed changes.                  *)

LEMMA ReviewKeeps ==
    ASSUME EscrowInv, NEW c \in CampaignIds, NEW r \in Creators,
           Touches(c, r), UNCHANGED <<instance, campaigns, balances, now, barred>>,
           applicants' \in [CampaignIds -> Nat],
           c < instance.next_campaign_id,
           applications[<<c, r>>].status # "Paid", applications'[<<c, r>>].status # "Paid",
           applications'[<<c, r>>].payout_amount = applications[<<c, r>>].payout_amount,
           applications'[<<c, r>>].status \in {"None", "Pending"}
                => applications[<<c, r>>].status \in {"None", "Pending"}
    PROVE  EscrowInv'
<1>1. Books(c)
    BY DEF EscrowInv, TypeOK, Books
<1>2. StepOf(c)
    BY <1>1, CampaignFacts, QuietStep
<1>3. Owed(c)'[r] = Owed(c)[r]
    BY DEF Owed, Settleable
<1>4. applications'[<<c, r>>].status \in {"None", "Pending"}
        => applications'[<<c, r>>].payout_amount = 0
    BY DEF EscrowInv, PendingOwesNothing, ApplicationKeys
<1>5. campaigns'[c].committed_payouts - campaigns[c].committed_payouts = Owed(c)'[r] - Owed(c)[r]
    <2>1. campaigns[c].committed_payouts \in Nat
        BY DEF EscrowInv, TypeOK, Campaign
    <2>2. Owed(c)[r] \in Nat
        BY OwedIsFunction DEF EscrowInv, TypeOK
    <2> QED BY <1>3, <2>1, <2>2
<1>6. OwedMoves(c)
    BY <1>4, <1>5, OwedMovesWithPayout
<1> QED BY <1>2, <1>6, StepKeeps

LEMMA ApplyKeeps ==
    ASSUME EscrowInv, NEW c \in CampaignIds, NEW r \in Creators, ApplyToCampaign(r, c)
    PROVE  EscrowInv'
<1>1. applications \in [ApplicationKeys -> Application] /\ <<c, r>> \in ApplicationKeys
    BY DEF EscrowInv, TypeOK, ApplicationKeys
<1>2. /\ applications'[<<c, r>>] \in Application
      /\ applications'[<<c, r>>].payout_amount = applications[<<c, r>>].payout_amount
    BY <1>1 DEF ApplyToCampaign, Application, ApplicationStatus
<1>3. Touches(c, r)
    BY <1>1, <1>2 DEF ApplyToCampaign, Touches
<1>4. c < instance.next_campaign_id
    BY InUse DEF ApplyToCampaign, AcceptsCreators
<1>5. applicants' \in [CampaignIds -> Nat]
    BY DEF EscrowInv, TypeOK, ApplyToCampaign
<1>6. applications[<<c, r>>].status # "Paid" /\ applications'[<<c, r>>].status = "Pending"
    BY <1>1 DEF ApplyToCampaign, Application
<1> QED BY <1>2, <1>3, <1>4, <1>5, <1>6, ReviewKeeps DEF ApplyToCampaign

LEMMA SubmitProofKeeps ==
    ASSUME EscrowInv, NEW c \in CampaignIds, NEW r \in Creators, NEW proof \in Proofs,
           SubmitProof(r, c, proof)
    PROVE  EscrowInv'
<1>1. applications \in [ApplicationKeys -> Application] /\ <<c, r>> \in ApplicationKeys
    BY DEF EscrowInv, TypeOK, ApplicationKeys
<1>2. /\ applications'[<<c, r>>] \in Application
      /\ applications'[<<c, r>>].payout_amount = applications[<<c, r>>].payout_amount
    BY <1>1 DEF SubmitProof, Application, ApplicationStatus
<1>3. Touches(c, r)
    BY <1>1, <1>2 DEF SubmitProof, Touches
<1>4. c < instance.next_campaign_id
    BY InUse DEF SubmitProof
<1>5. applicants' \in [CampaignIds -> Nat]
    BY DEF EscrowInv, TypeOK, SubmitProof
<1>6. applications[<<c, r>>].status # "Paid" /\ applications'[<<c, r>>].status = "ProofSubmitted"
    BY <1>1 DEF SubmitProof, Application
<1> QED BY <1>2, <1>3, <1>4, <1>5, <1>6, ReviewKeeps DEF SubmitProof

LEMMA ApproveSubmissionKeeps ==
    ASSUME EscrowInv, NEW c \in CampaignIds, NEW r \in Creators, NEW b,
           ApproveSubmission(b, c, r)
    PROVE  EscrowInv'
<1>1. applications \in [ApplicationKeys -> Application] /\ <<c, r>> \in ApplicationKeys
    BY DEF EscrowInv, TypeOK, ApplicationKeys
<1>2. /\ applications'[<<c, r>>] \in Application
      /\ applications'[<<c, r>>].payout_amount = applications[<<c, r>>].payout_amount
    BY <1>1 DEF ApproveSubmission, Application
<1>3. Touches(c, r)
    BY <1>1, <1>2 DEF ApproveSubmission, Touches
<1>4. c < instance.next_campaign_id
    BY InUse DEF ApproveSubmission
<1>5. applicants' \in [CampaignIds -> Nat]
    BY DEF EscrowInv, TypeOK, ApproveSubmission
<1>6. applications[<<c, r>>].status # "Paid" /\ applications'[<<c, r>>].status = "ProofSubmitted"
    BY <1>1 DEF ApproveSubmission, Application
<1> QED BY <1>2, <1>3, <1>4, <1>5, <1>6, ReviewKeeps DEF ApproveSubmission

LEMMA RejectSubmissionKeeps ==
    ASSUME EscrowInv, NEW c \in CampaignIds, NEW r \in Creators, NEW b,
           RejectSubmission(b, c, r)
    PROVE  EscrowInv'
<1>1. applications \in [ApplicationKeys -> Application] /\ <<c, r>> \in ApplicationKeys
    BY DEF EscrowInv, TypeOK, ApplicationKeys
<1>2. /\ applications'[<<c, r>>] \in Application
      /\ applications'[<<c, r>>].payout_amount = applications[<<c, r>>].payout_amount
    BY <1>1 DEF RejectSubmission, Application, ApplicationStatus
<1>3. Touches(c, r)
    BY <1>1, <1>2 DEF RejectSubmission, Touches
<1>4. c < instance.next_campaign_id
    BY InUse DEF RejectSubmission
<1>5. applicants' \in [CampaignIds -> Nat]
    BY DEF EscrowInv, TypeOK, RejectSubmission
<1>6. applications[<<c, r>>].status # "Paid" /\ applications'[<<c, r>>].status = "Rejected"
    BY <1>1 DEF RejectSubmission, Application
<1> QED BY <1>2, <1>3, <1>4, <1>5, <1>6, ReviewKeeps DEF RejectSubmission

LEMMA FreezeKeeps ==
    ASSUME EscrowInv, NEW c \in CampaignIds, NEW r \in Creators, NEW caller,
           FreezeForDispute(caller, c, r)
    PROVE  EscrowInv'
<1>1. applications \in [ApplicationKeys -> Application] /\ <<c, r>> \in ApplicationKeys
    BY DEF EscrowInv, TypeOK, ApplicationKeys
<1>2. /\ applications'[<<c, r>>] \in Application
      /\ applications'[<<c, r>>].payout_amount = applications[<<c, r>>].payout_amount
    <2>1. now \in Nat
        BY DEF EscrowInv, TypeOK
    <2> QED BY <1>1, <2>1 DEF FreezeForDispute, Application
<1>3. Touches(c, r)
    BY <1>1, <1>2 DEF FreezeForDispute, Touches
<1>4. c < instance.next_campaign_id
    BY InUse DEF FreezeForDispute, MayFreeze, Settleable
<1>5. applicants' \in [CampaignIds -> Nat]
    BY DEF EscrowInv, TypeOK, FreezeForDispute
<1>6. applications[<<c, r>>].status # "Paid" /\ applications'[<<c, r>>].status = applications[<<c, r>>].status
    BY <1>1 DEF FreezeForDispute, MayFreeze, Settleable, Application
<1> QED BY <1>2, <1>3, <1>4, <1>5, <1>6, ReviewKeeps DEF FreezeForDispute

LEMMA ApproveCreatorKeeps ==
    ASSUME EscrowInv, NEW c \in CampaignIds, NEW r \in Creators, NEW b,
           NEW amount \in Payouts, ApproveCreator(b, c, r, amount)
    PROVE  EscrowInv'
<1>1. amount \in Nat /\ amount > 0
    BY DEF ApproveCreator
<1>2. Touches(c, r) /\ applicants' \in [CampaignIds -> Nat]
    <2>1. applications \in [ApplicationKeys -> Application] /\ <<c, r>> \in ApplicationKeys
        BY DEF EscrowInv, TypeOK, ApplicationKeys
    <2>2. applications'[<<c, r>>] \in Application
        BY <1>1, <2>1 DEF ApproveCreator, Application, ApplicationStatus
    <2>3. Touches(c, r)
        BY <2>1, <2>2 DEF ApproveCreator, Touches
    <2> QED BY <2>3 DEF ApproveCreator, EscrowInv, TypeOK
<1>3. c < instance.next_campaign_id
    BY InUse DEF ApproveCreator
<1>4. /\ applications[<<c, r>>].status = "Pending" /\ applications[<<c, r>>].payout_amount = 0
      /\ applications'[<<c, r>>].status = "Approved"
      /\ applications'[<<c, r>>].payout_amount = amount
    <2>1. applications \in [ApplicationKeys -> Application] /\ <<c, r>> \in ApplicationKeys
        BY DEF EscrowInv, TypeOK, ApplicationKeys
    <2>2. applications[<<c, r>>].status = "Pending"
        BY DEF ApproveCreator
    <2>3. applications[<<c, r>>].payout_amount = 0
        BY <2>1, <2>2 DEF EscrowInv, PendingOwesNothing
    <2>4. /\ applications'[<<c, r>>].status = "Approved"
          /\ applications'[<<c, r>>].payout_amount = amount
        BY <2>1 DEF ApproveCreator, Application
    <2> QED BY <2>2, <2>3, <2>4
<1>5. campaigns \in [CampaignIds -> Campaign] /\ campaigns[c] \in Campaign
    BY DEF EscrowInv, TypeOK
<1>6. /\ campaigns'[c] \in Campaign
      /\ campaigns'[c].committed_payouts = campaigns[c].committed_payouts + amount
      /\ campaigns'[c].escrow_balance = campaigns[c].escrow_balance
      /\ campaigns'[c].token = campaigns[c].token
      /\ campaigns'[c].status = "Active"
    BY <1>1, <1>5 DEF ApproveCreator, Campaign, CampaignStatus
<1>7. StepOf(c)
    <2>1. Books(c)
        BY <1>5, <1>6 DEF ApproveCreator, Books
    <2>2. campaigns'[c].committed_payouts <= campaigns'[c].escrow_balance
        BY <1>6 DEF ApproveCreator, WithinEscrow
    <2> QED BY <1>2, <1>3, <1>6, <2>1, <2>2, QuietStep DEF ApproveCreator
<1>8. Owed(c)'[r] = amount /\ Owed(c)[r] = 0
    BY <1>1, <1>4 DEF Owed, Settleable
<1>9. OwedMoves(c)
    BY <1>1, <1>2, <1>4, <1>5, <1>6, <1>8, OwedMovesWithPayout DEF Campaign
<1> QED BY <1>7, <1>9, StepKeeps
--------------------------------------------------------------------------------
(* Payments: a settled payout leaves the reserve, the escrow and the         *)
(* contract's balance together.                                              *)

\* An unpaid payout is part of its campaign's reserve.
LEMMA UnpaidIsReserved ==
    ASSUME EscrowInv, NEW c \in CampaignIds, NEW r \in Creators,
           applications[<<c, r>>].status # "Paid"
    PROVE  /\ applications[<<c, r>>].payout_amount \in Nat
           /\ Owed(c)[r] = applications[<<c, r>>].payout_amount
           /\ applications[<<c, r>>].payout_amount <= campaigns[c].committed_payouts
<1>1. <<c, r>> \in ApplicationKeys /\ applications[<<c, r>>] \in Application
    BY DEF EscrowInv, TypeOK, ApplicationKeys
<1>2. applications[<<c, r>>].payout_amount \in Nat
    BY <1>1 DEF Application
<1>3. Owed(c)[r] = applications[<<c, r>>].payout_amount
    BY <1>2 DEF Owed, Settleable
<1>4. Owed(c)[r] <= SumFunction(Owed(c))
    BY OwedIsFunction, SumBound DEF EscrowInv, TypeOK
<1>5. campaigns[c].committed_payouts = SumFunction(Owed(c))
    BY DEF EscrowInv, ReserveExact
<1> QED BY <1>2, <1>3, <1>4, <1>5

LEMMA SettledBooks ==
    ASSUME NEW camp \in Campaign, NEW amount \in Nat,
           amount <= camp.committed_payouts, camp.committed_payouts <= camp.escrow_balance
    PROVE  LET after == Settled(camp, amount) IN
           /\ after \in Campaign
           /\ after.escrow_balance = camp.escrow_balance - amount
           /\ after.committed_payouts = camp.committed_payouts - amount
           /\ after.token = camp.token
           /\ after.status = IF after.escrow_balance = 0 THEN "Completed" ELSE camp.status
<1>1. /\ camp.escrow_balance \in Nat /\ camp.committed_payouts \in Nat
      /\ camp.status \in CampaignStatus
    BY DEF Campaign
<1> DEFINE left == camp.escrow_balance - amount
           status == IF left = 0 THEN "Completed" ELSE camp.status
<1>2. Settled(camp, amount) =
        [camp EXCEPT !.escrow_balance = left,
                     !.committed_payouts = camp.committed_payouts - amount, !.status = status]
    BY DEF Settled, Campaign
<1>3. left \in Nat /\ camp.committed_payouts - amount \in Nat
    BY <1>1
<1>4. status = IF left = 0 THEN "Completed" ELSE camp.status
    OBVIOUS
<1>5. status \in CampaignStatus
    BY <1>1 DEF CampaignStatus
<1> HIDE DEF left, status
<1>6. Settled(camp, amount) \in Campaign
    BY <1>2, <1>3, <1>5 DEF Campaign
<1>7. /\ Settled(camp, amount).escrow_balance = left
      /\ Settled(camp, amount).committed_payouts = camp.committed_payouts - amount
      /\ Settled(camp, amount).token = camp.token
      /\ Settled(camp, amount).status = status
    BY <1>2 DEF Campaign
<1> QED BY <1>4, <1>6, <1>7 DEF left

LEMMA SettlementKeeps ==
    ASSUME EscrowInv, NEW c \in CampaignIds, NEW r \in Creators, Touches(c, r),
           c < instance.next_campaign_id,
           applications[<<c, r>>].status # "Paid", applications'[<<c, r>>].status = "Paid",
           campaigns' = [campaigns EXCEPT
                ![c] = Settled(campaigns[c], applications[<<c, r>>].payout_amount)],
           balances' \in Ledgers,
           \A t \in Tokens :
               balances'[t][EscrowContract] >= balances[t][EscrowContract] -
                    (IF t = campaigns[c].token
                     THEN applications[<<c, r>>].payout_amount ELSE 0),
           UNCHANGED <<instance, applicants, now, barred>>
    PROVE  EscrowInv'
<1> DEFINE amount == applications[<<c, r>>].payout_amount
<1>1. /\ amount \in Nat /\ amount <= campaigns[c].committed_payouts
      /\ Owed(c)[r] = amount
    BY UnpaidIsReserved
<1>2. /\ campaigns \in [CampaignIds -> Campaign]
      /\ campaigns[c] \in Campaign
      /\ campaigns[c].escrow_balance \in Nat /\ campaigns[c].committed_payouts \in Nat
      /\ campaigns[c].committed_payouts <= campaigns[c].escrow_balance
      /\ campaigns[c].status \in {"None", "Draft", "Completed"} => campaigns[c].escrow_balance = 0
    BY CampaignFacts DEF EscrowInv, TypeOK
<1>3. /\ campaigns'[c] = Settled(campaigns[c], amount)
      /\ \A d \in CampaignIds \ {c} : campaigns'[d] = campaigns[d]
    BY <1>2
<1> HIDE DEF amount
<1>4. /\ campaigns'[c] \in Campaign
      /\ campaigns'[c].escrow_balance = campaigns[c].escrow_balance - amount
      /\ campaigns'[c].committed_payouts = campaigns[c].committed_payouts - amount
      /\ campaigns'[c].token = campaigns[c].token
      /\ campaigns'[c].status \in {"None", "Draft", "Completed"} => campaigns'[c].escrow_balance = 0
    <2> DEFINE after == Settled(campaigns[c], amount)
    <2>1. /\ after \in Campaign
          /\ after.escrow_balance = campaigns[c].escrow_balance - amount
          /\ after.committed_payouts = campaigns[c].committed_payouts - amount
          /\ after.token = campaigns[c].token
          /\ after.status = IF after.escrow_balance = 0 THEN "Completed" ELSE campaigns[c].status
        BY <1>1, <1>2, SettledBooks
    <2>2. campaigns'[c] = after
        BY <1>3
    <2> HIDE DEF after
    <2>3. ASSUME after.status \in {"None", "Draft", "Completed"}
          PROVE  after.escrow_balance = 0
        <3>1. CASE after.escrow_balance = 0
            BY <3>1
        <3>2. CASE after.escrow_balance # 0
            <4>1. campaigns[c].escrow_balance = 0
                BY <2>1, <2>3, <3>2, <1>2
            <4> QED BY <4>1, <2>1, <1>1, <1>2
        <3> QED BY <3>1, <3>2
    <2> QED BY <2>1, <2>2, <2>3
<1>5. Books(c)
    BY <1>2, <1>3, <1>4 DEF Books, amount
<1>6. \A t \in Tokens : balances[t][EscrowContract] \in Nat /\ balances'[t][EscrowContract] \in Nat
    <2>1. EscrowContract \in Accounts
        BY DEF Accounts
    <2> QED BY <2>1, BalancesAreNaturals DEF Ledgers
<1>7. \A t \in Tokens :
        balances'[t][EscrowContract] >= balances[t][EscrowContract]
            + (IF t = campaigns[c].token
               THEN campaigns'[c].escrow_balance - campaigns[c].escrow_balance ELSE 0)
    BY <1>1, <1>2, <1>4, <1>6 DEF amount
<1>8. StepOf(c)
    <2>1. applicants' \in [CampaignIds -> Nat]
        BY DEF EscrowInv, TypeOK
    <2>2. campaigns'[c].committed_payouts <= campaigns'[c].escrow_balance
        BY <1>1, <1>2, <1>4
    <2> QED BY <1>4, <1>5, <1>7, <2>1, <2>2 DEF StepOf
<1>9. Owed(c)'[r] = 0
    BY DEF Owed, Settleable
<1>10. OwedMoves(c)
    <2>1. campaigns'[c].committed_payouts - campaigns[c].committed_payouts
            = Owed(c)'[r] - Owed(c)[r]
        BY <1>1, <1>2, <1>4, <1>9
    <2> QED BY <2>1, OwedMovesWithPayout
<1> QED BY <1>8, <1>10, StepKeeps

\* Two payments of one settlement, in the code's order, out of one balance.
LEMMA PayTwice ==
    ASSUME NEW ledger \in Ledgers, NEW token, NEW to1, NEW to2,
           NEW amount1 \in Nat, NEW amount2 \in Nat,
           CanPay(ledger, token, to1, amount1),
           CanPay(Pay(ledger, token, to1, amount1), token, to2, amount2)
    PROVE  LET after == Pay(Pay(ledger, token, to1, amount1), token, to2, amount2) IN
           /\ after \in Ledgers
           /\ \A t \in Tokens :
                after[t][EscrowContract] >= ledger[t][EscrowContract] -
                        (IF t = token THEN amount1 + amount2 ELSE 0)
<1> DEFINE mid == Pay(ledger, token, to1, amount1)
           after == Pay(mid, token, to2, amount2)
<1>1. /\ mid \in Ledgers
      /\ \A t \in Tokens : mid[t][EscrowContract] >= ledger[t][EscrowContract] -
                                (IF t = token THEN amount1 ELSE 0)
    BY PayKeepsLedger
<1> HIDE DEF mid
<1>2. /\ after \in Ledgers
      /\ \A t \in Tokens : after[t][EscrowContract] >= mid[t][EscrowContract] -
                                (IF t = token THEN amount2 ELSE 0)
    BY <1>1, PayKeepsLedger DEF mid
<1>3. EscrowContract \in Accounts
    BY DEF Accounts
<1>4. \A t \in Tokens : /\ ledger[t][EscrowContract] \in Nat /\ mid[t][EscrowContract] \in Nat
                        /\ after[t][EscrowContract] \in Nat
    BY <1>1, <1>2, <1>3 DEF Ledgers
<1> HIDE DEF after
<1>5. \A t \in Tokens : after[t][EscrowContract] >= ledger[t][EscrowContract] -
                                (IF t = token THEN amount1 + amount2 ELSE 0)
    BY <1>1, <1>2, <1>4
<1> QED BY <1>2, <1>5 DEF after, mid

LEMMA ClaimKeeps ==
    ASSUME EscrowInv, NEW c \in CampaignIds, NEW r \in Creators, ClaimPayment(r, c)
    PROVE  EscrowInv'
<1> DEFINE amount == applications[<<c, r>>].payout_amount
           token == campaigns[c].token
           fee == Share(amount, campaigns[c].fee_bps)
           net == amount - fee
           after_fee == Pay(balances, token, instance.treasury, fee)
<1>1. applications[<<c, r>>].status = "ProofSubmitted"
    BY DEF ClaimPayment, MayClaim
<1>2. amount \in Nat
    BY <1>1, UnpaidIsReserved
<1>3. fee \in 0 .. amount
    <2>1. campaigns[c].fee_bps \in BasisPoints
        BY CampaignFacts DEF Campaign
    <2> QED BY <1>2, <2>1, ShareIsPart
<1>4. /\ CanPay(balances, token, instance.treasury, fee) /\ CanPay(after_fee, token, r, net)
      /\ balances' = Pay(after_fee, token, r, net)
    BY DEF ClaimPayment, MayClaim, CanPayCreator, PayCreatorNet, AfterFee, FeeOn, AgreedFee
<1>5. /\ balances' \in Ledgers
      /\ \A t \in Tokens : balances'[t][EscrowContract] >= balances[t][EscrowContract] -
                                (IF t = token THEN amount ELSE 0)
    <2> HIDE DEF amount, token, fee
    <2>1. fee \in Nat /\ net \in Nat /\ fee + net = amount
        BY <1>2, <1>3
    <2> HIDE DEF net
    <2> QED BY <1>4, <2>1, PayTwice, BalancesAreNaturals
<1>6. applications \in [ApplicationKeys -> Application] /\ <<c, r>> \in ApplicationKeys
    BY DEF EscrowInv, TypeOK, ApplicationKeys
<1>7. applications'[<<c, r>>] \in Application /\ applications'[<<c, r>>].status = "Paid"
    BY <1>6 DEF ClaimPayment, Application, ApplicationStatus
<1>8. Touches(c, r)
    BY <1>6, <1>7 DEF ClaimPayment, Touches
<1>9. c < instance.next_campaign_id
    BY <1>1, InUse
<1>10. campaigns' = [campaigns EXCEPT ![c] = Settled(campaigns[c], amount)]
    BY DEF ClaimPayment
<1>11. UNCHANGED <<instance, applicants, now, barred>>
    BY DEF ClaimPayment
<1> QED BY <1>1, <1>5, <1>7, <1>8, <1>9, <1>10, <1>11, SettlementKeeps
\* Whatever the resolution, the creator's side is part of the payout.
LEMMA GrossIsPart ==
    ASSUME NEW amount \in Nat, NEW resolution \in Resolutions, resolution.bps \in BasisPoints
    PROVE  CreatorGross(amount, resolution) \in 0 .. amount
<1>1. CASE resolution = PayCreator
    BY <1>1 DEF CreatorGross, PayCreator
<1>2. CASE resolution = RefundBusiness
    BY <1>2 DEF CreatorGross, RefundBusiness
<1>3. ASSUME NEW bps \in Splits, resolution = Split(bps)
      PROVE  CreatorGross(amount, resolution) \in 0 .. amount
    <2>1. resolution.kind = "Split" /\ resolution.bps = bps
        BY <1>3 DEF Split
    <2>2. CreatorGross(amount, resolution) = Share(amount, bps)
        BY <2>1 DEF CreatorGross
    <2>3. bps \in BasisPoints
        BY <2>1
    <2> QED BY <2>2, <2>3, ShareIsPart
<1> QED BY <1>1, <1>2, <1>3 DEF Resolutions

LEMMA ResolveKeeps ==
    ASSUME EscrowInv, NEW c \in CampaignIds, NEW r \in Creators, NEW admin,
           NEW resolution \in Resolutions, ResolveDispute(admin, c, r, resolution)
    PROVE  EscrowInv'
<1> DEFINE amount == applications[<<c, r>>].payout_amount
           token == campaigns[c].token
           gross == CreatorGross(amount, resolution)
           rest == BusinessAmount(amount, resolution)
           fee == Share(gross, campaigns[c].fee_bps)
           net == gross - fee
           after_fee == Pay(balances, token, instance.treasury, fee)
           after_creator == Pay(after_fee, token, r, net)
<1>1. applications[<<c, r>>].status # "Paid" /\ amount > 0
    BY DEF ResolveDispute, MayResolve, Settleable
<1>2. amount \in Nat
    BY <1>1, UnpaidIsReserved
<1>3. gross \in 0 .. amount /\ rest = amount - gross
    <2>1. resolution.bps \in BasisPoints
        BY DEF ResolveDispute, MayResolve
    <2> QED BY <1>2, <2>1, GrossIsPart DEF BusinessAmount
<1>4. fee \in 0 .. gross
    <2>1. campaigns[c].fee_bps \in BasisPoints
        BY CampaignFacts DEF Campaign
    <2>2. gross \in Nat
        BY <1>2, <1>3
    <2> QED BY <2>1, <2>2, ShareIsPart
<1>5. /\ CanPay(balances, token, instance.treasury, fee)
      /\ CanPay(after_fee, token, r, net)
      /\ CanPay(after_creator, token, campaigns[c].business, rest)
      /\ balances' = Pay(after_creator, token, campaigns[c].business, rest)
    BY DEF ResolveDispute, MayResolve, CanPayCreator, PayCreatorNet,
        AfterFee, FeeOn, AgreedFee
<1>6. /\ balances' \in Ledgers
      /\ \A t \in Tokens : balances'[t][EscrowContract] >= balances[t][EscrowContract] -
                                (IF t = token THEN amount ELSE 0)
    <2> HIDE DEF amount, token, gross, rest, fee
    <2>1. fee \in Nat /\ net \in Nat /\ rest \in Nat /\ fee + net = gross /\ gross + rest = amount
        BY <1>2, <1>3, <1>4
    <2> HIDE DEF net
    <2>2. /\ after_creator \in Ledgers
          /\ \A t \in Tokens : after_creator[t][EscrowContract] >= balances[t][EscrowContract] -
                                    (IF t = token THEN fee + net ELSE 0)
        BY <1>5, <2>1, PayTwice, BalancesAreNaturals
    <2> HIDE DEF after_creator
    <2>3. /\ balances' \in Ledgers
          /\ \A t \in Tokens : balances'[t][EscrowContract] >= after_creator[t][EscrowContract] -
                                    (IF t = token THEN rest ELSE 0)
        BY <1>5, <2>1, <2>2, PayKeepsLedger
    <2>4. EscrowContract \in Accounts
        BY DEF Accounts
    <2>5. \A t \in Tokens : /\ balances[t][EscrowContract] \in Nat
                            /\ after_creator[t][EscrowContract] \in Nat
                            /\ balances'[t][EscrowContract] \in Nat
        BY <2>2, <2>3, <2>4, BalancesAreNaturals DEF Ledgers
    <2> QED BY <2>1, <2>2, <2>3, <2>5
<1>7. applications \in [ApplicationKeys -> Application] /\ <<c, r>> \in ApplicationKeys
    BY DEF EscrowInv, TypeOK, ApplicationKeys
<1>8. applications'[<<c, r>>] \in Application /\ applications'[<<c, r>>].status = "Paid"
    BY <1>7 DEF ResolveDispute, Application, ApplicationStatus
<1>9. Touches(c, r)
    BY <1>7, <1>8 DEF ResolveDispute, Touches
<1>10. c < instance.next_campaign_id
    BY <1>1, InUse
<1>11. campaigns' = [campaigns EXCEPT ![c] = Settled(campaigns[c], amount)]
    BY DEF ResolveDispute
<1>12. UNCHANGED <<instance, applicants, now, barred>>
    BY DEF ResolveDispute
<1> QED BY <1>1, <1>6, <1>8, <1>9, <1>10, <1>11, <1>12, SettlementKeeps

--------------------------------------------------------------------------------
(* Funding, the brief, and the four refunds.                                 *)

LEMMA FundKeeps ==
    ASSUME EscrowInv, NEW c \in CampaignIds, NEW b \in Businesses, FundCampaign(b, c)
    PROVE  EscrowInv'
<1> DEFINE budget == campaigns[c].total_budget
           token == campaigns[c].token
<1>1. /\ campaigns \in [CampaignIds -> Campaign] /\ campaigns[c] \in Campaign
      /\ campaigns[c].escrow_balance \in Nat /\ campaigns[c].committed_payouts \in Nat
      /\ campaigns[c].committed_payouts <= campaigns[c].escrow_balance
      /\ campaigns[c].status = "Draft" => campaigns[c].escrow_balance = 0
    BY CampaignFacts DEF EscrowInv, TypeOK
<1>2. campaigns[c].status = "Draft" /\ c < instance.next_campaign_id
    BY InUse DEF FundCampaign
<1>3. budget \in Nat
    BY <1>1 DEF Campaign
<1>4. /\ campaigns'[c] \in Campaign
      /\ campaigns'[c].escrow_balance = budget
      /\ campaigns'[c].committed_payouts = campaigns[c].committed_payouts
      /\ campaigns'[c].token = token
      /\ campaigns'[c].status = "Funded"
    BY <1>1 DEF FundCampaign, Campaign, CampaignStatus
<1>5. Books(c)
    BY <1>1, <1>4 DEF FundCampaign, Books
<1>6. b # EscrowContract /\ EscrowContract \in Accounts
    BY DEF Accounts
<1>7. /\ balances' \in Ledgers
      /\ \A t \in Tokens :
            /\ balances'[t][EscrowContract] >= balances[t][EscrowContract] - 0
            /\ t = token => balances'[t][EscrowContract] = balances[t][EscrowContract] + budget
    <2>1. /\ Covers(balances, token, b, budget)
          /\ balances' = Transfer(balances, token, b, EscrowContract, budget)
        BY DEF FundCampaign
    <2> HIDE DEF budget, token
    <2> QED BY <1>3, <1>6, <2>1, TransferKeepsLedger, BalancesAreNaturals
<1>8. StepOf(c)
    <2>1. \A t \in Tokens : balances[t][EscrowContract] \in Nat /\ balances'[t][EscrowContract] \in Nat
        BY <1>6, <1>7, BalancesAreNaturals DEF Ledgers
    <2>2. campaigns[c].escrow_balance = 0 /\ campaigns[c].committed_payouts = 0
        BY <1>1, <1>2
    <2>3. UNCHANGED <<instance, applicants, now, barred>> /\ applicants' \in [CampaignIds -> Nat]
        BY DEF FundCampaign, EscrowInv, TypeOK
    <2> HIDE DEF budget
    <2> QED BY <1>2, <1>3, <1>4, <1>5, <1>7, <2>1, <2>2, <2>3 DEF StepOf
<1>9. OwedMoves(c)
    BY <1>4, OwedStays DEF FundCampaign
<1> QED BY <1>8, <1>9, StepKeeps

LEMMA MetadataKeeps ==
    ASSUME EscrowInv, NEW c \in CampaignIds, NEW b \in Businesses, NEW brief \in Briefs,
           UpdateCampaignMetadata(c, b, brief)
    PROVE  EscrowInv'
<1>1. campaigns \in [CampaignIds -> Campaign] /\ campaigns[c] \in Campaign
    BY DEF EscrowInv, TypeOK
<1>2. /\ campaigns'[c] \in Campaign
      /\ campaigns'[c].escrow_balance = campaigns[c].escrow_balance
      /\ campaigns'[c].committed_payouts = campaigns[c].committed_payouts
      /\ campaigns'[c].token = campaigns[c].token
      /\ campaigns'[c].status = campaigns[c].status
    BY <1>1 DEF UpdateCampaignMetadata, Campaign
<1>3. Books(c)
    BY <1>1, <1>2 DEF UpdateCampaignMetadata, Books
<1>4. c < instance.next_campaign_id
    BY InUse DEF UpdateCampaignMetadata, OwnedBy
<1>5. applicants' \in [CampaignIds -> Nat]
    BY DEF UpdateCampaignMetadata, EscrowInv, TypeOK
<1>6. StepOf(c)
    BY <1>2, <1>3, <1>4, <1>5, CampaignFacts, QuietStep DEF UpdateCampaignMetadata
<1>7. OwedMoves(c)
    BY <1>2, OwedStays DEF UpdateCampaignMetadata
<1> QED BY <1>6, <1>7, StepKeeps

\* All four refunds leave exactly the reserve behind.
LEMMA SweepKeeps ==
    ASSUME EscrowInv, NEW c \in CampaignIds, NEW to, NEW status \in CampaignStatus,
           Sweep(c, to, status), c < instance.next_campaign_id,
           status \in {"None", "Draft", "Completed"} => campaigns[c].committed_payouts = 0
    PROVE  EscrowInv'
<1> DEFINE token == campaigns[c].token
           free == Unallocated(campaigns[c])
<1>1. /\ campaigns \in [CampaignIds -> Campaign] /\ campaigns[c] \in Campaign
      /\ campaigns[c].escrow_balance \in Nat /\ campaigns[c].committed_payouts \in Nat
      /\ campaigns[c].committed_payouts <= campaigns[c].escrow_balance
    BY CampaignFacts DEF EscrowInv, TypeOK
<1>2. free \in Nat /\ free = campaigns[c].escrow_balance - campaigns[c].committed_payouts
    BY <1>1 DEF Unallocated
<1>3. /\ campaigns'[c] \in Campaign
      /\ campaigns'[c].escrow_balance = campaigns[c].committed_payouts
      /\ campaigns'[c].committed_payouts = campaigns[c].committed_payouts
      /\ campaigns'[c].token = token
      /\ campaigns'[c].status = status
    BY <1>1 DEF Sweep, Campaign
<1>4. Books(c)
    BY <1>1, <1>3 DEF Sweep, Books
<1>5. /\ balances' \in Ledgers
      /\ \A t \in Tokens : balances'[t][EscrowContract] >= balances[t][EscrowContract] -
                                (IF t = token THEN free ELSE 0)
    <2>1. CanPay(balances, token, to, free) /\ balances' = Pay(balances, token, to, free)
        BY DEF Sweep, CanSweep
    <2> HIDE DEF token, free
    <2> QED BY <1>2, <2>1, PayKeepsLedger, BalancesAreNaturals
<1>6. StepOf(c)
    <2>1. EscrowContract \in Accounts
        BY DEF Accounts
    <2>2. \A t \in Tokens : balances[t][EscrowContract] \in Nat /\ balances'[t][EscrowContract] \in Nat
        BY <1>5, <2>1, BalancesAreNaturals DEF Ledgers
    <2>3. UNCHANGED <<instance, applicants, now, barred>> /\ applicants' \in [CampaignIds -> Nat]
        BY DEF Sweep, EscrowInv, TypeOK
    <2> HIDE DEF free
    <2> QED BY <1>1, <1>2, <1>3, <1>4, <1>5, <2>2, <2>3 DEF StepOf
<1>7. OwedMoves(c)
    BY <1>3, OwedStays DEF Sweep
<1> QED BY <1>6, <1>7, StepKeeps

LEMMA RefundsKeep ==
    ASSUME EscrowInv, NEW c \in CampaignIds, NEW b \in Businesses,
           \/ CancelCampaign(b, c)
           \/ ExpireCampaign(b, c)
           \/ ReclaimSurplus(b, c)
    PROVE  EscrowInv'
<1>1. "Cancelled" \in CampaignStatus /\ "Completed" \in CampaignStatus
    BY DEF CampaignStatus
<1>2. CASE CancelCampaign(b, c)
    BY <1>1, <1>2, InUse, SweepKeeps DEF CancelCampaign, NotClosed
<1>3. CASE ExpireCampaign(b, c)
    BY <1>1, <1>3, InUse, SweepKeeps DEF ExpireCampaign, MayExpire, NotClosed
<1>4. CASE ReclaimSurplus(b, c)
    <2> DEFINE status == IF campaigns[c].committed_payouts = 0
                         THEN "Completed" ELSE campaigns[c].status
    <2>1. Sweep(c, b, status) /\ campaigns[c].business = b
        BY <1>4 DEF ReclaimSurplus, OwnedBy
    <2>2. status \in CampaignStatus
        BY <1>1, CampaignFacts DEF Campaign
    <2>3. ASSUME status \in {"None", "Draft", "Completed"} PROVE campaigns[c].committed_payouts = 0
        <3>1. CASE campaigns[c].committed_payouts = 0
            BY <3>1
        <3>2. CASE campaigns[c].committed_payouts # 0
            BY <2>3, <3>2, CampaignFacts
        <3> QED BY <3>1, <3>2
    <2> HIDE DEF status
    <2> QED BY <2>1, <2>2, <2>3, InUse, SweepKeeps
<1> QED BY <1>2, <1>3, <1>4
LEMMA RecoverKeeps ==
    ASSUME EscrowInv, NEW c \in CampaignIds, NEW a, EmergencyRecoverCampaign(a, c)
    PROVE  EscrowInv'
<1>1. "Cancelled" \in CampaignStatus
    BY DEF CampaignStatus
<1> QED BY <1>1, InUse, SweepKeeps DEF EmergencyRecoverCampaign, NotClosed

--------------------------------------------------------------------------------
(* A new campaign takes over storage nobody has touched.                     *)

LEMMA CreateKeeps ==
    ASSUME EscrowInv, NEW b \in Businesses, NEW t \in Tokens, NEW budget \in Budgets,
           NEW n \in CreatorCounts, NEW apply_by \in Deadlines, NEW complete_by \in Deadlines,
           NEW brief \in Briefs,
           CreateCampaign(b, t, budget, n, apply_by, complete_by, brief)
    PROVE  EscrowInv'
<1> DEFINE c == instance.next_campaign_id
           new == [business |-> b, token |-> t, total_budget |-> budget,
                   escrow_balance |-> 0, committed_payouts |-> 0, fee_bps |-> instance.fee_bps,
                   max_creators |-> n, approved_count |-> 0,
                   application_deadline |-> apply_by, completion_deadline |-> complete_by,
                   metadata_uri |-> brief, status |-> "Draft"]
<1>1. /\ instance \in Instance /\ campaigns \in [CampaignIds -> Campaign]
      /\ c \in CampaignIds
    BY DEF EscrowInv, TypeOK, Instance, CreateCampaign, CampaignIds
<1>2. instance.fee_bps \in BasisPoints
    BY <1>1 DEF EscrowInv, SetUpTogether, Instance, CreateCampaign
<1>3. new \in Campaign
    <2>1. budget \in Nat /\ n \in Nat /\ apply_by \in Nat /\ complete_by \in Nat
        BY DEF CreateCampaign
    <2> QED BY <1>2, <2>1 DEF Campaign, CampaignStatus
<1>4. /\ campaigns' = [campaigns EXCEPT ![c] = new]
      /\ instance' = [instance EXCEPT !.next_campaign_id = c + 1]
      /\ UNCHANGED <<applications, applicants, balances, now, barred>>
    BY <1>1 DEF CreateCampaign, Instance
<1>5. new.escrow_balance = 0 /\ new.committed_payouts = 0 /\ new.status = "Draft"
    OBVIOUS
<1>6. campaigns[c] = NoCampaign /\ \A r \in Creators : applications[<<c, r>>] = NoApplication
    BY <1>1 DEF EscrowInv, IdleHoldsNothing, Instance
<1>7. campaigns[c].escrow_balance = 0 /\ campaigns[c].committed_payouts = 0
    BY <1>6 DEF NoCampaign
<1> HIDE DEF new
<1>8. /\ campaigns'[c] = new
      /\ \A d \in CampaignIds \ {c} : campaigns'[d] = campaigns[d]
      /\ campaigns' \in [CampaignIds -> Campaign]
    BY <1>1, <1>3, <1>4
<1>9. instance' \in Instance /\ instance'.next_campaign_id = c + 1 /\ c \in Nat
    BY <1>1, <1>4 DEF Instance, CreateCampaign
<1>10. TypeOK'
    BY <1>4, <1>8, <1>9 DEF EscrowInv, TypeOK
<1>11. ReserveExact'
    <2> SUFFICES ASSUME NEW d \in CampaignIds
                 PROVE  /\ campaigns'[d].committed_payouts = SumFunction(Owed(d)')
                        /\ campaigns'[d].committed_payouts <= campaigns'[d].escrow_balance
        BY DEF ReserveExact
    <2>1. Owed(d)' = Owed(d)
        BY <1>4 DEF Owed, Settleable
    <2>2. /\ campaigns[d].committed_payouts = SumFunction(Owed(d))
          /\ campaigns[d].committed_payouts <= campaigns[d].escrow_balance
        BY DEF EscrowInv, ReserveExact
    <2>3. CASE d = c
        BY <1>5, <1>7, <1>8, <2>1, <2>2, <2>3
    <2>4. CASE d # c
        BY <1>8, <2>1, <2>2, <2>4
    <2> QED BY <2>3, <2>4
<1>12. Solvency'
    <2> SUFFICES ASSUME NEW u \in Tokens
                 PROVE  balances'[u][EscrowContract] >= SumFunction(HeldIn(u)')
        BY DEF Solvency
    <2>1. HeldIn(u)' = HeldIn(u)
        BY <1>1, <1>5, <1>7, <1>8 DEF HeldIn
    <2> QED BY <1>4, <2>1 DEF EscrowInv, Solvency
<1>13. SetUpTogether'
    BY <1>1, <1>4 DEF EscrowInv, SetUpTogether, Initialized, Instance
<1>14. IdleHoldsNothing'
    <2> SUFFICES ASSUME NEW d \in CampaignIds
                 PROVE  /\ campaigns'[d].status \in {"None", "Draft", "Completed"}
                                => campaigns'[d].escrow_balance = 0
                        /\ d >= instance'.next_campaign_id =>
                            /\ campaigns'[d] = NoCampaign
                            /\ \A s \in Creators : applications'[<<d, s>>] = NoApplication
        BY DEF IdleHoldsNothing
    <2>1. CASE d = c
        BY <1>5, <1>8, <1>9, <2>1
    <2>2. CASE d # c
        <3>1. d \in Int /\ (d >= c + 1 => d >= c)
            BY <1>9 DEF CampaignIds
        <3> QED BY <1>4, <1>8, <1>9, <2>2, <3>1 DEF EscrowInv, IdleHoldsNothing
    <2> QED BY <2>1, <2>2
<1>15. PendingOwesNothing'
    BY <1>4 DEF EscrowInv, PendingOwesNothing
<1> QED BY <1>10, <1>11, <1>12, <1>13, <1>14, <1>15 DEF EscrowInv

--------------------------------------------------------------------------------
(* The theorems.                                                             *)

LEMMA StepsPreserve == EscrowInv /\ [Next]_vars => EscrowInv'
<1> SUFFICES ASSUME EscrowInv, [Next]_vars PROVE EscrowInv'
    OBVIOUS
<1>1. CASE Governance
    BY <1>1, GovernanceKeeps
<1>2. CASE NewCampaign
    BY <1>2, CreateKeeps DEF NewCampaign
<1>3. ASSUME NEW c \in CampaignIds, CampaignStep(c)
      PROVE  EscrowInv'
    <2>1. ASSUME NEW b \in Businesses, FundCampaign(b, c) PROVE EscrowInv'
        BY <2>1, FundKeeps
    <2>2. ASSUME NEW b \in Businesses, NEW brief \in Briefs, UpdateCampaignMetadata(c, b, brief)
          PROVE  EscrowInv'
        BY <2>2, MetadataKeeps
    <2>3. ASSUME NEW b \in Businesses,
                 CancelCampaign(b, c) \/ ExpireCampaign(b, c) \/ ReclaimSurplus(b, c)
          PROVE  EscrowInv'
        BY <2>3, RefundsKeep
    <2>4. ASSUME NEW a \in Admins, EmergencyRecoverCampaign(a, c) PROVE EscrowInv'
        BY <2>4, RecoverKeeps
    <2> QED BY <1>3, <2>1, <2>2, <2>3, <2>4 DEF CampaignStep
<1>4. ASSUME NEW c \in CampaignIds, NEW r \in Creators, PayoutStep(c, r)
      PROVE  EscrowInv'
    <2>1. CASE ApplyToCampaign(r, c)
        BY <2>1, ApplyKeeps
    <2>2. CASE \E proof \in Proofs : SubmitProof(r, c, proof)
        BY <2>2, SubmitProofKeeps
    <2>3. CASE ClaimPayment(r, c)
        BY <2>3, ClaimKeeps
    <2>4. ASSUME NEW b \in Businesses, NEW amount \in Payouts, ApproveCreator(b, c, r, amount)
          PROVE  EscrowInv'
        BY <2>4, ApproveCreatorKeeps
    <2>5. ASSUME NEW b \in Businesses, ApproveSubmission(b, c, r) PROVE EscrowInv'
        BY <2>5, ApproveSubmissionKeeps
    <2>6. ASSUME NEW b \in Businesses, RejectSubmission(b, c, r) PROVE EscrowInv'
        BY <2>6, RejectSubmissionKeeps
    <2> QED BY <1>4, <2>1, <2>2, <2>3, <2>4, <2>5, <2>6 DEF PayoutStep
<1>5. ASSUME NEW c \in CampaignIds, NEW r \in Creators, FreezeStep(c, r)
      PROVE  EscrowInv'
    BY <1>5, FreezeKeeps DEF FreezeStep
<1>6. ASSUME NEW c \in CampaignIds, NEW r \in Creators, SettleStep(c, r)
      PROVE  EscrowInv'
    BY <1>6, ResolveKeeps DEF SettleStep
<1>7. CASE Tick
    BY <1>7, TickKeeps
<1>8. CASE UNCHANGED vars
    <2>1. /\ instance' \in Instance /\ SetUpTogether' /\ now' \in 0 .. MAX_TIME
          /\ barred' \subseteq Tokens \X Accounts
        BY <1>8 DEF EscrowInv, TypeOK, SetUpTogether, Initialized, vars
    <2> QED BY <1>8, <2>1, AsideKeeps DEF vars
<1>9. CASE TokenStep
    BY <1>9, TokenStepKeeps
<1> QED BY <1>1, <1>2, <1>3, <1>4, <1>5, <1>6, <1>7, <1>8, <1>9 DEF Next

\* The strengthened invariant holds in every reachable state of the contract,
\* for any sets of callers, tokens and arguments and any bounds.
THEOREM EscrowInvariant == Spec => []EscrowInv
    BY InitEstablishes, StepsPreserve, PTL DEF Spec

\* Every figure the contract stores stays in its range: escrow_balance and
\* committed_payouts, which checked_sub on i128 would let go below zero, and the
\* contract's and everybody's token balances, are naturals.
THEOREM TypeCorrect == Spec => []TypeOK
<1>1. EscrowInv => TypeOK
    BY DEF EscrowInv
<1> QED BY <1>1, EscrowInvariant, PTL

\* What approve_creator promises is reserved to the last unit until claim_payment
\* or resolve_dispute has paid it, whatever is refunded in between.
THEOREM ReserveIsExact == Spec => []ReserveExact
<1>1. EscrowInv => ReserveExact
    BY DEF EscrowInv
<1> QED BY <1>1, EscrowInvariant, PTL

\* However many campaigns share a token, the contract's balance of it covers
\* what their books say they hold: no transfer of claim_payment, resolve_dispute
\* or a refund draws on another campaign.
THEOREM ContractIsSolvent == Spec => []Solvency
<1>1. EscrowInv => Solvency
    BY DEF EscrowInv
<1> QED BY <1>1, EscrowInvariant, PTL
================================================================================
