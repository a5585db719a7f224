------------------------- MODULE FeedStatements_proofs -------------------------
(***************************************************************************)
(* The theorem that the published amounts are the money that moved.  The   *)
(* invariant is StatementsMatch itself, beside what the copy and the books *)
(* are known to satisfy: every step either moves and publishes nothing, or *)
(* moves one token between the contract and the accounts that its events   *)
(* name, the rest going to the treasury.                                   *)
(***************************************************************************)
EXTENDS ActivityFeed_proofs

USE SharedAssumption, EscrowAssumption, SystemAssumption, FeedAssumption

Parties == Businesses \cup Creators
Collectors == (Admins \cup Treasuries) \ {EscrowContract}

\* What an account has gained of each token, and what the contract holds of each
\* that no campaign accounts for.
GainIn(a) ==
    [t \in Tokens |-> balances[t][a] - (IF a \in Businesses THEN InitialFunds ELSE 0)]
Gained(a) == SumFunction(GainIn(a))
Gains == [a \in Collectors |-> Gained(a)]
Unbooked(t) == balances[t][EscrowContract] - SumFunction(HeldIn(t))
Surplus == [t \in Tokens |-> Unbooked(t)]

StatementsInv ==
    /\ feed.received \in [Onlookers -> Int] /\ feed.collected \in Int
    /\ \A a \in Parties \ Collectors : Gained(a) = feed.received[a]
    /\ Parties \cap Collectors = {} =>
        SumFunction(Gains) + SumFunction(Surplus) = feed.collected

LEMMA StatementsSay == StatementsInv => StatementsMatch
    BY DEF StatementsInv, StatementsMatch, Gains, Gained, GainIn, Surplus, Unbooked,
           Parties, Collectors

LEMMA WhoLooksOn ==
    /\ Parties \subseteq Onlookers /\ Collectors \subseteq Onlookers
    /\ Onlookers \subseteq Accounts /\ EscrowContract \in Accounts
    /\ IsFiniteSet(Collectors)
<1>1. Collectors \subseteq Admins \cup Treasuries
    BY DEF Collectors
<1>2. IsFiniteSet(Collectors)
    BY <1>1, FS_Subset
<1> QED BY <1>2 DEF Parties, Collectors, Onlookers, Accounts

LEMMA SumsAreIntegers ==
    ASSUME EscrowInv
    PROVE  /\ \A a \in Accounts : GainIn(a) \in [Tokens -> Int] /\ Gained(a) \in Int
           /\ Gains \in [Collectors -> Int] /\ Surplus \in [Tokens -> Int]
           /\ \A t \in Tokens : SumFunction(HeldIn(t)) \in Nat
<1>1. \A t \in Tokens, a \in Accounts : balances[t][a] \in Nat
    BY BalancesAreNaturals DEF Ledgers
<1>2. \A a \in Accounts : GainIn(a) \in [Tokens -> Int]
    BY <1>1 DEF GainIn
<1>3. \A a \in Accounts : Gained(a) \in Int
    BY <1>2, SumInt DEF Gained
<1>4. Gains \in [Collectors -> Int]
    BY <1>3, WhoLooksOn DEF Gains
<1>5. \A t \in Tokens : HeldIn(t) \in [CampaignIds -> Nat]
    BY DEF HeldIn, Campaign, EscrowInv, TypeOK
<1>6. \A t \in Tokens : SumFunction(HeldIn(t)) \in Nat
    BY <1>5, CampaignIdsFinite, SumBound
<1>7. \A t \in Tokens : Unbooked(t) \in Int
    BY <1>1, <1>6, WhoLooksOn DEF Unbooked
<1> QED BY <1>2, <1>3, <1>4, <1>6, <1>7 DEF Surplus

--------------------------------------------------------------------------------
(* A step that moves nothing, and a step that moves one token.               *)

\* An event that tells of no payment.
Silent(f, g) == g.received = f.received /\ g.collected = f.collected

LEMMA NothingStated ==
    ASSUME StatementsInv, balances' = balances, \A t \in Tokens : HeldIn(t)' = HeldIn(t),
           Silent(feed, feed')
    PROVE  StatementsInv'
<1>1. \A a \in Accounts : Gained(a)' = Gained(a)
    BY DEF Gained, GainIn
<1>2. Gains' = Gains
    BY <1>1, WhoLooksOn DEF Gains
<1>3. Surplus' = Surplus
    BY DEF Surplus, Unbooked
<1> QED BY <1>1, <1>2, <1>3, WhoLooksOn DEF StatementsInv, Silent

\* One token moves.  A party gets what is stated of it, the treasury k besides,
\* be it the contract itself, and the contract gives up what its books do.
Movement(token, k) ==
    /\ token \in Tokens /\ k \in Int
    /\ balances' \in Ledgers
    /\ feed'.received \in [Onlookers -> Int] /\ feed'.collected = feed.collected + k
    /\ k # 0 => instance.treasury \in Admins \cup Treasuries
    /\ \A a \in Onlookers \ Parties : feed'.received[a] = feed.received[a]
    /\ \A t \in Tokens, a \in Onlookers :
        balances'[t][a] = balances[t][a] +
            (IF t = token
             THEN (feed'.received[a] - feed.received[a]) + (IF a = instance.treasury THEN k ELSE 0)
             ELSE 0)
    /\ \A t \in Tokens :
        Unbooked(t)' = Unbooked(t) +
            (IF t = token /\ instance.treasury = EscrowContract THEN k ELSE 0)

LEMMA GainedMoves ==
    ASSUME EscrowInv, feed.received \in [Onlookers -> Int],
           NEW token, NEW k, Movement(token, k), NEW a \in Onlookers
    PROVE  Gained(a)' = Gained(a) + ((feed'.received[a] - feed.received[a])
                                     + (IF a = instance.treasury THEN k ELSE 0))
<1> DEFINE d == (feed'.received[a] - feed.received[a]) + (IF a = instance.treasury THEN k ELSE 0)
           f == GainIn(a)
           g == GainIn(a)'
<1>1. a \in Accounts /\ f \in [Tokens -> Int]
    BY WhoLooksOn, SumsAreIntegers
<1>2. d \in Int /\ token \in Tokens /\ balances' \in Ledgers
    BY DEF Movement
<1>3. \A t \in Tokens : balances[t][a] \in Nat /\ balances'[t][a] \in Nat
    BY <1>1, <1>2, BalancesAreNaturals DEF Ledgers
<1>4. g \in [Tokens -> Int]
    BY <1>3 DEF GainIn
<1>5. \A t \in Tokens : balances'[t][a] = balances[t][a] + (IF t = token THEN d ELSE 0)
    BY DEF Movement
<1> HIDE DEF d
<1>6. \A t \in Tokens : g[t] = f[t] + (IF t = token THEN d ELSE 0)
    BY <1>2, <1>3, <1>5 DEF GainIn
<1> HIDE DEF f, g
<1>7. SumFunction(g) = SumFunction(f) - f[token] + g[token]
    <2>1. \A t \in Tokens \ {token} : g[t] = f[t]
        BY <1>1, <1>6
    <2> QED BY <1>1, <1>2, <1>4, <2>1, SumUpdate
<1>8. SumFunction(f) \in Int
    BY <1>1, SumInt
<1>9. SumFunction(g) = SumFunction(f) + d
    <2>1. g[token] = f[token] + d /\ f[token] \in Int
        BY <1>1, <1>2, <1>6
    <2> QED BY <1>2, <1>7, <1>8, <2>1
<1> QED BY <1>9 DEF Gained, d, f, g

LEMMA SurplusMoves ==
    ASSUME EscrowInv, NEW token, NEW k, Movement(token, k)
    PROVE  SumFunction(Surplus)' = SumFunction(Surplus)
                + (IF instance.treasury = EscrowContract THEN k ELSE 0)
<1> DEFINE f == Surplus
           g == Surplus'
           d == IF instance.treasury = EscrowContract THEN k ELSE 0
<1>1. f \in [Tokens -> Int] /\ d \in Int /\ token \in Tokens
    BY SumsAreIntegers DEF Movement
<1>2. \A t \in Tokens : g[t] = f[t] + (IF t = token THEN d ELSE 0)
    <2>1. \A t \in Tokens : f[t] = Unbooked(t) /\ g[t] = Unbooked(t)' /\ f[t] \in Int
        BY <1>1 DEF Surplus
    <2>2. \A t \in Tokens : Unbooked(t)' = Unbooked(t) +
            (IF t = token /\ instance.treasury = EscrowContract THEN k ELSE 0)
        BY DEF Movement
    <2> QED BY <2>1, <2>2
<1>3. g = [t \in Tokens |-> g[t]]
    BY DEF Surplus
<1> HIDE DEF f, g, d
<1>4. g \in [Tokens -> Int]
    <2>1. \A t \in Tokens : g[t] \in Int
        BY <1>1, <1>2
    <2> QED BY <1>3, <2>1
<1>5. SumFunction(g) = SumFunction(f) - f[token] + g[token]
    <2>1. \A t \in Tokens \ {token} : g[t] = f[t]
        BY <1>1, <1>2
    <2> QED BY <1>1, <1>4, <2>1, SumUpdate
<1>6. SumFunction(f) \in Int
    BY <1>1, SumInt
<1>7. SumFunction(g) = SumFunction(f) + d
    <2>1. g[token] = f[token] + d /\ f[token] \in Int
        BY <1>1, <1>2
    <2> QED BY <1>1, <1>5, <1>6, <2>1
<1> QED BY <1>7 DEF f, g, d

\* What the treasury collects is all that the collectors gain.
LEMMA CollectorsGain ==
    ASSUME EscrowInv, feed.received \in [Onlookers -> Int], Parties \cap Collectors = {},
           NEW token, NEW k, Movement(token, k)
    PROVE  SumFunction(Gains)' = SumFunction(Gains)
                + (IF instance.treasury = EscrowContract THEN 0 ELSE k)
<1> DEFINE f == Gains
           g == Gains'
           x == instance.treasury
<1>1. f \in [Collectors -> Int] /\ k \in Int
    BY SumsAreIntegers DEF Movement
<1>2. \A a \in Collectors : g[a] = f[a] + (IF a = x THEN k ELSE 0)
    <2> SUFFICES ASSUME NEW a \in Collectors
                 PROVE  g[a] = f[a] + (IF a = x THEN k ELSE 0)
        OBVIOUS
    <2>1. a \in Onlookers /\ a \notin Parties
        BY WhoLooksOn
    <2>2. feed'.received[a] = feed.received[a] /\ feed.received[a] \in Int
        BY <2>1 DEF Movement
    <2>3. Gained(a)' = Gained(a) + ((feed'.received[a] - feed.received[a])
                                    + (IF a = x THEN k ELSE 0))
        BY <2>1, GainedMoves
    <2>4. f[a] = Gained(a) /\ g[a] = Gained(a)' /\ f[a] \in Int
        BY <1>1 DEF Gains
    <2> QED BY <1>1, <2>2, <2>3, <2>4
<1>3. g = [a \in Collectors |-> g[a]]
    BY DEF Gains
<1>4. k # 0 => x \in Collectors \cup {EscrowContract}
    BY DEF Movement, Collectors
<1>5. EscrowContract \notin Collectors
    BY DEF Collectors
<1> HIDE DEF f, g, x
<1>6. g \in [Collectors -> Int]
    <2>1. \A a \in Collectors : g[a] \in Int
        BY <1>1, <1>2
    <2> QED BY <1>3, <2>1
<1>7. SumFunction(f) \in Int
    BY <1>1, WhoLooksOn, SumInt
<1>8. CASE x \in Collectors
    <2>1. \A a \in Collectors \ {x} : g[a] = f[a]
        BY <1>1, <1>2
    <2>2. SumFunction(g) = SumFunction(f) - f[x] + g[x]
        BY <1>1, <1>6, <1>8, <2>1, WhoLooksOn, SumUpdate
    <2>3. g[x] = f[x] + k /\ f[x] \in Int
        BY <1>1, <1>2, <1>8
    <2>4. SumFunction(g) = SumFunction(f) + k
        BY <1>1, <1>7, <2>2, <2>3
    <2> QED BY <1>5, <1>8, <2>4 DEF f, g, x
<1>9. CASE x \notin Collectors
    <2>1. g = f
        <3>1. \A a \in Collectors : g[a] = f[a]
            BY <1>1, <1>2, <1>9
        <3> QED BY <1>1, <1>3, <3>1
    <2>2. (IF x = EscrowContract THEN 0 ELSE k) = 0
        BY <1>4, <1>9
    <2> QED BY <1>7, <2>1, <2>2 DEF f, g, x
<1> QED BY <1>8, <1>9

\* Whatever is moved this way, the statements still match.
LEMMA MovementMatches ==
    ASSUME EscrowInv, StatementsInv, NEW token, NEW k, Movement(token, k)
    PROVE  StatementsInv'
<1>1. /\ feed.received \in [Onlookers -> Int] /\ feed.collected \in Int /\ k \in Int
      /\ feed'.received \in [Onlookers -> Int] /\ feed'.collected = feed.collected + k
    BY DEF StatementsInv, Movement
<1>2. ASSUME NEW a \in Parties \ Collectors
      PROVE  Gained(a)' = feed'.received[a]
    <2>1. a \in Onlookers /\ Gained(a) = feed.received[a]
        BY WhoLooksOn DEF StatementsInv
    <2>2. k # 0 => a # instance.treasury
        BY <2>1 DEF Movement, Onlookers, Collectors
    <2>3. Gained(a)' = Gained(a) + ((feed'.received[a] - feed.received[a])
                                    + (IF a = instance.treasury THEN k ELSE 0))
        BY <1>1, <2>1, GainedMoves
    <2>4. feed.received[a] \in Int /\ feed'.received[a] \in Int
        BY <1>1, <2>1
    <2> QED BY <1>1, <2>1, <2>2, <2>3, <2>4
<1>3. ASSUME Parties \cap Collectors = {}
      PROVE  SumFunction(Gains)' + SumFunction(Surplus)' = feed'.collected
    <2>1. /\ SumFunction(Gains)' = SumFunction(Gains)
                + (IF instance.treasury = EscrowContract THEN 0 ELSE k)
          /\ SumFunction(Surplus)' = SumFunction(Surplus)
                + (IF instance.treasury = EscrowContract THEN k ELSE 0)
        BY <1>1, <1>3, CollectorsGain, SurplusMoves
    <2>2. SumFunction(Gains) + SumFunction(Surplus) = feed.collected
        BY <1>3 DEF StatementsInv
    <2>3. SumFunction(Gains) \in Int /\ SumFunction(Surplus) \in Int
        BY SumsAreIntegers, WhoLooksOn, SumInt
    <2> QED BY <1>1, <2>1, <2>2, <2>3
<1> QED BY <1>1, <1>2, <1>3 DEF StatementsInv

--------------------------------------------------------------------------------
(* What the events state.                                                    *)

LEMMA SilentEvents ==
    ASSUME NEW f, Shape(f), NEW c, NEW r, NEW x, NEW y
    PROVE  /\ Silent(f, f)
           /\ Silent(f, CampaignCreated(f, x, c)) /\ Silent(f, CampaignMetadataUpdated(f, c, x))
           /\ Silent(f, CreatorApplied(f, c, r)) /\ Silent(f, CreatorApproved(f, c, r, x))
           /\ Silent(f, ProofSubmitted(f, c, r)) /\ Silent(f, SubmissionRejected(f, c, r))
           /\ Silent(f, DisputeFrozen(f, c, r))
           /\ Silent(f, DisputeRaised(f, x, y)) /\ Silent(f, ArbiterAssigned(f, x, y))
           /\ Silent(f, DisputeClosed(f, x))
<1>1. Silent(f, f)
    BY DEF Silent
<1>2. Silent(f, CampaignCreated(f, x, c)) /\ Silent(f, CampaignMetadataUpdated(f, c, x))
    BY DEF Silent, CampaignCreated, CampaignMetadataUpdated, Shape, Copied
<1>3. Silent(f, CreatorApplied(f, c, r)) /\ Silent(f, CreatorApproved(f, c, r, x))
    BY DEF Silent, CreatorApplied, CreatorApproved, Shape, Copied
<1>4. Silent(f, ProofSubmitted(f, c, r)) /\ Silent(f, SubmissionRejected(f, c, r))
    BY DEF Silent, ProofSubmitted, SubmissionRejected, Shape, Copied
<1>5. Silent(f, DisputeFrozen(f, c, r))
    BY DEF Silent, DisputeFrozen, Shape, Copied
<1>6. Silent(f, DisputeRaised(f, x, y)) /\ Silent(f, ArbiterAssigned(f, x, y))
    BY DEF Silent, DisputeRaised, ArbiterAssigned, Shape, Copied
<1>7. Silent(f, DisputeClosed(f, x))
    BY DEF Silent, DisputeClosed, Shape, Copied
<1> QED BY <1>1, <1>2, <1>3, <1>4, <1>5, <1>6, <1>7

LEMMA SilentSettings ==
    ASSUME NEW f, Shape(f), NEW x, NEW y
    PROVE  /\ Silent(f, Deployed(f, x, y)) /\ Silent(f, ContractPaused(f))
           /\ Silent(f, ContractUnpaused(f)) /\ Silent(f, AdminProposed(f, x))
           /\ Silent(f, AdminTransferred(f, x)) /\ Silent(f, FeeUpdated(f, x))
           /\ Silent(f, TreasuryUpdated(f, x))
    BY DEF Silent, Deployed, ContractPaused, ContractUnpaused, AdminProposed, AdminTransferred,
           FeeUpdated, TreasuryUpdated, Shape, Copied

LEMMA StatedByFunding ==
    ASSUME NEW f, Shape(f), NEW c, NEW b, f.campaigns[c].business = b, NEW amount
    PROVE  LET g == CampaignFunded(f, c, amount) IN
           /\ g.received = [f.received EXCEPT ![b] = @ - amount]
           /\ g.collected = f.collected
    BY DEF CampaignFunded, Shape, Copied

LEMMA StatedBySweeps ==
    ASSUME NEW f, Shape(f), NEW c, NEW amount
    PROVE  LET b == f.campaigns[c].business IN
           /\ \A g \in {CampaignCancelled(f, c, amount), SurplusReclaimed(f, c, amount)} :
                g.received = Credited(f.received, b, amount) /\ g.collected = f.collected
           /\ LET g == EmergencyRecovery(f, c, amount) IN
                g.received = f.received /\ g.collected = f.collected + amount
<1>1. LET g == CampaignCancelled(f, c, amount) IN
      /\ g.received = Credited(f.received, f.campaigns[c].business, amount)
      /\ g.collected = f.collected
    BY DEF CampaignCancelled, Credited, Shape, Copied
<1>2. LET g == SurplusReclaimed(f, c, amount) IN
      /\ g.received = Credited(f.received, f.campaigns[c].business, amount)
      /\ g.collected = f.collected
    BY DEF SurplusReclaimed, Credited, Shape, Copied
<1>3. LET g == EmergencyRecovery(f, c, amount) IN
      g.received = f.received /\ g.collected = f.collected + amount
    BY DEF EmergencyRecovery, Shape, Copied
<1> QED BY <1>1, <1>2, <1>3

LEMMA StatedByPayment ==
    ASSUME NEW f, Shape(f), NEW c, NEW r, NEW net, NEW rest
    PROVE  LET g == PaidOut(f, c, r, net, rest) IN
           /\ g.received = Credited(Credited(f.received, r, net), f.campaigns[c].business, rest)
           /\ g.collected = f.collected + (f.payouts[<<c, r>>].amount - net - rest)
    BY DEF PaidOut, Shape, Copied

\* A credit to one party.
LEMMA CreditedIs ==
    ASSUME NEW received \in [Onlookers -> Int], NEW party \in Parties, NEW amount \in Int
    PROVE  /\ Credited(received, party, amount) \in [Onlookers -> Int]
           /\ \A a \in Onlookers : Credited(received, party, amount)[a] =
                received[a] + (IF a = party THEN amount ELSE 0)
    BY WhoLooksOn DEF Credited

--------------------------------------------------------------------------------
(* The books of a step that moves money.                                     *)

LEMMA UnbookedMoves ==
    ASSUME EscrowInv, NEW c \in CampaignIds, Books(c), NEW k \in Int,
           campaigns[c].token \in Tokens,
           \A t \in Tokens : balances'[t][EscrowContract] = balances[t][EscrowContract] +
                (IF t = campaigns[c].token
                 THEN campaigns'[c].escrow_balance - campaigns[c].escrow_balance + k ELSE 0)
    PROVE  \A t \in Tokens :
                Unbooked(t)' = Unbooked(t) + (IF t = campaigns[c].token THEN k ELSE 0)
<1> SUFFICES ASSUME NEW t \in Tokens
             PROVE  Unbooked(t)' = Unbooked(t) + (IF t = campaigns[c].token THEN k ELSE 0)
    OBVIOUS
<1>1. /\ SumFunction(HeldIn(t)) \in Nat /\ SumFunction(HeldIn(t)') \in Nat
      /\ SumFunction(HeldIn(t)') = SumFunction(HeldIn(t)) +
                (IF t = campaigns[c].token
                 THEN campaigns'[c].escrow_balance - campaigns[c].escrow_balance ELSE 0)
    BY HeldAfter
<1>2. balances[t][EscrowContract] \in Nat
    BY BalancesAreNaturals
<1>3. campaigns[c].escrow_balance \in Nat /\ campaigns'[c].escrow_balance \in Nat
    BY CampaignFacts DEF Books, Campaign
<1> HIDE DEF HeldIn
<1> QED BY <1>1, <1>2, <1>3 DEF Unbooked

\* A payout of which fee goes to the treasury, net to the creator and the rest to
\* the business.
LEMMA PaymentMoves ==
    ASSUME MoneyInv, StatementsInv, NEW c \in CampaignIds, NEW r \in Creators,
           NEW fee \in Nat, NEW net \in Nat, NEW rest \in Nat, NEW mid1, NEW mid2,
           campaigns[c].token \in Tokens, campaigns[c].business \in Businesses,
           instance.treasury \in Admins \cup Treasuries,
           ~Paid(<<c, r>>), applications[<<c, r>>].payout_amount = fee + net + rest,
           campaigns' = [campaigns EXCEPT
                            ![c] = Settled(campaigns[c], applications[<<c, r>>].payout_amount)],
           PaidFrom(balances, mid1, campaigns[c].token, instance.treasury, fee),
           PaidFrom(mid1, mid2, campaigns[c].token, r, net),
           PaidFrom(mid2, balances', campaigns[c].token, campaigns[c].business, rest),
           feed'.received =
                Credited(Credited(feed.received, r, net), campaigns[c].business, rest),
           feed'.collected = feed.collected + fee
    PROVE  StatementsInv'
<1> DEFINE camp == campaigns[c]
           token == camp.token
           b == camp.business
           amount == applications[<<c, r>>].payout_amount
<1>1. /\ EscrowInv /\ amount \in Nat /\ amount <= camp.committed_payouts
      /\ campaigns \in [CampaignIds -> Campaign] /\ camp \in Campaign
      /\ camp.escrow_balance \in Nat /\ camp.committed_payouts <= camp.escrow_balance
    BY UnpaidIsReserved, CampaignFacts DEF MoneyInv, TermsInv, LifeInv, EscrowInv, TypeOK, Paid
<1>2. /\ campaigns'[c] \in Campaign /\ campaigns'[c].token = camp.token
      /\ campaigns'[c].escrow_balance = camp.escrow_balance - amount
    <2>1. campaigns'[c] = Settled(camp, amount)
        BY <1>1
    <2> QED BY <1>1, <2>1, SettledBooks
<1>3. Books(c)
    BY <1>1, <1>2 DEF Books
<1>4. r \in Parties /\ b \in Parties /\ feed.received \in [Onlookers -> Int]
    BY DEF Parties, StatementsInv
<1> DEFINE first == Credited(feed.received, r, net)
<1>5. /\ first \in [Onlookers -> Int]
      /\ \A a \in Onlookers : first[a] = feed.received[a] + (IF a = r THEN net ELSE 0)
    BY <1>4, CreditedIs
<1> HIDE DEF first
<1>6. /\ feed'.received \in [Onlookers -> Int]
      /\ \A a \in Onlookers : feed'.received[a] = first[a] + (IF a = b THEN rest ELSE 0)
    <2> DEFINE second == Credited(first, b, rest)
    <2>1. feed'.received = second
        BY DEF first
    <2> HIDE DEF b
    <2>2. /\ second \in [Onlookers -> Int]
          /\ \A a \in Onlookers : second[a] = first[a] + (IF a = b THEN rest ELSE 0)
        BY <1>4, <1>5, CreditedIs
    <2> QED BY <2>1, <2>2
<1>7. \A a \in Onlookers :
        /\ feed.received[a] \in Int /\ feed'.received[a] \in Int
        /\ feed'.received[a] - feed.received[a] =
                (IF a = r THEN net ELSE 0) + (IF a = b THEN rest ELSE 0)
    <2> DEFINE before == feed.received
               after == feed'.received
    <2>1. before \in [Onlookers -> Int]
        BY <1>4
    <2> HIDE DEF before, after, b
    <2>2. /\ \A a \in Onlookers : first[a] = before[a] + (IF a = r THEN net ELSE 0)
          /\ \A a \in Onlookers : after[a] = first[a] + (IF a = b THEN rest ELSE 0)
          /\ after \in [Onlookers -> Int]
        BY <1>5, <1>6 DEF before, after
    <2>3. \A a \in Onlookers :
            /\ before[a] \in Int /\ after[a] \in Int
            /\ after[a] - before[a] = (IF a = r THEN net ELSE 0) + (IF a = b THEN rest ELSE 0)
        BY <2>1, <2>2
    <2> QED BY <2>3 DEF before, after
<1>8. \A a \in Onlookers \ Parties : feed'.received[a] = feed.received[a]
    BY <1>4, <1>5, <1>6
<1> DEFINE x == instance.treasury
           E == EscrowContract
<1>9. \A t \in Tokens, a \in Accounts :
        /\ balances[t][a] \in Nat /\ balances'[t][a] \in Nat
        /\ balances'[t][a] = balances[t][a] +
            (IF t = token
             THEN (IF a = x THEN fee ELSE 0) + (IF a = r THEN net ELSE 0)
                  + (IF a = b THEN rest ELSE 0) - (IF a = E THEN amount ELSE 0)
             ELSE 0)
    <2> SUFFICES ASSUME NEW t \in Tokens, NEW a \in Accounts
                 PROVE  /\ balances[t][a] \in Nat /\ balances'[t][a] \in Nat
                        /\ balances'[t][a] = balances[t][a] +
                            (IF t = token
                             THEN (IF a = x THEN fee ELSE 0) + (IF a = r THEN net ELSE 0)
                                  + (IF a = b THEN rest ELSE 0) - (IF a = E THEN amount ELSE 0)
                             ELSE 0)
        OBVIOUS
    <2>1. /\ balances[t][a] \in Nat /\ mid1[t][a] \in Nat /\ mid2[t][a] \in Nat
          /\ balances'[t][a] \in Nat
        BY <1>1, BalancesAreNaturals DEF PaidFrom, Ledgers
    <2> HIDE DEF token, b, x, E, amount
    <2>2. /\ mid1[t][a] = balances[t][a] + (IF t = token /\ a = x THEN fee ELSE 0)
                                         - (IF t = token /\ a = E THEN fee ELSE 0)
          /\ mid2[t][a] = mid1[t][a] + (IF t = token /\ a = r THEN net ELSE 0)
                                     - (IF t = token /\ a = E THEN net ELSE 0)
          /\ balances'[t][a] = mid2[t][a] + (IF t = token /\ a = b THEN rest ELSE 0)
                                          - (IF t = token /\ a = E THEN rest ELSE 0)
        BY DEF PaidFrom, token, b, x, E
    <2>3. amount = fee + net + rest
        BY DEF amount
    <2> QED BY <2>1, <2>2, <2>3
<1>10. r # E /\ b # E /\ E \in Accounts /\ Onlookers \subseteq Accounts /\ E \notin Onlookers
    BY WhoLooksOn DEF Onlookers
<1>11. \A t \in Tokens : balances'[t][E] = balances[t][E] +
            (IF t = token
             THEN campaigns'[c].escrow_balance - camp.escrow_balance + (IF x = E THEN fee ELSE 0)
             ELSE 0)
    <2> HIDE DEF token, b, x, E, amount, camp
    <2> QED BY <1>1, <1>2, <1>9, <1>10 DEF camp
<1>12. \A t \in Tokens : Unbooked(t)' = Unbooked(t) +
            (IF t = token /\ x = E THEN fee ELSE 0)
    BY <1>1, <1>3, <1>11, UnbookedMoves
<1>13. \A t \in Tokens, a \in Onlookers : balances'[t][a] = balances[t][a] +
            (IF t = token
             THEN (feed'.received[a] - feed.received[a]) + (IF a = x THEN fee ELSE 0) ELSE 0)
    <2> HIDE DEF token, b, x, E, amount
    <2> QED BY <1>1, <1>7, <1>9, <1>10
<1>14. Movement(token, fee)
    BY <1>6, <1>8, <1>12, <1>13 DEF Movement, PaidFrom
<1> QED BY <1>1, <1>14, MovementMatches

\* A claim is stated as its net; a settlement as its net and what goes back.
LEMMA ClaimMatches ==
    ASSUME OpenInv, Reconciled, StatementsInv, NEW c \in CampaignIds, NEW r \in Creators,
           ClaimPayment(r, c),
           Publish(PaymentReleased(feed, c, r,
                    CreatorNet(applications[<<c, r>>].payout_amount, campaigns[c])))
    PROVE  StatementsInv'
<1> DEFINE camp == campaigns[c]
           amount == applications[<<c, r>>].payout_amount
           fee == Share(amount, camp.fee_bps)
           net == amount - fee
<1>1. MoneyInv /\ Shape(feed) /\ <<c, r>> \in ApplicationKeys
    BY DEF OpenInv, Reconciled, ApplicationKeys
<1>2. /\ camp.token \in Tokens /\ amount \in Nat /\ fee \in 0 .. amount
      /\ \E mid : /\ PaidFrom(balances, mid, camp.token, instance.treasury, fee)
                  /\ PaidFrom(mid, balances', camp.token, r, net)
    BY <1>1, ClaimPays
<1>3. applications[<<c, r>>].status = "ProofSubmitted" /\ ~Paid(<<c, r>>)
    BY DEF ClaimPayment, MayClaim, Paid
<1>4. camp.business \in Businesses /\ camp.status # "None"
    BY <1>1, <1>3, PartiesFacts DEF MoneyInv, TermsInv, ApplicantsOf, StatusOf
<1>5. instance.treasury \in Admins \cup Treasuries
    BY <1>4, AdminOfCampaign
<1>6. /\ feed.campaigns[c].business = camp.business
      /\ feed.payouts[<<c, r>>].amount = amount
    BY <1>1 DEF Reconciled, CampaignsMatch, CampaignMatches, PayoutsMatch, PayoutMatches
<1>7. feed' = PaidOut(feed, c, r, net, 0)
    BY DEF Publish, PaymentReleased, CreatorNet, AgreedFee
<1>8. campaigns' = [campaigns EXCEPT ![c] = Settled(camp, amount)]
    BY DEF ClaimPayment
<1> HIDE DEF fee, net
<1>9. net \in Nat /\ fee \in Nat /\ amount = fee + net + 0 /\ amount - net - 0 = fee
    BY <1>2 DEF net
<1>10. /\ feed'.received = Credited(Credited(feed.received, r, net), camp.business, 0)
       /\ feed'.collected = feed.collected + fee
    BY <1>1, <1>6, <1>7, <1>9, StatedByPayment
<1>11. PICK mid : /\ PaidFrom(balances, mid, camp.token, instance.treasury, fee)
                  /\ PaidFrom(mid, balances', camp.token, r, net)
    BY <1>2
<1>12. PaidFrom(balances', balances', camp.token, camp.business, 0)
    BY <1>11 DEF PaidFrom, Ledgers
<1> QED BY <1>1, <1>2, <1>3, <1>4, <1>5, <1>8, <1>9, <1>10, <1>11, <1>12, PaymentMoves

\* Closing a record, whoever asked for it, tells of no money.
LEMMA ClosingIsSilent ==
    ASSUME SystemInv, Reconciled, NEW c \in CampaignIds, NEW r \in Creators, NEW res,
           \/ UNCHANGED disputeVars
           \/ \E caller : Disputes!CloseDispute(caller, <<c, r>>, Outcome(res))
    PROVE  LET closed == FeedOfClose(c, r) IN
           /\ Shape(closed) /\ Silent(feed, closed)
           /\ closed.campaigns = feed.campaigns /\ closed.payouts = feed.payouts
<1> DEFINE id == open_disputes[<<c, r>>]
           closed == FeedOfClose(c, r)
<1>1. Shape(feed) /\ id \in DisputeIds \cup {Null}
    BY DEF SystemInv, FilingInv, DisputeTypes, Reconciled, ApplicationKeys
<1>2. CASE closed = feed
    BY <1>1, <1>2 DEF Silent
<1>3. CASE closed # feed
    <2>1. open_disputes'[<<c, r>>] # id /\ closed = DisputeClosed(feed, id)
        BY <1>3 DEF FeedOfClose
    <2>2. id # Null
        BY <2>1 DEF Disputes!CloseDispute, disputeVars
    <2> HIDE DEF id, closed
    <2>3. OnlyDispute(feed, closed, id)
        BY <1>1, <2>1, <2>2, ClosedEntry
    <2> QED BY <1>1, <2>1, <2>3, SilentEvents DEF OnlyDispute, closed
<1> QED BY <1>2, <1>3

\* The arithmetic of a settlement: fee, net and rest make up the payout.
LEMMA ThreeParts ==
    ASSUME NEW amount \in Nat, NEW gross \in 0 .. amount, NEW fee \in 0 .. gross
    PROVE  LET net == gross - fee
               rest == amount - gross
           IN  /\ net \in Nat /\ fee \in Nat /\ rest \in Nat
               /\ amount = fee + net + rest /\ amount - net - rest = fee
    OBVIOUS

LEMMA SettlementStated ==
    ASSUME OpenInv, SystemInv, Reconciled, StatementsInv, NEW c \in CampaignIds, NEW r \in Creators,
           NEW a \in Admins, NEW res \in Resolutions, FeedSettleDispute(a, c, r, res)
    PROVE  StatementsInv'
<1> DEFINE camp == campaigns[c]
           amount == applications[<<c, r>>].payout_amount
           gross == CreatorGross(amount, res)
           fee == Share(gross, camp.fee_bps)
           net == gross - fee
           rest == amount - gross
           closed == FeedOfClose(c, r)
<1>1. /\ MoneyInv /\ <<c, r>> \in ApplicationKeys
      /\ SettleDispute(a, c, r, res) /\ ResolveDispute(a, c, r, res)
    BY DEF OpenInv, ApplicationKeys, FeedSettleDispute, SettleDispute
<1>2. /\ camp.token \in Tokens /\ camp.business \in Businesses
      /\ amount \in Nat /\ gross \in 0 .. amount /\ fee \in 0 .. gross
      /\ \E mid1, mid2 :
            /\ PaidFrom(balances, mid1, camp.token, instance.treasury, fee)
            /\ PaidFrom(mid1, mid2, camp.token, r, net)
            /\ PaidFrom(mid2, balances', camp.token, camp.business, rest)
    BY <1>1, ResolvePays
<1>3. ~Paid(<<c, r>>) /\ campaigns' = [campaigns EXCEPT ![c] = Settled(camp, amount)]
    BY <1>1 DEF ResolveDispute, MayResolve, Settleable, Paid
<1>4. instance.treasury \in Admins \cup Treasuries
    <2>1. camp.status # "None"
        BY <1>1, <1>2 DEF MoneyInv, PartiesOf, Accounts
    <2> QED BY <2>1, AdminOfCampaign
<1>5. feed' = PaidOut(closed, c, r, net, rest)
    BY DEF FeedSettleDispute, Publish, DisputeResolved, CreatorNet, AgreedFee, BusinessAmount
<1>6. /\ Shape(closed) /\ Silent(feed, closed)
      /\ closed.campaigns = feed.campaigns /\ closed.payouts = feed.payouts
    <2>1. \/ UNCHANGED disputeVars
          \/ \E caller : Disputes!CloseDispute(caller, <<c, r>>, Outcome(res))
        BY <1>1 DEF SettleDispute, TryCloseDispute
    <2> QED BY <2>1, ClosingIsSilent
<1> HIDE DEF closed, fee, gross, amount
<1>7. /\ net \in Nat /\ fee \in Nat /\ rest \in Nat
      /\ amount = fee + net + rest /\ amount - net - rest = fee
    <2>1. amount \in Nat /\ gross \in 0 .. amount /\ fee \in 0 .. gross
        BY <1>2
    <2> QED BY <2>1, ThreeParts
<1> USE DEF amount
<1>8. /\ closed.campaigns[c].business = camp.business
      /\ closed.payouts[<<c, r>>].amount = amount
    BY <1>1, <1>6 DEF Reconciled, CampaignsMatch, CampaignMatches, PayoutsMatch, PayoutMatches
<1> HIDE DEF net, rest
<1>9. /\ feed'.received = Credited(Credited(feed.received, r, net), camp.business, rest)
      /\ feed'.collected = feed.collected + fee
    BY <1>5, <1>6, <1>7, <1>8, StatedByPayment DEF Silent
<1>10. PICK mid1, mid2 :
            /\ PaidFrom(balances, mid1, camp.token, instance.treasury, fee)
            /\ PaidFrom(mid1, mid2, camp.token, r, net)
            /\ PaidFrom(mid2, balances', camp.token, camp.business, rest)
    BY <1>2
<1> QED BY <1>1, <1>2, <1>3, <1>4, <1>7, <1>9, <1>10, PaymentMoves

\* What a sweep takes from the books it pays, to the business or to the treasury.
LEMMA SweepMoves ==
    ASSUME MoneyInv, NEW c \in CampaignIds, NEW to, NEW status \in CampaignStatus,
           Sweep(c, to, status), campaigns[c].status # "None" \/ campaigns[c].business \in Businesses
    PROVE  LET free == Swept(c) IN
           /\ campaigns[c].token \in Tokens /\ campaigns[c].business \in Businesses /\ free \in Nat
           /\ balances' \in Ledgers
           /\ \A t \in Tokens, a \in Onlookers : balances'[t][a] = balances[t][a] +
                (IF t = campaigns[c].token THEN IF a = to THEN free ELSE 0 ELSE 0)
           /\ \A t \in Tokens : Unbooked(t)' = Unbooked(t) +
                (IF t = campaigns[c].token THEN IF to = EscrowContract THEN free ELSE 0 ELSE 0)
<1> DEFINE camp == campaigns[c]
           free == Swept(c)
           token == camp.token
<1>1. /\ EscrowInv /\ campaigns \in [CampaignIds -> Campaign] /\ camp \in Campaign
      /\ camp.escrow_balance \in Nat /\ camp.committed_payouts \in Nat
    BY CampaignFacts DEF MoneyInv, TermsInv, LifeInv, EscrowInv, TypeOK
<1>2. /\ token \in Tokens /\ camp.business \in Businesses /\ free \in Nat
      /\ PaidFrom(balances, balances', token, to, free)
    BY SweepPays DEF Swept, Unallocated
<1>3. campaigns'[c] = [camp EXCEPT !.escrow_balance = camp.committed_payouts, !.status = status]
    BY <1>1 DEF Sweep
<1>4. /\ campaigns'[c] \in Campaign /\ campaigns'[c].token = token
      /\ campaigns'[c].escrow_balance = camp.committed_payouts
      /\ campaigns' = [campaigns EXCEPT ![c] = campaigns'[c]]
    BY <1>1, <1>3 DEF Campaign, Sweep
<1>5. Books(c)
    BY <1>1, <1>4 DEF Books
<1>6. free = camp.escrow_balance - camp.committed_payouts
    BY DEF Swept, Unallocated
<1> HIDE DEF free, token, camp
<1>7. \A t \in Tokens, a \in Accounts : balances[t][a] \in Nat
    BY <1>1, BalancesAreNaturals DEF Ledgers
<1>8. EscrowContract \in Accounts /\ Onlookers \subseteq Accounts /\ EscrowContract \notin Onlookers
    BY WhoLooksOn DEF Onlookers
<1>9. \A t \in Tokens, a \in Onlookers : balances'[t][a] = balances[t][a] +
        (IF t = token THEN IF a = to THEN free ELSE 0 ELSE 0)
    BY <1>2, <1>7, <1>8 DEF PaidFrom
<1> DEFINE k == IF to = EscrowContract THEN free ELSE 0
<1>10. \A t \in Tokens : balances'[t][EscrowContract] = balances[t][EscrowContract] +
        (IF t = token THEN campaigns'[c].escrow_balance - camp.escrow_balance + k ELSE 0)
    BY <1>1, <1>2, <1>4, <1>6, <1>7, <1>8 DEF PaidFrom
<1>11. k \in Int
    BY <1>2
<1> HIDE DEF k
<1>12. \A t \in Tokens : Unbooked(t)' = Unbooked(t) + (IF t = token THEN k ELSE 0)
    BY <1>1, <1>2, <1>5, <1>10, <1>11, UnbookedMoves DEF token, camp
<1> QED BY <1>2, <1>9, <1>12 DEF PaidFrom, k, token, camp, free

LEMMA RefundMatches ==
    ASSUME MoneyInv, Reconciled, StatementsInv, NEW c \in CampaignIds, NEW b \in Businesses,
           campaigns[c].business = b, NEW status \in CampaignStatus, Sweep(c, b, status),
           \/ Publish(CampaignCancelled(feed, c, Swept(c)))
           \/ Publish(SurplusReclaimed(feed, c, Swept(c)))
    PROVE  StatementsInv'
<1> DEFINE free == Swept(c)
           token == campaigns[c].token
<1>1. /\ token \in Tokens /\ free \in Nat /\ balances' \in Ledgers
      /\ \A t \in Tokens, a \in Onlookers : balances'[t][a] = balances[t][a] +
            (IF t = token THEN IF a = b THEN free ELSE 0 ELSE 0)
      /\ \A t \in Tokens : Unbooked(t)' = Unbooked(t) +
            (IF t = token THEN IF b = EscrowContract THEN free ELSE 0 ELSE 0)
    BY SweepMoves
<1>2. EscrowInv /\ Shape(feed) /\ feed.campaigns[c].business = b
    BY DEF MoneyInv, TermsInv, LifeInv, Reconciled, CampaignsMatch, CampaignMatches
<1>3. /\ feed'.received = Credited(feed.received, b, free)
      /\ feed'.collected = feed.collected
    BY <1>2, StatedBySweeps DEF Publish
<1> HIDE DEF free, token
<1>4. b \in Parties /\ b # EscrowContract /\ feed.received \in [Onlookers -> Int]
      /\ feed.collected \in Int
    BY DEF Parties, StatementsInv
<1>5. /\ Credited(feed.received, b, free) \in [Onlookers -> Int]
      /\ \A a \in Onlookers :
            Credited(feed.received, b, free)[a] = feed.received[a] + (IF a = b THEN free ELSE 0)
    BY <1>1, <1>4, CreditedIs
<1>6. /\ feed'.received \in [Onlookers -> Int]
      /\ \A a \in Onlookers : /\ feed'.received[a] - feed.received[a] = (IF a = b THEN free ELSE 0)
                              /\ a \notin Parties => feed'.received[a] = feed.received[a]
    BY <1>1, <1>3, <1>4, <1>5
<1>7. \A t \in Tokens, a \in Onlookers : balances'[t][a] = balances[t][a] +
            (IF t = token
             THEN (feed'.received[a] - feed.received[a]) + (IF a = instance.treasury THEN 0 ELSE 0)
             ELSE 0)
    BY <1>1, <1>6
<1>8. \A t \in Tokens : Unbooked(t)' = Unbooked(t) +
            (IF t = token /\ instance.treasury = EscrowContract THEN 0 ELSE 0)
    BY <1>1, <1>4
<1>9. feed'.collected = feed.collected + 0
    BY <1>3, <1>4
<1>10. Movement(token, 0)
    BY <1>1, <1>6, <1>7, <1>8, <1>9 DEF Movement
<1> QED BY <1>2, <1>10, MovementMatches

LEMMA RecoveryMatches ==
    ASSUME OpenInv, Reconciled, StatementsInv, NEW c \in CampaignIds,
           campaigns[c].status # "None", Sweep(c, instance.treasury, "Cancelled"),
           Publish(EmergencyRecovery(feed, c, Swept(c)))
    PROVE  StatementsInv'
<1> DEFINE free == Swept(c)
           token == campaigns[c].token
           x == instance.treasury
<1>1. MoneyInv /\ EscrowInv /\ Shape(feed) /\ "Cancelled" \in CampaignStatus
    BY DEF OpenInv, MoneyInv, TermsInv, LifeInv, Reconciled, CampaignStatus
<1>2. /\ token \in Tokens /\ free \in Nat /\ balances' \in Ledgers
      /\ \A t \in Tokens, a \in Onlookers : balances'[t][a] = balances[t][a] +
            (IF t = token THEN IF a = x THEN free ELSE 0 ELSE 0)
      /\ \A t \in Tokens : Unbooked(t)' = Unbooked(t) +
            (IF t = token THEN IF x = EscrowContract THEN free ELSE 0 ELSE 0)
    BY <1>1, SweepMoves
<1>3. x \in Admins \cup Treasuries
    BY AdminOfCampaign
<1>4. /\ feed'.received = feed.received /\ feed'.collected = feed.collected + free
      /\ feed.received \in [Onlookers -> Int]
    BY <1>1, StatedBySweeps DEF Publish, StatementsInv
<1> HIDE DEF free, token
<1>5. \A t \in Tokens, a \in Onlookers : balances'[t][a] = balances[t][a] +
            (IF t = token
             THEN (feed'.received[a] - feed.received[a]) + (IF a = x THEN free ELSE 0) ELSE 0)
    BY <1>2, <1>4
<1>6. \A t \in Tokens : Unbooked(t)' = Unbooked(t) +
            (IF t = token /\ x = EscrowContract THEN free ELSE 0)
    BY <1>2
<1>7. Movement(token, free)
    BY <1>2, <1>3, <1>4, <1>5, <1>6 DEF Movement
<1> QED BY <1>1, <1>7, MovementMatches

LEMMA DepositMatches ==
    ASSUME MoneyInv, Reconciled, StatementsInv, NEW c \in CampaignIds, NEW b \in Businesses,
           FundCampaign(b, c), Publish(CampaignFunded(feed, c, campaigns[c].total_budget))
    PROVE  StatementsInv'
<1> DEFINE budget == campaigns[c].total_budget
           token == campaigns[c].token
<1>1. /\ EscrowInv /\ Shape(feed) /\ budget \in Nat /\ campaigns[c].status = "Draft"
      /\ campaigns[c].business = b /\ feed.campaigns[c].business = b
    BY CampaignFacts DEF MoneyInv, TermsInv, LifeInv, EscrowInv, TypeOK, Campaign, FundCampaign,
        OwnedBy, Reconciled, CampaignsMatch, CampaignMatches
<1>2. token \in Tokens /\ BookedTo(c)
    BY <1>1, DepositIsBooked DEF MoneyInv, PartiesOf
<1>3. balances' = Transfer(balances, token, b, EscrowContract, budget)
    BY DEF FundCampaign
<1>4. /\ feed'.received = [feed.received EXCEPT ![b] = @ - budget]
      /\ feed'.collected = feed.collected
    <2>1. feed' = CampaignFunded(feed, c, budget)
        BY DEF Publish
    <2> HIDE DEF budget
    <2> QED BY <1>1, <2>1, StatedByFunding
<1>5. /\ campaigns[c].escrow_balance \in Nat /\ campaigns'[c].escrow_balance \in Nat
      /\ \A t \in Tokens : balances[t][EscrowContract] \in Nat
    BY <1>1, <1>2, CampaignFacts, BalancesAreNaturals DEF BookedTo, Books, Campaign
<1>6. \A t \in Tokens : Unbooked(t)' = Unbooked(t) + (IF t = token THEN 0 ELSE 0)
    <2>1. \A t \in Tokens : balances'[t][EscrowContract] = balances[t][EscrowContract] +
            (IF t = token
             THEN campaigns'[c].escrow_balance - campaigns[c].escrow_balance + 0 ELSE 0)
        BY <1>2, <1>5 DEF BookedTo
    <2> QED BY <1>1, <1>2, <2>1, UnbookedMoves DEF BookedTo
<1>7. b \in Accounts /\ b # EscrowContract /\ EscrowContract \in Accounts
      /\ b \in Onlookers /\ b \in Parties
    BY DEF Accounts, Onlookers, Parties
<1>8. balances \in Ledgers /\ feed.received \in [Onlookers -> Int] /\ feed.collected \in Int
    BY <1>1, BalancesAreNaturals DEF StatementsInv
<1>9. balances[token][b] >= budget
    BY DEF FundCampaign, Covers
<1> HIDE DEF budget, token
<1>10. /\ balances' \in Ledgers
       /\ \A t \in Tokens, a \in Accounts \ {EscrowContract} : balances'[t][a] = balances[t][a] +
            (IF t = token THEN IF a = b THEN 0 - budget ELSE 0 ELSE 0)
    BY <1>1, <1>2, <1>3, <1>7, <1>8, <1>9 DEF Transfer, Ledgers
<1>11. /\ feed'.received \in [Onlookers -> Int]
       /\ \A a \in Onlookers :
            /\ feed'.received[a] - feed.received[a] = (IF a = b THEN 0 - budget ELSE 0)
            /\ a \notin Parties => feed'.received[a] = feed.received[a]
    BY <1>1, <1>4, <1>7, <1>8
<1>12. \A t \in Tokens, a \in Onlookers : balances'[t][a] = balances[t][a] +
            (IF t = token
             THEN (feed'.received[a] - feed.received[a]) + (IF a = instance.treasury THEN 0 ELSE 0)
             ELSE 0)
    BY <1>1, <1>10, <1>11, WhoLooksOn DEF Onlookers
<1>13. \A t \in Tokens : Unbooked(t)' = Unbooked(t) +
            (IF t = token /\ instance.treasury = EscrowContract THEN 0 ELSE 0)
    BY <1>6
<1>14. feed'.collected = feed.collected + 0
    BY <1>4, <1>8
<1>15. Movement(token, 0)
    BY <1>2, <1>10, <1>11, <1>12, <1>13, <1>14 DEF Movement
<1> QED BY <1>1, <1>15, MovementMatches

--------------------------------------------------------------------------------
(* Every step.                                                               *)

LEMMA GovernanceMovesNothing ==
    ASSUME Reconciled, FeedGovernance
    PROVE  /\ balances' = balances /\ campaigns' = campaigns /\ Silent(feed, feed')
<1>1. Shape(feed)
    BY DEF Reconciled
<1>2. Governance
    BY DEF FeedGovernance, Governance
<1>3. balances' = balances /\ campaigns' = campaigns
    BY <1>2 DEF Governance, Initialize, Pause, Unpause, SetPaused, ProposeAdmin, AcceptAdmin,
        UpdateFeeBps, UpdateTreasury
<1>4. \/ \E x, y : feed' = Deployed(feed, x, y)
      \/ feed' = ContractPaused(feed) \/ feed' = ContractUnpaused(feed)
      \/ \E x : \/ feed' = AdminProposed(feed, x) \/ feed' = AdminTransferred(feed, x)
                \/ feed' = FeeUpdated(feed, x) \/ feed' = TreasuryUpdated(feed, x)
    BY DEF FeedGovernance, Publish
<1> QED BY <1>1, <1>3, <1>4, SilentSettings

\* A campaign that is only now created held nothing before, in any token.
LEMMA CreationMovesNothing ==
    ASSUME SystemInv, Reconciled, FeedNewCampaign
    PROVE  /\ balances' = balances /\ Silent(feed, feed')
           /\ \A t \in Tokens : HeldIn(t)' = HeldIn(t)
<1> DEFINE c == instance.next_campaign_id
<1>1. EscrowInv /\ NewCampaign /\ Shape(feed)
    BY DEF SystemInv, LifeInv, Reconciled, FeedNewCampaign, NewCampaign
<1>2. balances' = balances /\ c \in CampaignIds /\ campaigns[c].escrow_balance = 0
    BY <1>1 DEF NewCampaign, CreateCampaign, EscrowInv, IdleHoldsNothing, TypeOK, Instance,
        CampaignIds, NoCampaign
<1>3. /\ campaigns'[c].escrow_balance = 0
      /\ \A d \in CampaignIds \ {c} : campaigns'[d] = campaigns[d]
    BY <1>1, <1>2 DEF NewCampaign, CreateCampaign, EscrowInv, TypeOK
<1>4. \E b : feed' = CampaignCreated(feed, b, c)
    BY DEF FeedNewCampaign, Publish
<1> HIDE DEF c
<1>5. \A t \in Tokens : HeldIn(t)' = HeldIn(t)
    BY <1>2, <1>3 DEF HeldIn
<1> QED BY <1>1, <1>2, <1>4, <1>5, SilentEvents

\* A new description, an agreed payout: the escrow and its token stay.
LEMMA HeldKept ==
    ASSUME \A d \in CampaignIds : /\ campaigns'[d].escrow_balance = campaigns[d].escrow_balance
                                  /\ campaigns'[d].token = campaigns[d].token
    PROVE  \A t \in Tokens : HeldIn(t)' = HeldIn(t)
    BY DEF HeldIn

LEMMA CampaignStepMatches ==
    ASSUME OpenInv, SystemInv, Reconciled, StatementsInv, NEW c \in CampaignIds, FeedCampaignStep(c)
    PROVE  StatementsInv'
<1>1. /\ MoneyInv /\ EscrowInv /\ Shape(feed) /\ campaigns \in [CampaignIds -> Campaign]
      /\ campaigns[c] \in Campaign /\ "Cancelled" \in CampaignStatus /\ "Completed" \in CampaignStatus
    BY CampaignFacts DEF OpenInv, MoneyInv, TermsInv, LifeInv, EscrowInv, TypeOK, Reconciled,
        CampaignStatus
<1>2. ASSUME NEW b \in Businesses, FundCampaign(b, c),
             Publish(CampaignFunded(feed, c, campaigns[c].total_budget))
      PROVE  StatementsInv'
    BY <1>1, <1>2, DepositMatches
<1>3. ASSUME NEW b \in Businesses, NEW brief \in Briefs, UpdateCampaignMetadata(c, b, brief),
             Publish(CampaignMetadataUpdated(feed, c, brief))
      PROVE  StatementsInv'
    <2>1. /\ campaigns'[c] = [campaigns[c] EXCEPT !.metadata_uri = brief]
          /\ \A d \in CampaignIds \ {c} : campaigns'[d] = campaigns[d]
          /\ balances' = balances
        BY <1>1, <1>3 DEF UpdateCampaignMetadata
    <2>2. /\ campaigns'[c].token = campaigns[c].token
          /\ campaigns'[c].escrow_balance = campaigns[c].escrow_balance
        BY <1>1, <2>1 DEF Campaign
    <2>3. \A t \in Tokens : HeldIn(t)' = HeldIn(t)
        BY <2>1, <2>2, HeldKept
    <2>4. Silent(feed, feed')
        BY <1>1, <1>3, SilentEvents DEF Publish
    <2> QED BY <2>1, <2>3, <2>4, NothingStated
<1>4. ASSUME NEW b \in Businesses, CancelCampaign(b, c) \/ ExpireCampaign(b, c),
             Publish(CampaignCancelled(feed, c, Swept(c)))
      PROVE  StatementsInv'
    <2>1. campaigns[c].business = b /\ Sweep(c, b, "Cancelled")
        BY <1>4 DEF CancelCampaign, ExpireCampaign, MayExpire, OwnedBy
    <2> QED BY <1>1, <1>4, <2>1, RefundMatches
<1>5. ASSUME NEW b \in Businesses, ReclaimSurplus(b, c),
             Publish(SurplusReclaimed(feed, c, Swept(c)))
      PROVE  StatementsInv'
    <2>1. campaigns[c].business = b /\ \E status \in CampaignStatus : Sweep(c, b, status)
        BY <1>1, <1>5 DEF ReclaimSurplus, OwnedBy, Campaign
    <2> QED BY <1>1, <1>5, <2>1, RefundMatches
<1>6. ASSUME NEW a \in Admins, EmergencyRecoverCampaign(a, c),
             Publish(EmergencyRecovery(feed, c, Swept(c)))
      PROVE  StatementsInv'
    <2>1. campaigns[c].status # "None" /\ Sweep(c, instance.treasury, "Cancelled")
        BY <1>6 DEF EmergencyRecoverCampaign, NotClosed
    <2> QED BY <1>6, <2>1, RecoveryMatches
<1> QED BY <1>2, <1>3, <1>4, <1>5, <1>6 DEF FeedCampaignStep

LEMMA PayoutStepMatches ==
    ASSUME OpenInv, SystemInv, Reconciled, StatementsInv, NEW c \in CampaignIds, NEW r \in Creators,
           FeedPayoutStep(c, r)
    PROVE  StatementsInv'
<1>1. /\ EscrowInv /\ Shape(feed) /\ campaigns \in [CampaignIds -> Campaign]
      /\ campaigns[c] \in Campaign
    BY CampaignFacts DEF OpenInv, MoneyInv, TermsInv, LifeInv, EscrowInv, TypeOK, Reconciled
<1>2. ASSUME balances' = balances, campaigns' = campaigns, Silent(feed, feed')
      PROVE  StatementsInv'
    BY <1>2, NothingStated DEF HeldIn
<1>3. ASSUME ApplyToCampaign(r, c), Publish(CreatorApplied(feed, c, r)) PROVE StatementsInv'
    BY <1>1, <1>2, <1>3, SilentEvents DEF ApplyToCampaign, Publish
<1>4. ASSUME NEW proof \in Proofs, SubmitProof(r, c, proof), Publish(ProofSubmitted(feed, c, r))
      PROVE  StatementsInv'
    BY <1>1, <1>2, <1>4, SilentEvents DEF SubmitProof, Publish
<1>5. ASSUME ClaimPayment(r, c),
             Publish(PaymentReleased(feed, c, r,
                        CreatorNet(applications[<<c, r>>].payout_amount, campaigns[c])))
      PROVE  StatementsInv'
    BY <1>5, ClaimMatches
<1>6. ASSUME NEW b \in Businesses, NEW amount \in Payouts, ApproveCreator(b, c, r, amount),
             Publish(CreatorApproved(feed, c, r, amount))
      PROVE  StatementsInv'
    <2>1. /\ balances' = balances
          /\ \A d \in CampaignIds \ {c} : campaigns'[d] = campaigns[d]
          /\ campaigns'[c] = [campaigns[c] EXCEPT !.approved_count = @ + 1,
                !.committed_payouts = campaigns[c].committed_payouts + amount, !.status = "Active"]
        BY <1>1, <1>6 DEF ApproveCreator
    <2>2. /\ campaigns'[c].token = campaigns[c].token
          /\ campaigns'[c].escrow_balance = campaigns[c].escrow_balance
        BY <1>1, <2>1 DEF Campaign
    <2>3. \A t \in Tokens : HeldIn(t)' = HeldIn(t)
        BY <2>1, <2>2, HeldKept
    <2>4. Silent(feed, feed')
        BY <1>1, <1>6, SilentEvents DEF Publish
    <2> QED BY <2>1, <2>3, <2>4, NothingStated
<1>7. ASSUME NEW b \in Businesses,
             \/ ApproveSubmission(b, c, r) /\ PublishNothing
             \/ RejectSubmission(b, c, r) /\ Publish(SubmissionRejected(feed, c, r))
      PROVE  StatementsInv'
    <2>1. balances' = balances /\ campaigns' = campaigns
        BY <1>7 DEF ApproveSubmission, RejectSubmission
    <2>2. Silent(feed, feed')
        BY <1>1, <1>7, SilentEvents DEF Publish, PublishNothing
    <2> QED BY <1>2, <2>1, <2>2
<1> QED BY <1>3, <1>4, <1>5, <1>6, <1>7 DEF FeedPayoutStep

LEMMA DisputeStepMatches ==
    ASSUME OpenInv, SystemInv, Reconciled, StatementsInv, NEW c \in CampaignIds, NEW r \in Creators,
           FeedDisputeStep(c, r)
    PROVE  StatementsInv'
<1>1. Shape(feed)
    BY DEF Reconciled
<1>2. ASSUME NEW caller, FreezeForDispute(caller, c, r), Silent(feed, feed')
      PROVE  StatementsInv'
    BY <1>2, NothingStated DEF FreezeForDispute, HeldIn
<1>3. ASSUME NEW raised_by, NEW reason, FeedRaiseDispute(raised_by, c, r, reason)
      PROVE  StatementsInv'
    <2> DEFINE mid == DisputeFrozen(feed, c, r)
    <2>1. OnlyPayout(feed, mid, <<c, r>>)
        BY <1>1, FrozenEntry
    <2>2. Shape(mid) /\ Silent(feed, mid)
        BY <1>1, <2>1, SilentEvents DEF OnlyPayout
    <2>3. feed' = DisputeRaised(mid, dispute_instance.next_dispute_id, raised_by)
        BY <1>3 DEF FeedRaiseDispute, Publish
    <2> HIDE DEF mid
    <2>4. Silent(mid, feed')
        BY <2>2, <2>3, SilentEvents
    <2>5. Silent(feed, feed')
        BY <2>2, <2>4 DEF Silent
    <2> QED BY <1>2, <1>3, <2>5 DEF FeedRaiseDispute, RaiseDispute
<1>4. ASSUME FeedFreezeDirectly(c, r) PROVE StatementsInv'
    <2>1. Silent(feed, feed')
        BY <1>1, <1>4, SilentEvents DEF FeedFreezeDirectly, Publish
    <2> QED BY <1>2, <1>4, <2>1 DEF FeedFreezeDirectly, FreezeDirectly
<1>5. ASSUME NEW raised_by, NEW reason, FeedRaiseElsewhere(raised_by, c, r, reason)
      PROVE  StatementsInv'
    <2>1. Silent(feed, feed')
        BY <1>1, <1>5, SilentEvents DEF FeedRaiseElsewhere, Publish
    <2> QED BY <1>5, <2>1, NothingStated DEF FeedRaiseElsewhere, RaiseElsewhere, HeldIn, vars
<1>6. ASSUME NEW res \in Resolutions, FeedCloseElsewhere(c, r, Outcome(res))
      PROVE  StatementsInv'
    <2>1. /\ \E caller : Disputes!CloseDispute(caller, <<c, r>>, Outcome(res))
          /\ feed' = FeedOfClose(c, r) /\ UNCHANGED vars
        BY <1>6 DEF FeedCloseElsewhere, CloseElsewhere, Publish
    <2>2. Silent(feed, feed')
        BY <2>1, ClosingIsSilent
    <2> QED BY <2>1, <2>2, NothingStated DEF HeldIn, vars
<1> QED BY <1>3, <1>4, <1>5, <1>6, SettlementStated DEF FeedDisputeStep

LEMMA StatementsPreserved ==
    OpenInv /\ FeedInv /\ StatementsInv /\ [FeedNext]_feedVars => StatementsInv'
<1> SUFFICES ASSUME OpenInv, FeedInv, StatementsInv, [FeedNext]_feedVars PROVE StatementsInv'
    OBVIOUS
<1>1. SystemInv /\ Reconciled /\ Shape(feed)
    BY DEF FeedInv, Reconciled
<1>2. ASSUME balances' = balances, campaigns' = campaigns, Silent(feed, feed')
      PROVE  StatementsInv'
    BY <1>2, NothingStated DEF HeldIn
<1>3. ASSUME FeedEscrowStep PROVE StatementsInv'
    <2>1. CASE FeedGovernance
        BY <1>1, <1>2, <2>1, GovernanceMovesNothing
    <2>2. CASE FeedNewCampaign
        BY <1>1, <2>2, CreationMovesNothing, NothingStated
    <2>3. CASE (Tick \/ TokenStep) /\ PublishNothing
        BY <1>2, <2>3 DEF Tick, TokenStep, Bar, Admit, PublishNothing, Silent
    <2> QED BY <1>1, <1>3, <2>1, <2>2, <2>3, CampaignStepMatches, PayoutStepMatches
            DEF FeedEscrowStep
<1>4. CASE InitializeDisputes /\ PublishNothing
    BY <1>2, <1>4 DEF InitializeDisputes, PublishNothing, Silent, vars
<1>5. CASE FeedAssignArbiter
    BY <1>1, <1>2, <1>5, SilentEvents DEF FeedAssignArbiter, Publish, vars
<1>6. CASE UNCHANGED feedVars
    BY <1>2, <1>6 DEF feedVars, systemVars, vars, Silent
<1> QED BY <1>1, <1>3, <1>4, <1>5, <1>6, DisputeStepMatches DEF FeedNext

LEMMA StatementsInitially == FeedInit => StatementsInv
<1> SUFFICES ASSUME FeedInit PROVE StatementsInv
    OBVIOUS
<1>1. /\ feed.received = [a \in Onlookers |-> 0] /\ feed.collected = 0
      /\ balances = [t \in Tokens |->
                        [a \in Accounts |-> IF a \in Businesses THEN InitialFunds ELSE 0]]
      /\ campaigns = [c \in CampaignIds |-> NoCampaign]
    BY DEF FeedInit, SystemInit, Init
<1>2. \A a \in Accounts : Gained(a) = 0
    <2>1. \A a \in Accounts : GainIn(a) = [t \in Tokens |-> 0]
        BY <1>1 DEF GainIn
    <2> QED BY <2>1, SumZero DEF Gained
<1>3. SumFunction(Gains) = 0
    <2>1. Gains = [a \in Collectors |-> 0]
        BY <1>2, WhoLooksOn DEF Gains
    <2> QED BY <2>1, WhoLooksOn, SumZero
<1>4. SumFunction(Surplus) = 0
    <2>1. \A t \in Tokens : HeldIn(t) = [c \in CampaignIds |-> 0]
        BY <1>1 DEF HeldIn, NoCampaign
    <2>2. \A t \in Tokens : SumFunction(HeldIn(t)) = 0
        BY <2>1, CampaignIdsFinite, SumZero
    <2>3. \A t \in Tokens : balances[t][EscrowContract] = 0
        BY <1>1, WhoLooksOn
    <2>4. Surplus = [t \in Tokens |-> 0]
        BY <2>2, <2>3 DEF Surplus, Unbooked
    <2> QED BY <2>4, SumZero
<1> QED BY <1>1, <1>2, <1>3, <1>4, WhoLooksOn DEF StatementsInv

\* What the events say a party was paid, less what it deposited, is what its balances
\* have gained, fee and rounding of every payment included, and what they leave
\* unsaid is what the treasuries have: nobody who adds up the events is out by a unit.
THEOREM StatementsAreTrue == FeedSpec => []StatementsMatch
<1>1. FeedSpec => []OpenInv
    <2>1. FeedSpec => Spec
        BY WatchedSystemIsSystem, DeployedIsEscrow
    <2> QED BY <2>1, OpenInvariant, PTL
<1>2. FeedInit => StatementsInv
    BY StatementsInitially
<1> QED BY <1>1, <1>2, FeedInvariant, StatementsPreserved, StatementsSay, PTL DEF FeedSpec
================================================================================
