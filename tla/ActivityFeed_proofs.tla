-------------------------- MODULE ActivityFeed_proofs --------------------------
(***************************************************************************)
(* Theorems about the events: reading them changes nothing about the       *)
(* contracts, and the copy kept from them alone is the contracts' state.   *)
(***************************************************************************)
EXTENDS ActivityFeed, AdsBazaar_proofs

USE SharedAssumption, EscrowAssumption, SystemAssumption

--------------------------------------------------------------------------------
(* The copy and its entries.                                                 *)

CampaignIs(x, business, escrow, reserve, brief, status) ==
    x \in [business : {business}, escrow : {escrow}, reserve : {reserve},
          brief : {brief}, status : {status}]
CampaignEntry(x) == CampaignIs(x, x.business, x.escrow, x.reserve, x.brief, x.status)
PayoutIs(x, amount, frozen_at, status) ==
    x \in [amount : {amount}, frozen_at : {frozen_at}, status : {status}]
PayoutEntry(x) == PayoutIs(x, x.amount, x.frozen_at, x.status)
DisputeIs(x, raised_by, arbiter, status) ==
    x \in [raised_by : {raised_by}, arbiter : {arbiter}, status : {status}]
DisputeEntry(x) == DisputeIs(x, x.raised_by, x.arbiter, x.status)

Entries(cs, ps, ds) ==
    /\ cs = [c \in CampaignIds |-> cs[c]]
    /\ ps = [key \in ApplicationKeys |-> ps[key]]
    /\ ds = [id \in DisputeIds |-> ds[id]]
    /\ \A c \in CampaignIds : CampaignEntry(cs[c])
    /\ \A key \in ApplicationKeys : PayoutEntry(ps[key])
    /\ \A id \in DisputeIds : DisputeEntry(ds[id])

\* The copy g has f's settings, and these entries.
Copied(f, g, cs, ps, ds, received, collected) ==
    g \in [campaigns : {cs}, payouts : {ps}, disputes : {ds}, received : {received},
          collected : {collected}, admin : {f.admin}, proposed : {f.proposed},
          treasury : {f.treasury}, fee_bps : {f.fee_bps}, paused : {f.paused}]

\* A copy has its ten fields, and an entry for every id there is.
Shape(f) ==
    /\ Copied(f, f, f.campaigns, f.payouts, f.disputes, f.received, f.collected)
    /\ Entries(f.campaigns, f.payouts, f.disputes)

SameSettings(f, g) ==
    /\ g.admin = f.admin /\ g.proposed = f.proposed /\ g.treasury = f.treasury
    /\ g.fee_bps = f.fee_bps /\ g.paused = f.paused

\* What an event about campaign c, about payout key, about dispute id leaves alone.
OnlyCampaign(f, g, c) ==
    /\ Shape(g) /\ SameSettings(f, g)
    /\ g.payouts = f.payouts /\ g.disputes = f.disputes
    /\ \A d \in CampaignIds \ {c} : g.campaigns[d] = f.campaigns[d]
OnlyPayout(f, g, key) ==
    /\ Shape(g) /\ SameSettings(f, g)
    /\ g.campaigns = f.campaigns /\ g.disputes = f.disputes
    /\ \A k \in ApplicationKeys \ {key} : g.payouts[k] = f.payouts[k]
OnlyBoth(f, g, c, key) ==
    /\ Shape(g) /\ SameSettings(f, g) /\ g.disputes = f.disputes
    /\ \A d \in CampaignIds \ {c} : g.campaigns[d] = f.campaigns[d]
    /\ \A k \in ApplicationKeys \ {key} : g.payouts[k] = f.payouts[k]
OnlyDispute(f, g, id) ==
    /\ Shape(g) /\ SameSettings(f, g)
    /\ g.campaigns = f.campaigns /\ g.payouts = f.payouts
    /\ \A d \in DisputeIds \ {id} : g.disputes[d] = f.disputes[d]
OnlySettings(f, g, admin, proposed, treasury, fee_bps, paused) ==
    /\ Shape(g)
    /\ g.campaigns = f.campaigns /\ g.payouts = f.payouts /\ g.disputes = f.disputes
    /\ g.admin = admin /\ g.proposed = proposed /\ g.treasury = treasury
    /\ g.fee_bps = fee_bps /\ g.paused = paused

\* A copy with given parts has its shape if the parts have theirs.
LEMMA CopiedShape ==
    ASSUME NEW f, NEW g, NEW cs, NEW ps, NEW ds, NEW received, NEW collected, Entries(cs, ps, ds),
           Copied(f, g, cs, ps, ds, received, collected)
    PROVE  /\ Shape(g) /\ SameSettings(f, g)
           /\ g.campaigns = cs /\ g.payouts = ps /\ g.disputes = ds
<1>1. /\ g.campaigns = cs /\ g.payouts = ps /\ g.disputes = ds
      /\ SameSettings(f, g)
      /\ Copied(g, g, g.campaigns, g.payouts, g.disputes, g.received, g.collected)
    BY DEF SameSettings, Copied
<1> QED BY <1>1 DEF Shape

\* One entry replaced, or a campaign's and a payout's.
LEMMA ReplaceCampaign ==
    ASSUME NEW f, Shape(f), NEW c \in CampaignIds, NEW x, CampaignEntry(x),
           NEW received, NEW collected,
           NEW g, Copied(f, g, [f.campaigns EXCEPT ![c] = x], f.payouts, f.disputes, received, collected)
    PROVE  OnlyCampaign(f, g, c) /\ g.campaigns[c] = x
<1> DEFINE cs == [f.campaigns EXCEPT ![c] = x]
<1>1. /\ cs = [d \in CampaignIds |-> cs[d]] /\ cs[c] = x
      /\ \A d \in CampaignIds \ {c} : cs[d] = f.campaigns[d]
    BY DEF Shape, Entries
<1>2. Copied(f, g, cs, f.payouts, f.disputes, received, collected)
    OBVIOUS
<1> HIDE DEF cs
<1>3. Entries(cs, f.payouts, f.disputes)
    BY <1>1 DEF Shape, Entries
<1>4. /\ Shape(g) /\ SameSettings(f, g)
      /\ g.campaigns = cs /\ g.payouts = f.payouts /\ g.disputes = f.disputes
    BY <1>2, <1>3, CopiedShape
<1> QED BY <1>1, <1>4 DEF OnlyCampaign

LEMMA ReplacePayout ==
    ASSUME NEW f, Shape(f), NEW key \in ApplicationKeys, NEW x, PayoutEntry(x),
           NEW g, Copied(f, g, f.campaigns, [f.payouts EXCEPT ![key] = x], f.disputes,
                         f.received, f.collected)
    PROVE  OnlyPayout(f, g, key) /\ g.payouts[key] = x
<1> DEFINE ps == [f.payouts EXCEPT ![key] = x]
<1>1. /\ ps = [k \in ApplicationKeys |-> ps[k]] /\ ps[key] = x
      /\ \A k \in ApplicationKeys \ {key} : ps[k] = f.payouts[k]
    BY DEF Shape, Entries
<1>2. Copied(f, g, f.campaigns, ps, f.disputes, f.received, f.collected)
    OBVIOUS
<1> HIDE DEF ps
<1>3. Entries(f.campaigns, ps, f.disputes)
    BY <1>1 DEF Shape, Entries
<1>4. /\ Shape(g) /\ SameSettings(f, g)
      /\ g.campaigns = f.campaigns /\ g.payouts = ps /\ g.disputes = f.disputes
    BY <1>2, <1>3, CopiedShape
<1> QED BY <1>1, <1>4 DEF OnlyPayout

LEMMA ReplaceBoth ==
    ASSUME NEW f, Shape(f), NEW c \in CampaignIds, NEW x, CampaignEntry(x),
           NEW key \in ApplicationKeys, NEW y, PayoutEntry(y), NEW received, NEW collected,
           NEW g, Copied(f, g, [f.campaigns EXCEPT ![c] = x], [f.payouts EXCEPT ![key] = y],
                         f.disputes, received, collected)
    PROVE  OnlyBoth(f, g, c, key) /\ g.campaigns[c] = x /\ g.payouts[key] = y
<1> DEFINE cs == [f.campaigns EXCEPT ![c] = x]
           ps == [f.payouts EXCEPT ![key] = y]
<1>1. /\ cs = [d \in CampaignIds |-> cs[d]] /\ cs[c] = x
      /\ \A d \in CampaignIds \ {c} : cs[d] = f.campaigns[d]
    BY DEF Shape, Entries
<1>2. /\ ps = [k \in ApplicationKeys |-> ps[k]] /\ ps[key] = y
      /\ \A k \in ApplicationKeys \ {key} : ps[k] = f.payouts[k]
    BY DEF Shape, Entries
<1>3. Copied(f, g, cs, ps, f.disputes, received, collected)
    OBVIOUS
<1> HIDE DEF cs, ps
<1>4. Entries(cs, ps, f.disputes)
    BY <1>1, <1>2 DEF Shape, Entries
<1>5. /\ Shape(g) /\ SameSettings(f, g)
      /\ g.campaigns = cs /\ g.payouts = ps /\ g.disputes = f.disputes
    BY <1>3, <1>4, CopiedShape
<1> QED BY <1>1, <1>2, <1>5 DEF OnlyBoth

LEMMA ReplaceDispute ==
    ASSUME NEW f, Shape(f), NEW id \in DisputeIds, NEW x, DisputeEntry(x),
           NEW g, Copied(f, g, f.campaigns, f.payouts, [f.disputes EXCEPT ![id] = x],
                         f.received, f.collected)
    PROVE  OnlyDispute(f, g, id) /\ g.disputes[id] = x
<1> DEFINE ds == [f.disputes EXCEPT ![id] = x]
<1>1. /\ ds = [d \in DisputeIds |-> ds[d]] /\ ds[id] = x
      /\ \A d \in DisputeIds \ {id} : ds[d] = f.disputes[d]
    BY DEF Shape, Entries
<1>2. Copied(f, g, f.campaigns, f.payouts, ds, f.received, f.collected)
    OBVIOUS
<1> HIDE DEF ds
<1>3. Entries(f.campaigns, f.payouts, ds)
    BY <1>1 DEF Shape, Entries
<1>4. /\ Shape(g) /\ SameSettings(f, g)
      /\ g.campaigns = f.campaigns /\ g.payouts = f.payouts /\ g.disputes = ds
    BY <1>2, <1>3, CopiedShape
<1> QED BY <1>1, <1>4 DEF OnlyDispute

--------------------------------------------------------------------------------
(* What each event makes of the copy.                                        *)

\* A campaign is created, funded, described anew.
LEMMA CreatedEntry ==
    ASSUME NEW f, Shape(f), NEW c \in CampaignIds, NEW b
    PROVE  LET g == CampaignCreated(f, b, c)
               x == f.campaigns[c]
           IN  /\ OnlyCampaign(f, g, c)
               /\ CampaignIs(g.campaigns[c], b, x.escrow, x.reserve, x.brief, "Draft")
<1> DEFINE x == f.campaigns[c]
           y == [x EXCEPT !.business = b, !.status = "Draft"]
           g == CampaignCreated(f, b, c)
<1>1. CampaignEntry(x)
    BY DEF Shape, Entries
<1>2. CampaignIs(y, b, x.escrow, x.reserve, x.brief, "Draft")
    <2> HIDE DEF x
    <2> QED BY <1>1 DEF CampaignEntry, CampaignIs
<1>3. CampaignEntry(y)
    <2> HIDE DEF y
    <2> QED BY <1>2 DEF CampaignEntry, CampaignIs
<1>4. g = [f EXCEPT !.campaigns[c] = y]
    BY DEF CampaignCreated, Shape, Copied
<1> HIDE DEF y, g
<1>5. Copied(f, g, [f.campaigns EXCEPT ![c] = y], f.payouts, f.disputes,
             f.received, f.collected)
    BY <1>4 DEF Shape, Copied
<1>6. OnlyCampaign(f, g, c) /\ g.campaigns[c] = y
    BY <1>3, <1>5, ReplaceCampaign
<1> QED BY <1>2, <1>6 DEF g

LEMMA FundedEntry ==
    ASSUME NEW f, Shape(f), NEW c \in CampaignIds, NEW amount
    PROVE  LET g == CampaignFunded(f, c, amount)
               x == f.campaigns[c]
           IN  /\ OnlyCampaign(f, g, c)
               /\ CampaignIs(g.campaigns[c], x.business, amount, x.reserve, x.brief, "Funded")
<1> DEFINE x == f.campaigns[c]
           y == [x EXCEPT !.escrow = amount, !.status = "Funded"]
           to == x.business
           paid == f.received[to] - amount
           g == CampaignFunded(f, c, amount)
<1>1. CampaignEntry(x)
    BY DEF Shape, Entries
<1>2. CampaignIs(y, x.business, amount, x.reserve, x.brief, "Funded")
    <2> HIDE DEF x
    <2> QED BY <1>1 DEF CampaignEntry, CampaignIs
<1>3. CampaignEntry(y)
    <2> HIDE DEF y
    <2> QED BY <1>2 DEF CampaignEntry, CampaignIs
<1>4. g = [f EXCEPT !.campaigns[c] = y, !.received[to] = paid]
    BY DEF CampaignFunded, Shape, Copied
<1> HIDE DEF y, to, paid, g
<1>5. Copied(f, g, [f.campaigns EXCEPT ![c] = y], f.payouts, f.disputes,
             [f.received EXCEPT ![to] = paid], f.collected)
    BY <1>4 DEF Shape, Copied
<1>6. OnlyCampaign(f, g, c) /\ g.campaigns[c] = y
    BY <1>3, <1>5, ReplaceCampaign
<1> QED BY <1>2, <1>6 DEF g

LEMMA DescribedEntry ==
    ASSUME NEW f, Shape(f), NEW c \in CampaignIds, NEW brief
    PROVE  LET g == CampaignMetadataUpdated(f, c, brief)
               x == f.campaigns[c]
           IN  /\ OnlyCampaign(f, g, c)
               /\ CampaignIs(g.campaigns[c], x.business, x.escrow, x.reserve, brief, x.status)
<1> DEFINE x == f.campaigns[c]
           y == [x EXCEPT !.brief = brief]
           g == CampaignMetadataUpdated(f, c, brief)
<1>1. CampaignEntry(x)
    BY DEF Shape, Entries
<1>2. CampaignIs(y, x.business, x.escrow, x.reserve, brief, x.status)
    <2> HIDE DEF x
    <2> QED BY <1>1 DEF CampaignEntry, CampaignIs
<1>3. CampaignEntry(y)
    <2> HIDE DEF y
    <2> QED BY <1>2 DEF CampaignEntry, CampaignIs
<1>4. g = [f EXCEPT !.campaigns[c] = y]
    BY DEF CampaignMetadataUpdated, Shape, Copied
<1> HIDE DEF y, g
<1>5. Copied(f, g, [f.campaigns EXCEPT ![c] = y], f.payouts, f.disputes,
             f.received, f.collected)
    BY <1>4 DEF Shape, Copied
<1>6. OnlyCampaign(f, g, c) /\ g.campaigns[c] = y
    BY <1>3, <1>5, ReplaceCampaign
<1> QED BY <1>2, <1>6 DEF g

\* What is free leaves the escrow: to the business, or to the treasury.
LEMMA CancelledEntry ==
    ASSUME NEW f, Shape(f), NEW c \in CampaignIds, NEW amount
    PROVE  LET g == CampaignCancelled(f, c, amount)
               x == f.campaigns[c]
           IN  /\ OnlyCampaign(f, g, c)
               /\ CampaignIs(g.campaigns[c], x.business, x.escrow - amount, x.reserve, x.brief, "Cancelled")
<1> DEFINE x == f.campaigns[c]
           y == Withdrawn(x, amount)
           to == x.business
           paid == f.received[to] + amount
           g == CampaignCancelled(f, c, amount)
<1>1. CampaignEntry(x)
    BY DEF Shape, Entries
<1>2. CampaignIs(y, x.business, x.escrow - amount, x.reserve, x.brief, "Cancelled")
    <2> HIDE DEF x
    <2> QED BY <1>1 DEF CampaignEntry, CampaignIs, Withdrawn
<1>3. CampaignEntry(y)
    <2> HIDE DEF y
    <2> QED BY <1>2 DEF CampaignEntry, CampaignIs
<1>4. g = [f EXCEPT !.campaigns[c] = y, !.received[to] = paid]
    BY DEF CampaignCancelled, Shape, Copied
<1> HIDE DEF y, to, paid, g
<1>5. Copied(f, g, [f.campaigns EXCEPT ![c] = y], f.payouts, f.disputes,
             [f.received EXCEPT ![to] = paid], f.collected)
    BY <1>4 DEF Shape, Copied
<1>6. OnlyCampaign(f, g, c) /\ g.campaigns[c] = y
    BY <1>3, <1>5, ReplaceCampaign
<1> QED BY <1>2, <1>6 DEF g

LEMMA ReclaimedEntry ==
    ASSUME NEW f, Shape(f), NEW c \in CampaignIds, NEW amount
    PROVE  LET g == SurplusReclaimed(f, c, amount)
               x == f.campaigns[c]
           IN  /\ OnlyCampaign(f, g, c)
               /\ CampaignIs(g.campaigns[c], x.business, x.escrow - amount, x.reserve, x.brief,
                    IF x.escrow = amount THEN "Completed" ELSE x.status)
<1> DEFINE x == f.campaigns[c]
           y == Drawn(x, amount)
           to == x.business
           paid == f.received[to] + amount
           g == SurplusReclaimed(f, c, amount)
<1>1. CampaignEntry(x)
    BY DEF Shape, Entries
<1>2. CampaignIs(y, x.business, x.escrow - amount, x.reserve, x.brief,
                    IF x.escrow = amount THEN "Completed" ELSE x.status)
    <2> HIDE DEF x
    <2> QED BY <1>1 DEF CampaignEntry, CampaignIs, Drawn
<1>3. CampaignEntry(y)
    <2> HIDE DEF y
    <2> QED BY <1>2 DEF CampaignEntry, CampaignIs
<1>4. g = [f EXCEPT !.campaigns[c] = y, !.received[to] = paid]
    BY DEF SurplusReclaimed, Shape, Copied
<1> HIDE DEF y, to, paid, g
<1>5. Copied(f, g, [f.campaigns EXCEPT ![c] = y], f.payouts, f.disputes,
             [f.received EXCEPT ![to] = paid], f.collected)
    BY <1>4 DEF Shape, Copied
<1>6. OnlyCampaign(f, g, c) /\ g.campaigns[c] = y
    BY <1>3, <1>5, ReplaceCampaign
<1> QED BY <1>2, <1>6 DEF g

LEMMA RecoveredEntry ==
    ASSUME NEW f, Shape(f), NEW c \in CampaignIds, NEW amount
    PROVE  LET g == EmergencyRecovery(f, c, amount)
               x == f.campaigns[c]
           IN  /\ OnlyCampaign(f, g, c)
               /\ CampaignIs(g.campaigns[c], x.business, x.escrow - amount, x.reserve, x.brief, "Cancelled")
<1> DEFINE x == f.campaigns[c]
           y == Withdrawn(x, amount)
           total == f.collected + amount
           g == EmergencyRecovery(f, c, amount)
<1>1. CampaignEntry(x)
    BY DEF Shape, Entries
<1>2. CampaignIs(y, x.business, x.escrow - amount, x.reserve, x.brief, "Cancelled")
    <2> HIDE DEF x
    <2> QED BY <1>1 DEF CampaignEntry, CampaignIs, Withdrawn
<1>3. CampaignEntry(y)
    <2> HIDE DEF y
    <2> QED BY <1>2 DEF CampaignEntry, CampaignIs
<1>4. g = [f EXCEPT !.campaigns[c] = y, !.collected = total]
    BY DEF EmergencyRecovery, Shape, Copied
<1> HIDE DEF y, total, g
<1>5. Copied(f, g, [f.campaigns EXCEPT ![c] = y], f.payouts, f.disputes,
             f.received, total)
    BY <1>4 DEF Shape, Copied
<1>6. OnlyCampaign(f, g, c) /\ g.campaigns[c] = y
    BY <1>3, <1>5, ReplaceCampaign
<1> QED BY <1>2, <1>6 DEF g

\* A payout is applied for, worked for, frozen.
LEMMA AppliedEntry ==
    ASSUME NEW f, Shape(f), NEW c \in CampaignIds, NEW r \in Creators
    PROVE  LET g == CreatorApplied(f, c, r)
               x == f.payouts[<<c, r>>]
           IN  /\ OnlyPayout(f, g, <<c, r>>)
               /\ PayoutIs(g.payouts[<<c, r>>], x.amount, x.frozen_at, "Pending")
<1> DEFINE x == f.payouts[<<c, r>>]
           y == [x EXCEPT !.status = "Pending"]
           key == <<c, r>>
           g == CreatorApplied(f, c, r)
<1>0. key \in ApplicationKeys
    BY DEF ApplicationKeys
<1>1. PayoutEntry(x)
    BY <1>0 DEF Shape, Entries
<1>2. PayoutIs(y, x.amount, x.frozen_at, "Pending")
    <2> HIDE DEF x
    <2> QED BY <1>1 DEF PayoutEntry, PayoutIs
<1>3. PayoutEntry(y)
    <2> HIDE DEF y
    <2> QED BY <1>2 DEF PayoutEntry, PayoutIs
<1>4. g = [f EXCEPT !.payouts[key] = y]
    BY <1>0 DEF CreatorApplied, Shape, Copied
<1> HIDE DEF y, g, key
<1>5. Copied(f, g, f.campaigns, [f.payouts EXCEPT ![key] = y], f.disputes, f.received, f.collected)
    BY <1>4 DEF Shape, Copied
<1>6. OnlyPayout(f, g, key) /\ g.payouts[key] = y
    BY <1>0, <1>3, <1>5, ReplacePayout
<1> QED BY <1>2, <1>6 DEF g, key

LEMMA SubmittedEntry ==
    ASSUME NEW f, Shape(f), NEW c \in CampaignIds, NEW r \in Creators
    PROVE  LET g == ProofSubmitted(f, c, r)
               x == f.payouts[<<c, r>>]
           IN  /\ OnlyPayout(f, g, <<c, r>>)
               /\ PayoutIs(g.payouts[<<c, r>>], x.amount, x.frozen_at, "ProofSubmitted")
<1> DEFINE x == f.payouts[<<c, r>>]
           y == [x EXCEPT !.status = "ProofSubmitted"]
           key == <<c, r>>
           g == ProofSubmitted(f, c, r)
<1>0. key \in ApplicationKeys
    BY DEF ApplicationKeys
<1>1. PayoutEntry(x)
    BY <1>0 DEF Shape, Entries
<1>2. PayoutIs(y, x.amount, x.frozen_at, "ProofSubmitted")
    <2> HIDE DEF x
    <2> QED BY <1>1 DEF PayoutEntry, PayoutIs
<1>3. PayoutEntry(y)
    <2> HIDE DEF y
    <2> QED BY <1>2 DEF PayoutEntry, PayoutIs
<1>4. g = [f EXCEPT !.payouts[key] = y]
    BY <1>0 DEF ProofSubmitted, Shape, Copied
<1> HIDE DEF y, g, key
<1>5. Copied(f, g, f.campaigns, [f.payouts EXCEPT ![key] = y], f.disputes, f.received, f.collected)
    BY <1>4 DEF Shape, Copied
<1>6. OnlyPayout(f, g, key) /\ g.payouts[key] = y
    BY <1>0, <1>3, <1>5, ReplacePayout
<1> QED BY <1>2, <1>6 DEF g, key

LEMMA RejectedEntry ==
    ASSUME NEW f, Shape(f), NEW c \in CampaignIds, NEW r \in Creators
    PROVE  LET g == SubmissionRejected(f, c, r)
               x == f.payouts[<<c, r>>]
           IN  /\ OnlyPayout(f, g, <<c, r>>)
               /\ PayoutIs(g.payouts[<<c, r>>], x.amount, x.frozen_at, "Rejected")
<1> DEFINE x == f.payouts[<<c, r>>]
           y == [x EXCEPT !.status = "Rejected"]
           key == <<c, r>>
           g == SubmissionRejected(f, c, r)
<1>0. key \in ApplicationKeys
    BY DEF ApplicationKeys
<1>1. PayoutEntry(x)
    BY <1>0 DEF Shape, Entries
<1>2. PayoutIs(y, x.amount, x.frozen_at, "Rejected")
    <2> HIDE DEF x
    <2> QED BY <1>1 DEF PayoutEntry, PayoutIs
<1>3. PayoutEntry(y)
    <2> HIDE DEF y
    <2> QED BY <1>2 DEF PayoutEntry, PayoutIs
<1>4. g = [f EXCEPT !.payouts[key] = y]
    BY <1>0 DEF SubmissionRejected, Shape, Copied
<1> HIDE DEF y, g, key
<1>5. Copied(f, g, f.campaigns, [f.payouts EXCEPT ![key] = y], f.disputes, f.received, f.collected)
    BY <1>4 DEF Shape, Copied
<1>6. OnlyPayout(f, g, key) /\ g.payouts[key] = y
    BY <1>0, <1>3, <1>5, ReplacePayout
<1> QED BY <1>2, <1>6 DEF g, key

LEMMA FrozenEntry ==
    ASSUME NEW f, Shape(f), NEW c \in CampaignIds, NEW r \in Creators
    PROVE  LET g == DisputeFrozen(f, c, r)
               x == f.payouts[<<c, r>>]
           IN  /\ OnlyPayout(f, g, <<c, r>>)
               /\ PayoutIs(g.payouts[<<c, r>>], x.amount, now, x.status)
<1> DEFINE x == f.payouts[<<c, r>>]
           y == [x EXCEPT !.frozen_at = now]
           key == <<c, r>>
           g == DisputeFrozen(f, c, r)
<1>0. key \in ApplicationKeys
    BY DEF ApplicationKeys
<1>1. PayoutEntry(x)
    BY <1>0 DEF Shape, Entries
<1>2. PayoutIs(y, x.amount, now, x.status)
    <2> HIDE DEF x
    <2> QED BY <1>1 DEF PayoutEntry, PayoutIs
<1>3. PayoutEntry(y)
    <2> HIDE DEF y
    <2> QED BY <1>2 DEF PayoutEntry, PayoutIs
<1>4. g = [f EXCEPT !.payouts[key] = y]
    BY <1>0 DEF DisputeFrozen, Shape, Copied
<1> HIDE DEF y, g, key
<1>5. Copied(f, g, f.campaigns, [f.payouts EXCEPT ![key] = y], f.disputes, f.received, f.collected)
    BY <1>4 DEF Shape, Copied
<1>6. OnlyPayout(f, g, key) /\ g.payouts[key] = y
    BY <1>0, <1>3, <1>5, ReplacePayout
<1> QED BY <1>2, <1>6 DEF g, key

\* A dispute is raised, assigned, closed.
LEMMA RaisedEntry ==
    ASSUME NEW f, Shape(f), NEW id \in DisputeIds, NEW by
    PROVE  LET g == DisputeRaised(f, id, by)
               x == f.disputes[id]
           IN  /\ OnlyDispute(f, g, id)
               /\ DisputeIs(g.disputes[id], by, x.arbiter, "Raised")
<1> DEFINE x == f.disputes[id]
           y == [x EXCEPT !.raised_by = by, !.status = "Raised"]
           g == DisputeRaised(f, id, by)
<1>1. DisputeEntry(x)
    BY DEF Shape, Entries
<1>2. DisputeIs(y, by, x.arbiter, "Raised")
    <2> HIDE DEF x
    <2> QED BY <1>1 DEF DisputeEntry, DisputeIs
<1>3. DisputeEntry(y)
    <2> HIDE DEF y
    <2> QED BY <1>2 DEF DisputeEntry, DisputeIs
<1>4. g = [f EXCEPT !.disputes[id] = y]
    BY DEF DisputeRaised, Shape, Copied
<1> HIDE DEF y, g
<1>5. Copied(f, g, f.campaigns, f.payouts, [f.disputes EXCEPT ![id] = y], f.received, f.collected)
    BY <1>4 DEF Shape, Copied
<1>6. OnlyDispute(f, g, id) /\ g.disputes[id] = y
    BY <1>3, <1>5, ReplaceDispute
<1> QED BY <1>2, <1>6 DEF g

LEMMA AssignedEntry ==
    ASSUME NEW f, Shape(f), NEW id \in DisputeIds, NEW arbiter
    PROVE  LET g == ArbiterAssigned(f, id, arbiter)
               x == f.disputes[id]
           IN  /\ OnlyDispute(f, g, id)
               /\ DisputeIs(g.disputes[id], x.raised_by, arbiter, "UnderReview")
<1> DEFINE x == f.disputes[id]
           y == [x EXCEPT !.arbiter = arbiter, !.status = "UnderReview"]
           g == ArbiterAssigned(f, id, arbiter)
<1>1. DisputeEntry(x)
    BY DEF Shape, Entries
<1>2. DisputeIs(y, x.raised_by, arbiter, "UnderReview")
    <2> HIDE DEF x
    <2> QED BY <1>1 DEF DisputeEntry, DisputeIs
<1>3. DisputeEntry(y)
    <2> HIDE DEF y
    <2> QED BY <1>2 DEF DisputeEntry, DisputeIs
<1>4. g = [f EXCEPT !.disputes[id] = y]
    BY DEF ArbiterAssigned, Shape, Copied
<1> HIDE DEF y, g
<1>5. Copied(f, g, f.campaigns, f.payouts, [f.disputes EXCEPT ![id] = y], f.received, f.collected)
    BY <1>4 DEF Shape, Copied
<1>6. OnlyDispute(f, g, id) /\ g.disputes[id] = y
    BY <1>3, <1>5, ReplaceDispute
<1> QED BY <1>2, <1>6 DEF g

LEMMA ClosedEntry ==
    ASSUME NEW f, Shape(f), NEW id \in DisputeIds
    PROVE  LET g == DisputeClosed(f, id)
               x == f.disputes[id]
           IN  /\ OnlyDispute(f, g, id)
               /\ DisputeIs(g.disputes[id], x.raised_by, x.arbiter, "Resolved")
<1> DEFINE x == f.disputes[id]
           y == [x EXCEPT !.status = "Resolved"]
           g == DisputeClosed(f, id)
<1>1. DisputeEntry(x)
    BY DEF Shape, Entries
<1>2. DisputeIs(y, x.raised_by, x.arbiter, "Resolved")
    <2> HIDE DEF x
    <2> QED BY <1>1 DEF DisputeEntry, DisputeIs
<1>3. DisputeEntry(y)
    <2> HIDE DEF y
    <2> QED BY <1>2 DEF DisputeEntry, DisputeIs
<1>4. g = [f EXCEPT !.disputes[id] = y]
    BY DEF DisputeClosed, Shape, Copied
<1> HIDE DEF y, g
<1>5. Copied(f, g, f.campaigns, f.payouts, [f.disputes EXCEPT ![id] = y], f.received, f.collected)
    BY <1>4 DEF Shape, Copied
<1>6. OnlyDispute(f, g, id) /\ g.disputes[id] = y
    BY <1>3, <1>5, ReplaceDispute
<1> QED BY <1>2, <1>6 DEF g

\* A payout is agreed, and reserved; paid, and drawn from the escrow.
LEMMA ApprovedEntry ==
    ASSUME NEW f, Shape(f), NEW c \in CampaignIds, NEW r \in Creators, NEW amount
    PROVE  LET g == CreatorApproved(f, c, r, amount)
               camp == f.campaigns[c]
               app == f.payouts[<<c, r>>]
           IN  /\ OnlyBoth(f, g, c, <<c, r>>)
               /\ CampaignIs(g.campaigns[c], camp.business, camp.escrow, camp.reserve + amount,
                             camp.brief, "Active")
               /\ PayoutIs(g.payouts[<<c, r>>], amount, app.frozen_at, "Approved")
<1> DEFINE key == <<c, r>>
           camp == f.campaigns[c]
           app == f.payouts[key]
           x == Reserved(camp, amount)
           y == [app EXCEPT !.status = "Approved", !.amount = amount]
           g == CreatorApproved(f, c, r, amount)
<1>1. key \in ApplicationKeys /\ CampaignEntry(camp) /\ PayoutEntry(app)
    BY DEF Shape, Entries, ApplicationKeys
<1>2. /\ CampaignIs(x, camp.business, camp.escrow, camp.reserve + amount, camp.brief, "Active")
      /\ PayoutIs(y, amount, app.frozen_at, "Approved")
    <2> HIDE DEF camp, app
    <2> QED BY <1>1 DEF CampaignEntry, CampaignIs, PayoutEntry, PayoutIs, Reserved
<1>3. CampaignEntry(x) /\ PayoutEntry(y)
    <2> HIDE DEF x, y
    <2> QED BY <1>2 DEF CampaignEntry, CampaignIs, PayoutEntry, PayoutIs
<1>4. g = [f EXCEPT !.payouts[key] = y, !.campaigns[c] = x]
    BY <1>1 DEF CreatorApproved, Shape, Copied
<1> HIDE DEF x, y, g, key
<1>5. Copied(f, g, [f.campaigns EXCEPT ![c] = x], [f.payouts EXCEPT ![key] = y], f.disputes,
             f.received, f.collected)
    BY <1>4 DEF Shape, Copied
<1>6. OnlyBoth(f, g, c, key) /\ g.campaigns[c] = x /\ g.payouts[key] = y
    BY <1>1, <1>3, <1>5, ReplaceBoth
<1> QED BY <1>2, <1>6 DEF g, key

LEMMA PaidOutEntry ==
    ASSUME NEW f, Shape(f), NEW c \in CampaignIds, NEW r \in Creators, NEW to_creator, NEW to_business
    PROVE  LET g == PaidOut(f, c, r, to_creator, to_business)
               camp == f.campaigns[c]
               app == f.payouts[<<c, r>>]
           IN  /\ OnlyBoth(f, g, c, <<c, r>>)
               /\ CampaignIs(g.campaigns[c], camp.business, camp.escrow - app.amount,
                             camp.reserve - app.amount, camp.brief,
                             IF camp.escrow = app.amount THEN "Completed" ELSE camp.status)
               /\ PayoutIs(g.payouts[<<c, r>>], app.amount, Null, "Paid")
<1> DEFINE key == <<c, r>>
           camp == f.campaigns[c]
           app == f.payouts[key]
           less == [camp EXCEPT !.reserve = camp.reserve - app.amount]
           x == Spent(camp, app.amount)
           y == [app EXCEPT !.status = "Paid", !.frozen_at = Null]
           g == PaidOut(f, c, r, to_creator, to_business)
<1>1. key \in ApplicationKeys /\ CampaignEntry(camp) /\ PayoutEntry(app)
    BY DEF Shape, Entries, ApplicationKeys
<1>2. /\ CampaignIs(less, camp.business, camp.escrow, camp.reserve - app.amount, camp.brief, camp.status)
      /\ x = Drawn(less, app.amount)
    <2> HIDE DEF camp, app
    <2> QED BY <1>1 DEF CampaignEntry, CampaignIs, Spent
<1>3. /\ CampaignIs(x, camp.business, camp.escrow - app.amount, camp.reserve - app.amount,
                    camp.brief, IF camp.escrow = app.amount THEN "Completed" ELSE camp.status)
      /\ PayoutIs(y, app.amount, Null, "Paid")
    <2> HIDE DEF camp, app, less, x
    <2> QED BY <1>1, <1>2 DEF CampaignIs, Drawn, PayoutEntry, PayoutIs
<1>4. CampaignEntry(x) /\ PayoutEntry(y)
    <2> HIDE DEF x, y
    <2> QED BY <1>3 DEF CampaignEntry, CampaignIs, PayoutEntry, PayoutIs
<1> DEFINE received == Credited(Credited(f.received, r, to_creator), camp.business, to_business)
           collected == f.collected + (app.amount - to_creator - to_business)
<1>5. g = [f EXCEPT !.payouts[key] = y, !.campaigns[c] = x, !.received = received,
                    !.collected = collected]
    BY <1>1 DEF PaidOut, Shape, Copied
<1> HIDE DEF x, y, g, key, camp, received, collected
<1>6. Copied(f, g, [f.campaigns EXCEPT ![c] = x], [f.payouts EXCEPT ![key] = y], f.disputes,
             received, collected)
    BY <1>5 DEF Shape, Copied
<1>7. OnlyBoth(f, g, c, key) /\ g.campaigns[c] = x /\ g.payouts[key] = y
    BY <1>1, <1>4, <1>6, ReplaceBoth
<1> QED BY <1>3, <1>7 DEF g, key, camp

\* The events about the contract itself.
LEMMA DeployedEntry ==
    ASSUME NEW f, Shape(f), NEW a, NEW fee
    PROVE  OnlySettings(f, Deployed(f, a, fee), a, f.proposed, a, fee, f.paused)
    BY DEF Shape, Copied, OnlySettings, Deployed

LEMMA PausedEntry ==
    ASSUME NEW f, Shape(f), NEW p
    PROVE  OnlySettings(f, [f EXCEPT !.paused = p], f.admin, f.proposed, f.treasury, f.fee_bps, p)
    BY DEF Shape, Copied, OnlySettings

LEMMA ProposedEntry ==
    ASSUME NEW f, Shape(f), NEW a
    PROVE  OnlySettings(f, AdminProposed(f, a), f.admin, a, f.treasury, f.fee_bps, f.paused)
    BY DEF Shape, Copied, OnlySettings, AdminProposed

LEMMA TransferredEntry ==
    ASSUME NEW f, Shape(f), NEW a
    PROVE  OnlySettings(f, AdminTransferred(f, a), a, Null, f.treasury, f.fee_bps, f.paused)
    BY DEF Shape, Copied, OnlySettings, AdminTransferred

LEMMA FeeEntry ==
    ASSUME NEW f, Shape(f), NEW fee
    PROVE  OnlySettings(f, FeeUpdated(f, fee), f.admin, f.proposed, f.treasury, fee, f.paused)
    BY DEF Shape, Copied, OnlySettings, FeeUpdated

LEMMA TreasuryEntry ==
    ASSUME NEW f, Shape(f), NEW a
    PROVE  OnlySettings(f, TreasuryUpdated(f, a), f.admin, f.proposed, a, f.fee_bps, f.paused)
    BY DEF Shape, Copied, OnlySettings, TreasuryUpdated

--------------------------------------------------------------------------------
(* The indexer only looks on.                                                *)

\* Every step of the watched contracts is one of the contracts'.
LEMMA FeedStepIsSystemStep == [FeedNext]_feedVars => [SystemNext]_systemVars
<1>1. FeedGovernance => Governance
    BY DEF FeedGovernance, Governance
<1>2. FeedNewCampaign => NewCampaign
    BY DEF FeedNewCampaign, NewCampaign
<1>3. \A c \in CampaignIds : FeedCampaignStep(c) => CampaignStep(c)
    BY DEF FeedCampaignStep, CampaignStep
<1>4. \A c \in CampaignIds, r \in Creators : FeedPayoutStep(c, r) => PayoutStep(c, r)
    BY DEF FeedPayoutStep, PayoutStep
<1>5. FeedEscrowStep => EscrowStep
    BY <1>1, <1>2, <1>3, <1>4 DEF FeedEscrowStep, EscrowStep
<1>6. FeedAssignArbiter => AssignArbiter
    BY DEF FeedAssignArbiter, AssignArbiter
<1>7. \A c \in CampaignIds, r \in Creators : FeedDisputeStep(c, r) => DisputeStep(c, r)
    BY DEF FeedDisputeStep, FeedRaiseDispute, FeedFreezeDirectly, FeedSettleDispute,
           FeedRaiseElsewhere, FeedCloseElsewhere, DisputeStep
<1> QED BY <1>5, <1>6, <1>7 DEF FeedNext, SystemNext, feedVars

\* So every theorem about them stands with an indexer beside them.
LEMMA WatchedSystemIsSystem == FeedSpec => SystemSpec
<1>1. FeedInit => SystemInit
    BY DEF FeedInit
<1> QED BY <1>1, FeedStepIsSystemStep, PTL DEF FeedSpec, SystemSpec

--------------------------------------------------------------------------------
(* The copy beside the state.                                                *)

CampaignMatches(x, camp) ==
    /\ x.business = camp.business /\ x.status = camp.status
    /\ x.escrow = camp.escrow_balance /\ x.reserve = camp.committed_payouts
    /\ x.brief \in {Null, camp.metadata_uri}
PayoutMatches(x, app) ==
    x.amount = app.payout_amount /\ x.frozen_at = app.dispute_opened_at /\ x.status = app.status
DisputeMatches(x, record) ==
    x.raised_by = record.raised_by /\ x.arbiter = record.arbiter /\ x.status = record.status

CampaignsMatch == \A c \in CampaignIds : CampaignMatches(feed.campaigns[c], campaigns[c])
PayoutsMatch == \A key \in ApplicationKeys : PayoutMatches(feed.payouts[key], applications[key])
DisputesMatch == \A id \in DisputeIds : DisputeMatches(feed.disputes[id], disputes[id])
SettingsMatch ==
    /\ feed.paused = instance.paused /\ feed.proposed = instance.pending_admin
    /\ feed.admin = instance.admin /\ feed.treasury = instance.treasury
    /\ feed.fee_bps = instance.fee_bps

\* FeedReconciles, and the copy's shape, which makes it inductive.
Reconciled == Shape(feed) /\ CampaignsMatch /\ PayoutsMatch /\ DisputesMatch /\ SettingsMatch

FeedInv == SystemInv /\ Reconciled

\* What the run checks follows.
LEMMA ReconciledSays == Reconciled => FeedReconciles
<1> SUFFICES ASSUME Reconciled PROVE FeedReconciles
    OBVIOUS
<1>1. ASSUME NEW x, PayoutEntry(x), NEW app, PayoutMatches(x, app)
      PROVE  x = [amount |-> app.payout_amount, frozen_at |-> app.dispute_opened_at,
                  status |-> app.status]
    BY <1>1 DEF PayoutEntry, PayoutIs, PayoutMatches
<1>2. ASSUME NEW x, DisputeEntry(x), NEW record, DisputeMatches(x, record)
      PROVE  x = [raised_by |-> record.raised_by, arbiter |-> record.arbiter,
                  status |-> record.status]
    BY <1>2 DEF DisputeEntry, DisputeIs, DisputeMatches
<1>3. \A key \in ApplicationKeys :
        feed.payouts[key] = [amount |-> applications[key].payout_amount,
                             frozen_at |-> applications[key].dispute_opened_at,
                             status |-> applications[key].status]
    BY <1>1 DEF Reconciled, Shape, Entries, PayoutsMatch
<1>4. \A id \in DisputeIds :
        feed.disputes[id] = [raised_by |-> disputes[id].raised_by,
                             arbiter |-> disputes[id].arbiter, status |-> disputes[id].status]
    BY <1>2 DEF Reconciled, Shape, Entries, DisputesMatch
<1>5. \A c \in CampaignIds : CampaignMatches(feed.campaigns[c], campaigns[c])
    BY DEF Reconciled, CampaignsMatch
<1> QED BY <1>3, <1>4, <1>5 DEF FeedReconciles, CampaignMatches, Reconciled, SettingsMatch, DisputeIds

\* Before any event there is nothing to tell.
LEMMA FeedInitially == FeedInit => Reconciled
<1> SUFFICES ASSUME FeedInit PROVE Reconciled
    OBVIOUS
<1>1. /\ \A c \in CampaignIds :
            feed.campaigns[c] = [business |-> Null, escrow |-> 0, reserve |-> 0, brief |-> Null,
                                 status |-> "None"]
      /\ \A key \in ApplicationKeys :
            feed.payouts[key] = [amount |-> 0, frozen_at |-> Null, status |-> "None"]
      /\ \A id \in DisputeIds :
            feed.disputes[id] = [raised_by |-> Null, arbiter |-> Null, status |-> "None"]
      /\ feed.admin = Null /\ feed.proposed = Null /\ feed.treasury = Null
      /\ feed.fee_bps = Null /\ feed.paused = FALSE
    BY DEF FeedInit, DisputeIds
<1>2. /\ feed.campaigns = [c \in CampaignIds |-> feed.campaigns[c]]
      /\ feed.payouts = [key \in ApplicationKeys |-> feed.payouts[key]]
      /\ feed.disputes = [id \in DisputeIds |-> feed.disputes[id]]
    BY DEF FeedInit, DisputeIds
<1>3. Copied(feed, feed, feed.campaigns, feed.payouts, feed.disputes, feed.received, feed.collected)
    BY DEF FeedInit, Copied
<1>4. Entries(feed.campaigns, feed.payouts, feed.disputes)
    BY <1>1, <1>2 DEF Entries, CampaignEntry, CampaignIs, PayoutEntry, PayoutIs, DisputeEntry, DisputeIs
<1>5. CampaignsMatch /\ PayoutsMatch
    BY <1>1 DEF CampaignsMatch, CampaignMatches, PayoutsMatch, PayoutMatches, FeedInit, SystemInit,
                Init, NoCampaign, NoApplication
<1>6. DisputesMatch
    BY <1>1 DEF DisputesMatch, DisputeMatches, FeedInit, SystemInit, Disputes!Init,
                Disputes!NoDispute, DisputeIds
<1>7. SettingsMatch
    BY <1>1 DEF SettingsMatch, FeedInit, SystemInit, Init
<1> QED BY <1>3, <1>4, <1>5, <1>6, <1>7 DEF Reconciled, Shape

\* The settings of the contract the events tell of.
InstanceKept ==
    /\ instance'.paused = instance.paused /\ instance'.pending_admin = instance.pending_admin
    /\ instance'.admin = instance.admin /\ instance'.treasury = instance.treasury
    /\ instance'.fee_bps = instance.fee_bps

\* What a step leaves alone, in the state and in the copy, still agrees.
LEMMA SettingsKept ==
    ASSUME Reconciled, SameSettings(feed, feed'), InstanceKept
    PROVE  SettingsMatch'
    BY DEF Reconciled, SettingsMatch, SameSettings, InstanceKept

LEMMA CampaignsKept ==
    ASSUME Reconciled, NEW c \in CampaignIds,
           \A d \in CampaignIds \ {c} : feed'.campaigns[d] = feed.campaigns[d]
                                        /\ campaigns'[d] = campaigns[d],
           CampaignMatches(feed'.campaigns[c], campaigns'[c])
    PROVE  CampaignsMatch'
    BY DEF Reconciled, CampaignsMatch, CampaignMatches

LEMMA PayoutsKept ==
    ASSUME Reconciled, NEW key \in ApplicationKeys,
           \A k \in ApplicationKeys \ {key} : feed'.payouts[k] = feed.payouts[k]
                                              /\ applications'[k] = applications[k],
           PayoutMatches(feed'.payouts[key], applications'[key])
    PROVE  PayoutsMatch'
    BY DEF Reconciled, PayoutsMatch, PayoutMatches

LEMMA DisputesKept ==
    ASSUME Reconciled, NEW id \in DisputeIds,
           \A d \in DisputeIds \ {id} : feed'.disputes[d] = feed.disputes[d]
                                        /\ disputes'[d] = disputes[d],
           DisputeMatches(feed'.disputes[id], disputes'[id])
    PROVE  DisputesMatch'
    BY DEF Reconciled, DisputesMatch, DisputeMatches

LEMMA PartsKept ==
    ASSUME Reconciled
    PROVE  /\ feed'.campaigns = feed.campaigns /\ campaigns' = campaigns => CampaignsMatch'
           /\ feed'.payouts = feed.payouts /\ applications' = applications => PayoutsMatch'
           /\ feed'.disputes = feed.disputes /\ disputes' = disputes => DisputesMatch'
<1>1. feed'.campaigns = feed.campaigns /\ campaigns' = campaigns => CampaignsMatch'
    BY DEF Reconciled, CampaignsMatch, CampaignMatches
<1>2. feed'.payouts = feed.payouts /\ applications' = applications => PayoutsMatch'
    BY DEF Reconciled, PayoutsMatch, PayoutMatches
<1>3. feed'.disputes = feed.disputes /\ disputes' = disputes => DisputesMatch'
    BY DEF Reconciled, DisputesMatch, DisputeMatches
<1> QED BY <1>1, <1>2, <1>3

\* The forms the contracts' steps come in: one campaign, one payout, both.
LEMMA CampaignOnly ==
    ASSUME Reconciled, NEW c \in CampaignIds, OnlyCampaign(feed, feed', c),
           \A d \in CampaignIds \ {c} : campaigns'[d] = campaigns[d],
           CampaignMatches(feed'.campaigns[c], campaigns'[c]),
           InstanceKept, UNCHANGED <<applications, disputes>>
    PROVE  Reconciled'
<1>1. Shape(feed') /\ SameSettings(feed, feed')
    BY DEF OnlyCampaign
<1>2. CampaignsMatch'
    BY CampaignsKept DEF OnlyCampaign
<1>3. PayoutsMatch' /\ DisputesMatch'
    BY PartsKept DEF OnlyCampaign
<1> QED BY <1>1, <1>2, <1>3, SettingsKept DEF Reconciled

\* A step about one payout need only be checked at its entry.
LEMMA PayoutOnly ==
    ASSUME Reconciled, NEW key \in ApplicationKeys, OnlyPayout(feed, feed', key),
           \A k \in ApplicationKeys \ {key} : applications'[k] = applications[k],
           PayoutMatches(feed'.payouts[key], applications'[key]),
           UNCHANGED <<campaigns, disputes, instance>>
    PROVE  Reconciled'
<1>1. Shape(feed') /\ SameSettings(feed, feed') /\ InstanceKept
    BY DEF OnlyPayout, InstanceKept
<1>2. PayoutsMatch'
    BY PayoutsKept DEF OnlyPayout
<1>3. CampaignsMatch' /\ DisputesMatch'
    BY PartsKept DEF OnlyPayout
<1> QED BY <1>1, <1>2, <1>3, SettingsKept DEF Reconciled

--------------------------------------------------------------------------------
(* Step by step.                                                             *)

\* Setup and governance.
LEMMA GovernanceReconciles ==
    ASSUME SystemInv, Reconciled, FeedGovernance, UNCHANGED disputeVars
    PROVE  Reconciled'
<1>1. instance \in Instance /\ Shape(feed)
    BY DEF SystemInv, LifeInv, EscrowInv, TypeOK, Reconciled
<1>2. ASSUME NEW admin, NEW proposed, NEW treasury, NEW fee_bps, NEW paused,
             OnlySettings(feed, feed', admin, proposed, treasury, fee_bps, paused),
             instance'.admin = admin, instance'.pending_admin = proposed,
             instance'.treasury = treasury, instance'.fee_bps = fee_bps,
             instance'.paused = paused, UNCHANGED <<campaigns, applications>>
      PROVE  Reconciled'
    <2>1. SettingsMatch'
        BY <1>2 DEF SettingsMatch, OnlySettings
    <2> QED BY <1>2, <2>1, PartsKept DEF OnlySettings, Reconciled, disputeVars
<1>3. PICK admin \in Admins :
        \/ \E d \in DisputeContracts, fee \in InitialFees :
            Initialize(admin, d, fee) /\ Publish(Deployed(feed, admin, fee))
        \/ Pause(admin) /\ Publish(ContractPaused(feed))
        \/ Unpause(admin) /\ Publish(ContractUnpaused(feed))
        \/ \E new_admin \in Admins :
            ProposeAdmin(admin, new_admin) /\ Publish(AdminProposed(feed, new_admin))
        \/ AcceptAdmin(admin) /\ Publish(AdminTransferred(feed, admin))
        \/ \E fee \in NewFees : UpdateFeeBps(admin, fee) /\ Publish(FeeUpdated(feed, fee))
        \/ \E treasury \in Treasuries :
            UpdateTreasury(admin, treasury) /\ Publish(TreasuryUpdated(feed, treasury))
    BY DEF FeedGovernance
<1>4. ASSUME NEW d \in DisputeContracts, NEW fee \in InitialFees,
             Initialize(admin, d, fee), Publish(Deployed(feed, admin, fee))
      PROVE  Reconciled'
    <2>1. OnlySettings(feed, feed', admin, feed.proposed, admin, fee, feed.paused)
        BY <1>1, <1>4, DeployedEntry DEF Publish
    <2>2. /\ instance' = [instance EXCEPT !.admin = admin, !.treasury = admin,
                                          !.dispute_contract = d, !.fee_bps = fee]
          /\ UNCHANGED <<campaigns, applications>>
        BY <1>4 DEF Initialize
    <2>3. /\ instance'.admin = admin /\ instance'.pending_admin = instance.pending_admin
          /\ instance'.treasury = admin /\ instance'.fee_bps = fee
          /\ instance'.paused = instance.paused
        BY <1>1, <2>2 DEF Instance
    <2>4. SettingsMatch
        BY DEF Reconciled
    <2> QED BY <1>2, <2>1, <2>2, <2>3, <2>4 DEF SettingsMatch
<1>5. ASSUME NEW p \in BOOLEAN, SetPaused(admin, p), feed' = [feed EXCEPT !.paused = p]
      PROVE  Reconciled'
    <2>1. OnlySettings(feed, feed', feed.admin, feed.proposed, feed.treasury, feed.fee_bps, p)
        BY <1>1, <1>5, PausedEntry
    <2>2. /\ instance' = [instance EXCEPT !.paused = p]
          /\ UNCHANGED <<campaigns, applications>>
        BY <1>5 DEF SetPaused
    <2>3. /\ instance'.admin = instance.admin /\ instance'.pending_admin = instance.pending_admin
          /\ instance'.treasury = instance.treasury /\ instance'.fee_bps = instance.fee_bps
          /\ instance'.paused = p
        BY <1>1, <2>2 DEF Instance
    <2>4. SettingsMatch
        BY DEF Reconciled
    <2> QED BY <1>2, <2>1, <2>2, <2>3, <2>4 DEF SettingsMatch
<1>6. ASSUME NEW new_admin \in Admins, ProposeAdmin(admin, new_admin),
             Publish(AdminProposed(feed, new_admin))
      PROVE  Reconciled'
    <2>1. OnlySettings(feed, feed', feed.admin, new_admin, feed.treasury, feed.fee_bps, feed.paused)
        BY <1>1, <1>6, ProposedEntry DEF Publish
    <2>2. /\ instance' = [instance EXCEPT !.pending_admin = new_admin]
          /\ UNCHANGED <<campaigns, applications>>
        BY <1>6 DEF ProposeAdmin
    <2>3. /\ instance'.admin = instance.admin /\ instance'.pending_admin = new_admin
          /\ instance'.treasury = instance.treasury /\ instance'.fee_bps = instance.fee_bps
          /\ instance'.paused = instance.paused
        BY <1>1, <2>2 DEF Instance
    <2>4. SettingsMatch
        BY DEF Reconciled
    <2> QED BY <1>2, <2>1, <2>2, <2>3, <2>4 DEF SettingsMatch
<1>7. ASSUME AcceptAdmin(admin), Publish(AdminTransferred(feed, admin))
      PROVE  Reconciled'
    <2>1. OnlySettings(feed, feed', admin, Null, feed.treasury, feed.fee_bps, feed.paused)
        BY <1>1, <1>7, TransferredEntry DEF Publish
    <2>2. /\ instance' = [instance EXCEPT !.admin = admin, !.pending_admin = Null]
          /\ UNCHANGED <<campaigns, applications>>
        BY <1>7 DEF AcceptAdmin
    <2>3. /\ instance'.admin = admin /\ instance'.pending_admin = Null
          /\ instance'.treasury = instance.treasury /\ instance'.fee_bps = instance.fee_bps
          /\ instance'.paused = instance.paused
        BY <1>1, <2>2 DEF Instance
    <2>4. SettingsMatch
        BY DEF Reconciled
    <2> QED BY <1>2, <2>1, <2>2, <2>3, <2>4 DEF SettingsMatch
<1>8. ASSUME NEW fee \in NewFees, UpdateFeeBps(admin, fee), Publish(FeeUpdated(feed, fee))
      PROVE  Reconciled'
    <2>1. OnlySettings(feed, feed', feed.admin, feed.proposed, feed.treasury, fee, feed.paused)
        BY <1>1, <1>8, FeeEntry DEF Publish
    <2>2. /\ instance' = [instance EXCEPT !.fee_bps = fee]
          /\ UNCHANGED <<campaigns, applications>>
        BY <1>8 DEF UpdateFeeBps
    <2>3. /\ instance'.admin = instance.admin /\ instance'.pending_admin = instance.pending_admin
          /\ instance'.treasury = instance.treasury /\ instance'.fee_bps = fee
          /\ instance'.paused = instance.paused
        BY <1>1, <2>2 DEF Instance
    <2>4. SettingsMatch
        BY DEF Reconciled
    <2> QED BY <1>2, <2>1, <2>2, <2>3, <2>4 DEF SettingsMatch
<1>9. ASSUME NEW treasury \in Treasuries, UpdateTreasury(admin, treasury),
             Publish(TreasuryUpdated(feed, treasury))
      PROVE  Reconciled'
    <2>1. OnlySettings(feed, feed', feed.admin, feed.proposed, treasury, feed.fee_bps, feed.paused)
        BY <1>1, <1>9, TreasuryEntry DEF Publish
    <2>2. /\ instance' = [instance EXCEPT !.treasury = treasury]
          /\ UNCHANGED <<campaigns, applications>>
        BY <1>9 DEF UpdateTreasury
    <2>3. /\ instance'.admin = instance.admin /\ instance'.pending_admin = instance.pending_admin
          /\ instance'.treasury = treasury /\ instance'.fee_bps = instance.fee_bps
          /\ instance'.paused = instance.paused
        BY <1>1, <2>2 DEF Instance
    <2>4. SettingsMatch
        BY DEF Reconciled
    <2> QED BY <1>2, <2>1, <2>2, <2>3, <2>4 DEF SettingsMatch
<1>10. ASSUME Pause(admin), Publish(ContractPaused(feed)) PROVE Reconciled'
    BY <1>5, <1>10 DEF Pause, Publish, ContractPaused
<1>11. ASSUME Unpause(admin), Publish(ContractUnpaused(feed)) PROVE Reconciled'
    BY <1>5, <1>11 DEF Unpause, Publish, ContractUnpaused
<1> QED BY <1>3, <1>4, <1>6, <1>7, <1>8, <1>9, <1>10, <1>11

\* A new campaign takes an id nobody has published anything about.
LEMMA CreateReconciles ==
    ASSUME SystemInv, Reconciled, FeedNewCampaign, UNCHANGED disputeVars
    PROVE  Reconciled'
<1> DEFINE c == instance.next_campaign_id
<1>1. PICK b \in Businesses, t \in Tokens, budget \in Budgets, n \in CreatorCounts,
           apply_by \in Deadlines, complete_by \in Deadlines, brief \in Briefs :
        /\ CreateCampaign(b, t, budget, n, apply_by, complete_by, brief)
        /\ Publish(CampaignCreated(feed, b, instance.next_campaign_id))
    BY DEF FeedNewCampaign
<1>2. instance \in Instance /\ campaigns \in [CampaignIds -> Campaign] /\ Shape(feed)
    BY DEF SystemInv, LifeInv, EscrowInv, TypeOK, Reconciled
<1>3. c \in CampaignIds
    BY <1>1, <1>2 DEF CreateCampaign, Instance, CampaignIds
<1>4. campaigns[c] = NoCampaign
    <2>1. c >= instance.next_campaign_id
        BY <1>2 DEF Instance
    <2> QED BY <1>3, <2>1 DEF SystemInv, LifeInv, EscrowInv, IdleHoldsNothing
<1>5. /\ feed.campaigns[c].escrow = 0 /\ feed.campaigns[c].reserve = 0
      /\ feed.campaigns[c].brief = Null
    <2>1. CampaignMatches(feed.campaigns[c], NoCampaign)
        BY <1>3, <1>4 DEF Reconciled, CampaignsMatch
    <2> QED BY <2>1 DEF CampaignMatches, NoCampaign
<1>6. /\ OnlyCampaign(feed, feed', c)
      /\ CampaignIs(feed'.campaigns[c], b, 0, 0, Null, "Draft")
    BY <1>1, <1>2, <1>3, <1>5, CreatedEntry DEF Publish
<1>7. /\ campaigns'[c] = [business |-> b, token |-> t, total_budget |-> budget,
             escrow_balance |-> 0, committed_payouts |-> 0, fee_bps |-> instance.fee_bps,
             max_creators |-> n, approved_count |-> 0, application_deadline |-> apply_by,
             completion_deadline |-> complete_by, metadata_uri |-> brief, status |-> "Draft"]
      /\ \A d \in CampaignIds \ {c} : campaigns'[d] = campaigns[d]
      /\ UNCHANGED <<applications, disputes>>
    BY <1>1, <1>2, <1>3 DEF CreateCampaign, disputeVars
<1>8. instance' = [instance EXCEPT !.next_campaign_id = c + 1]
    BY <1>1, <1>2 DEF CreateCampaign, Instance
<1>9. InstanceKept
    BY <1>2, <1>8 DEF Instance, InstanceKept
<1>10. CampaignMatches(feed'.campaigns[c], campaigns'[c])
    BY <1>6, <1>7 DEF CampaignIs, CampaignMatches
<1> HIDE DEF c
<1> QED BY <1>3, <1>6, <1>7, <1>9, <1>10, CampaignOnly

\* Funding, a new brief, and whatever sends the free part of the escrow away.
LEMMA CampaignStepReconciles ==
    ASSUME SystemInv, Reconciled, NEW c \in CampaignIds, FeedCampaignStep(c), UNCHANGED disputeVars
    PROVE  Reconciled'
<1> DEFINE camp == campaigns[c]
           x == feed.campaigns[c]
           y == feed'.campaigns[c]
<1>1. /\ campaigns \in [CampaignIds -> Campaign] /\ camp \in Campaign /\ Shape(feed)
      /\ camp.escrow_balance \in Nat /\ camp.committed_payouts \in Nat
    BY DEF SystemInv, LifeInv, EscrowInv, TypeOK, Reconciled, Campaign
<1>2. CampaignMatches(x, camp)
    BY DEF Reconciled, CampaignsMatch
<1>3. ASSUME NEW b \in Businesses, FundCampaign(b, c),
             Publish(CampaignFunded(feed, c, campaigns[c].total_budget))
      PROVE  Reconciled'
    <2>1. /\ OnlyCampaign(feed, feed', c)
          /\ CampaignIs(y, x.business, camp.total_budget, x.reserve, x.brief, "Funded")
        BY <1>1, <1>3, FundedEntry DEF Publish
    <2>2. campaigns' = [campaigns EXCEPT ![c].escrow_balance = camp.total_budget,
                                         ![c].status = "Funded"]
        BY <1>3 DEF FundCampaign
    <2>3. /\ campaigns'[c] = [camp EXCEPT !.escrow_balance = camp.total_budget, !.status = "Funded"]
          /\ \A d \in CampaignIds \ {c} : campaigns'[d] = campaigns[d]
        BY <1>1, <2>2
    <2>4. CampaignMatches(y, campaigns'[c])
        BY <1>1, <1>2, <2>1, <2>3 DEF CampaignIs, CampaignMatches, Campaign
    <2>5. UNCHANGED <<applications, disputes>> /\ InstanceKept
        BY <1>3 DEF FundCampaign, disputeVars, InstanceKept
    <2> QED BY <2>1, <2>3, <2>4, <2>5, CampaignOnly
<1>4. ASSUME NEW b \in Businesses, NEW brief \in Briefs, UpdateCampaignMetadata(c, b, brief),
             Publish(CampaignMetadataUpdated(feed, c, brief))
      PROVE  Reconciled'
    <2>1. /\ OnlyCampaign(feed, feed', c)
          /\ CampaignIs(y, x.business, x.escrow, x.reserve, brief, x.status)
        BY <1>1, <1>4, DescribedEntry DEF Publish
    <2>2. campaigns' = [campaigns EXCEPT ![c].metadata_uri = brief]
        BY <1>4 DEF UpdateCampaignMetadata
    <2>3. /\ campaigns'[c] = [camp EXCEPT !.metadata_uri = brief]
          /\ \A d \in CampaignIds \ {c} : campaigns'[d] = campaigns[d]
        BY <1>1, <2>2
    <2>4. CampaignMatches(y, campaigns'[c])
        BY <1>1, <1>2, <2>1, <2>3 DEF CampaignIs, CampaignMatches, Campaign
    <2>5. UNCHANGED <<applications, disputes>> /\ InstanceKept
        BY <1>4 DEF UpdateCampaignMetadata, disputeVars, InstanceKept
    <2> QED BY <2>1, <2>3, <2>4, <2>5, CampaignOnly
<1>5. ASSUME NEW to, NEW status, Sweep(c, to, status), OnlyCampaign(feed, feed', c),
             CampaignIs(y, x.business, x.escrow - Swept(c), x.reserve, x.brief, status)
      PROVE  Reconciled'
    <2>1. campaigns' = [campaigns EXCEPT ![c].escrow_balance = camp.committed_payouts,
                                         ![c].status = status]
        BY <1>5 DEF Sweep
    <2>2. /\ campaigns'[c] = [camp EXCEPT !.escrow_balance = camp.committed_payouts, !.status = status]
          /\ \A d \in CampaignIds \ {c} : campaigns'[d] = campaigns[d]
        BY <1>1, <2>1
    <2>3. x.escrow - Swept(c) = camp.committed_payouts
        BY <1>1, <1>2 DEF CampaignMatches, Swept, Unallocated
    <2>4. CampaignMatches(y, campaigns'[c])
        BY <1>1, <1>2, <1>5, <2>2, <2>3 DEF CampaignIs, CampaignMatches, Campaign
    <2>5. UNCHANGED <<applications, disputes>> /\ InstanceKept
        BY <1>5 DEF Sweep, disputeVars, InstanceKept
    <2> QED BY <1>5, <2>2, <2>4, <2>5, CampaignOnly
<1>6. ASSUME NEW b \in Businesses, CancelCampaign(b, c) \/ ExpireCampaign(b, c),
             Publish(CampaignCancelled(feed, c, Swept(c)))
      PROVE  Reconciled'
    <2>1. /\ OnlyCampaign(feed, feed', c)
          /\ CampaignIs(y, x.business, x.escrow - Swept(c), x.reserve, x.brief, "Cancelled")
        BY <1>1, <1>6, CancelledEntry DEF Publish
    <2>2. Sweep(c, b, "Cancelled")
        BY <1>6 DEF CancelCampaign, ExpireCampaign
    <2> QED BY <1>5, <2>1, <2>2
<1>7. ASSUME NEW b \in Businesses, ReclaimSurplus(b, c),
             Publish(SurplusReclaimed(feed, c, Swept(c)))
      PROVE  Reconciled'
    <2> DEFINE status == IF camp.committed_payouts = 0 THEN "Completed" ELSE camp.status
    <2>1. /\ OnlyCampaign(feed, feed', c)
          /\ CampaignIs(y, x.business, x.escrow - Swept(c), x.reserve, x.brief,
                        IF x.escrow = Swept(c) THEN "Completed" ELSE x.status)
        BY <1>1, <1>7, ReclaimedEntry DEF Publish
    <2>2. (IF x.escrow = Swept(c) THEN "Completed" ELSE x.status) = status
        BY <1>1, <1>2 DEF CampaignMatches, Swept, Unallocated
    <2>3. Sweep(c, b, status)
        BY <1>7 DEF ReclaimSurplus
    <2> HIDE DEF status
    <2> QED BY <1>5, <2>1, <2>2, <2>3
<1>8. ASSUME NEW a \in Admins, EmergencyRecoverCampaign(a, c),
             Publish(EmergencyRecovery(feed, c, Swept(c)))
      PROVE  Reconciled'
    <2>1. /\ OnlyCampaign(feed, feed', c)
          /\ CampaignIs(y, x.business, x.escrow - Swept(c), x.reserve, x.brief, "Cancelled")
        BY <1>1, <1>8, RecoveredEntry DEF Publish
    <2>2. Sweep(c, instance.treasury, "Cancelled")
        BY <1>8 DEF EmergencyRecoverCampaign
    <2> QED BY <1>5, <2>1, <2>2
<1> QED BY <1>3, <1>4, <1>6, <1>7, <1>8 DEF FeedCampaignStep

\* What the payment of a payout does to its campaign's books, and what the events
\* that tell of it do to the copy.
LEMMA SettlementMatches ==
    ASSUME SystemInv, NEW c \in CampaignIds, NEW r \in Creators, ~Paid(<<c, r>>), NEW x, NEW y,
           CampaignMatches(x, campaigns[c]),
           campaigns' = [campaigns EXCEPT
                            ![c] = Settled(campaigns[c], applications[<<c, r>>].payout_amount)],
           CampaignIs(y, x.business, x.escrow - applications[<<c, r>>].payout_amount,
                      x.reserve - applications[<<c, r>>].payout_amount, x.brief,
                      IF x.escrow = applications[<<c, r>>].payout_amount
                      THEN "Completed" ELSE x.status)
    PROVE  /\ CampaignMatches(y, campaigns'[c])
           /\ \A d \in CampaignIds \ {c} : campaigns'[d] = campaigns[d]
<1> DEFINE camp == campaigns[c]
           amount == applications[<<c, r>>].payout_amount
           after == Settled(camp, amount)
<1>1. /\ campaigns \in [CampaignIds -> Campaign] /\ camp \in Campaign
      /\ camp.escrow_balance \in Nat /\ camp.committed_payouts \in Nat
      /\ camp.committed_payouts <= camp.escrow_balance
    BY CampaignFacts DEF SystemInv, LifeInv, EscrowInv, TypeOK
<1>2. amount \in Nat /\ amount <= camp.committed_payouts
    BY UnpaidIsReserved DEF SystemInv, LifeInv, Paid
<1>3. campaigns'[c] = after /\ \A d \in CampaignIds \ {c} : campaigns'[d] = campaigns[d]
    BY <1>1
<1> HIDE DEF amount, camp
<1>4. /\ after.escrow_balance = camp.escrow_balance - amount
      /\ after.committed_payouts = camp.committed_payouts - amount
      /\ after.status = IF after.escrow_balance = 0 THEN "Completed" ELSE camp.status
    BY <1>1, <1>2, SettledBooks
<1>5. after.business = camp.business /\ after.metadata_uri = camp.metadata_uri
    BY <1>1 DEF Settled, Campaign
<1> HIDE DEF after
<1>6. CampaignMatches(x, camp)
    BY DEF camp
<1>7. /\ y.business = x.business /\ y.brief = x.brief
      /\ y.escrow = x.escrow - amount /\ y.reserve = x.reserve - amount
      /\ y.status = IF x.escrow = amount THEN "Completed" ELSE x.status
    BY DEF CampaignIs, amount
<1>8. CampaignMatches(y, after)
    BY <1>1, <1>2, <1>4, <1>5, <1>6, <1>7 DEF CampaignMatches
<1> QED BY <1>3, <1>8

\* An application's way to its claim.
LEMMA PayoutStepReconciles ==
    ASSUME SystemInv, Reconciled, NEW c \in CampaignIds, NEW r \in Creators, FeedPayoutStep(c, r),
           UNCHANGED disputeVars
    PROVE  Reconciled'
<1> DEFINE key == <<c, r>>
           app == applications[key]
           after == applications'[key]
           x == feed.payouts[key]
           y == feed'.payouts[key]
<1>1. /\ applications \in [ApplicationKeys -> Application]
      /\ key \in ApplicationKeys /\ app \in Application /\ Shape(feed)
    BY DEF SystemInv, LifeInv, EscrowInv, TypeOK, Reconciled, ApplicationKeys
<1>2. PayoutMatches(x, app)
    BY <1>1 DEF Reconciled, PayoutsMatch
<1>3. CASE ApplyToCampaign(r, c) /\ Publish(CreatorApplied(feed, c, r))
    <2>1. OnlyPayout(feed, feed', key) /\ PayoutIs(y, x.amount, x.frozen_at, "Pending")
        BY <1>1, <1>3, AppliedEntry DEF Publish
    <2>2. /\ applications' = [applications EXCEPT ![key].status = "Pending"]
          /\ UNCHANGED <<campaigns, disputes, instance>>
        BY <1>3 DEF ApplyToCampaign, disputeVars
    <2>3. after = [app EXCEPT !.status = "Pending"]
          /\ \A k \in ApplicationKeys \ {key} : applications'[k] = applications[k]
        BY <1>1, <2>2
    <2>4. PayoutMatches(y, after)
        BY <1>1, <1>2, <2>1, <2>3 DEF PayoutIs, PayoutMatches, Application
    <2> QED BY <1>1, <2>1, <2>2, <2>3, <2>4, PayoutOnly
<1>4. ASSUME NEW proof \in Proofs, SubmitProof(r, c, proof), Publish(ProofSubmitted(feed, c, r))
      PROVE  Reconciled'
    <2>1. OnlyPayout(feed, feed', key) /\ PayoutIs(y, x.amount, x.frozen_at, "ProofSubmitted")
        BY <1>1, <1>4, SubmittedEntry DEF Publish
    <2>2. /\ applications' = [applications EXCEPT ![key].proof_uri = proof,
                ![key].status = "ProofSubmitted", ![key].proof_approved = FALSE]
          /\ UNCHANGED <<campaigns, disputes, instance>>
        BY <1>4 DEF SubmitProof, disputeVars
    <2>3. after = [app EXCEPT !.proof_uri = proof, !.status = "ProofSubmitted", !.proof_approved = FALSE]
          /\ \A k \in ApplicationKeys \ {key} : applications'[k] = applications[k]
        BY <1>1, <2>2
    <2>4. PayoutMatches(y, after)
        BY <1>1, <1>2, <2>1, <2>3 DEF PayoutIs, PayoutMatches, Application
    <2> QED BY <1>1, <2>1, <2>2, <2>3, <2>4, PayoutOnly
<1>5. ASSUME NEW b \in Businesses, RejectSubmission(b, c, r), Publish(SubmissionRejected(feed, c, r))
      PROVE  Reconciled'
    <2>1. OnlyPayout(feed, feed', key) /\ PayoutIs(y, x.amount, x.frozen_at, "Rejected")
        BY <1>1, <1>5, RejectedEntry DEF Publish
    <2>2. /\ applications' = [applications EXCEPT ![key].proof_uri = Null,
                ![key].proof_approved = FALSE, ![key].status = "Rejected"]
          /\ UNCHANGED <<campaigns, disputes, instance>>
        BY <1>5 DEF RejectSubmission, disputeVars
    <2>3. after = [app EXCEPT !.proof_uri = Null, !.proof_approved = FALSE, !.status = "Rejected"]
          /\ \A k \in ApplicationKeys \ {key} : applications'[k] = applications[k]
        BY <1>1, <2>2
    <2>4. PayoutMatches(y, after)
        BY <1>1, <1>2, <2>1, <2>3 DEF PayoutIs, PayoutMatches, Application
    <2> QED BY <1>1, <2>1, <2>2, <2>3, <2>4, PayoutOnly
<1>6. ASSUME NEW b \in Businesses, ApproveSubmission(b, c, r), PublishNothing
      PROVE  Reconciled'
    <2>1. feed' = feed /\ OnlyPayout(feed, feed', key)
        BY <1>1, <1>6 DEF PublishNothing, OnlyPayout, SameSettings
    <2>2. /\ applications' = [applications EXCEPT ![key].proof_approved = TRUE]
          /\ UNCHANGED <<campaigns, disputes, instance>>
        BY <1>6 DEF ApproveSubmission, disputeVars
    <2>3. after = [app EXCEPT !.proof_approved = TRUE]
          /\ \A k \in ApplicationKeys \ {key} : applications'[k] = applications[k]
        BY <1>1, <2>2
    <2>4. PayoutMatches(y, after)
        BY <1>1, <1>2, <2>1, <2>3 DEF PayoutMatches, Application
    <2> QED BY <1>1, <2>1, <2>2, <2>3, <2>4, PayoutOnly
<1> DEFINE camp == campaigns[c]
           u == feed.campaigns[c]
           v == feed'.campaigns[c]
<1>7. /\ campaigns \in [CampaignIds -> Campaign] /\ camp \in Campaign
      /\ camp.committed_payouts \in Nat /\ CampaignMatches(u, camp)
    BY DEF SystemInv, LifeInv, EscrowInv, TypeOK, Campaign, Reconciled, CampaignsMatch
<1>8. ASSUME OnlyBoth(feed, feed', c, key), UNCHANGED <<disputes, instance>>,
             CampaignMatches(v, campaigns'[c]), PayoutMatches(y, after),
             \A d \in CampaignIds \ {c} : campaigns'[d] = campaigns[d],
             \A k \in ApplicationKeys \ {key} : applications'[k] = applications[k]
      PROVE  Reconciled'
    <2>1. Shape(feed') /\ SameSettings(feed, feed') /\ InstanceKept
        BY <1>8 DEF OnlyBoth, InstanceKept
    <2>2. CampaignsMatch' /\ PayoutsMatch'
        BY <1>1, <1>8, CampaignsKept, PayoutsKept DEF OnlyBoth
    <2>3. DisputesMatch'
        BY <1>8, PartsKept DEF OnlyBoth
    <2> QED BY <2>1, <2>2, <2>3, SettingsKept DEF Reconciled
<1>9. ASSUME NEW b \in Businesses, NEW amount \in Payouts, ApproveCreator(b, c, r, amount),
             Publish(CreatorApproved(feed, c, r, amount))
      PROVE  Reconciled'
    <2> DEFINE total == camp.committed_payouts + amount
               n == camp.approved_count + 1
    <2>1. /\ OnlyBoth(feed, feed', c, key)
          /\ CampaignIs(v, u.business, u.escrow, u.reserve + amount, u.brief, "Active")
          /\ PayoutIs(y, amount, x.frozen_at, "Approved")
        BY <1>1, <1>9, ApprovedEntry DEF Publish
    <2>2. /\ applications' = [applications EXCEPT ![key].payout_amount = amount,
                                                  ![key].status = "Approved"]
          /\ UNCHANGED <<disputes, instance>>
        BY <1>9 DEF ApproveCreator, disputeVars
    <2>3. campaigns' = [campaigns EXCEPT ![c].approved_count = n,
                            ![c].committed_payouts = total, ![c].status = "Active"]
        BY <1>7, <1>9 DEF ApproveCreator
    <2>4. after = [app EXCEPT !.payout_amount = amount, !.status = "Approved"]
          /\ \A k \in ApplicationKeys \ {key} : applications'[k] = applications[k]
        BY <1>1, <2>2
    <2> HIDE DEF n, total
    <2>5. /\ campaigns'[c] = [camp EXCEPT !.approved_count = n, !.committed_payouts = total,
                                          !.status = "Active"]
          /\ \A d \in CampaignIds \ {c} : campaigns'[d] = campaigns[d]
        BY <1>7, <2>3
    <2>6. PayoutMatches(y, after)
        BY <1>1, <1>2, <2>1, <2>4 DEF PayoutIs, PayoutMatches, Application
    <2>7. u.reserve + amount = total
        BY <1>7 DEF CampaignMatches, total
    <2>8. CampaignMatches(v, campaigns'[c])
        BY <1>7, <2>1, <2>5, <2>7 DEF CampaignIs, CampaignMatches, Campaign
    <2> QED BY <1>8, <2>1, <2>2, <2>4, <2>5, <2>6, <2>8
<1>10. ASSUME ClaimPayment(r, c), NEW net, Publish(PaymentReleased(feed, c, r, net))
       PROVE  Reconciled'
    <2>1. /\ OnlyBoth(feed, feed', c, key)
          /\ CampaignIs(v, u.business, u.escrow - x.amount, u.reserve - x.amount, u.brief,
                        IF u.escrow = x.amount THEN "Completed" ELSE u.status)
          /\ PayoutIs(y, x.amount, Null, "Paid")
        BY <1>1, <1>10, PaidOutEntry DEF Publish, PaymentReleased
    <2>2. /\ applications' = [applications EXCEPT ![key].status = "Paid"]
          /\ campaigns' = [campaigns EXCEPT ![c] = Settled(camp, app.payout_amount)]
          /\ UNCHANGED <<disputes, instance>>
          /\ app.status = "ProofSubmitted" /\ ~app.frozen
        BY <1>10 DEF ClaimPayment, MayClaim, RequireNotFrozen, disputeVars
    <2>3. after = [app EXCEPT !.status = "Paid"]
          /\ \A k \in ApplicationKeys \ {key} : applications'[k] = applications[k]
        BY <1>1, <2>2
    <2>4. app.dispute_opened_at = Null
        BY <2>2, LifeInvFacts DEF SystemInv, FreezeOK
    <2>5. PayoutMatches(y, after)
        BY <1>1, <1>2, <2>1, <2>3, <2>4 DEF PayoutIs, PayoutMatches, Application
    <2>6. ~Paid(key) /\ x.amount = app.payout_amount
        BY <1>2, <2>2 DEF Paid, PayoutMatches
    <2>7. /\ CampaignMatches(v, campaigns'[c])
          /\ \A d \in CampaignIds \ {c} : campaigns'[d] = campaigns[d]
        BY <1>7, <2>1, <2>2, <2>6, SettlementMatches
    <2> QED BY <1>8, <2>1, <2>2, <2>3, <2>5, <2>7
<1> QED BY <1>3, <1>4, <1>5, <1>6, <1>9, <1>10 DEF FeedPayoutStep

\* The freeze is published where the dispute contract asked for it, and where the
\* admin, or an address in the dispute contract's place, did.
LEMMA FreezeMatches ==
    ASSUME SystemInv, Reconciled, NEW c \in CampaignIds, NEW r \in Creators, NEW caller,
           FreezeForDispute(caller, c, r), NEW g,
           PayoutIs(g, feed.payouts[<<c, r>>].amount, now, feed.payouts[<<c, r>>].status)
    PROVE  /\ PayoutMatches(g, applications'[<<c, r>>])
           /\ \A k \in ApplicationKeys \ {<<c, r>>} : applications'[k] = applications[k]
           /\ UNCHANGED <<campaigns, instance>>
<1> DEFINE key == <<c, r>>
           app == applications[key]
<1>1. applications \in [ApplicationKeys -> Application] /\ key \in ApplicationKeys /\ app \in Application
    BY DEF SystemInv, LifeInv, EscrowInv, TypeOK, ApplicationKeys
<1>2. PayoutMatches(feed.payouts[key], app)
    BY <1>1 DEF Reconciled, PayoutsMatch
<1>3. /\ applications' = [applications EXCEPT ![key].frozen = TRUE, ![key].dispute_opened_at = now]
      /\ UNCHANGED <<campaigns, instance>>
    BY DEF FreezeForDispute
<1>4. /\ applications'[key] = [app EXCEPT !.frozen = TRUE, !.dispute_opened_at = now]
      /\ \A k \in ApplicationKeys \ {key} : applications'[k] = applications[k]
    BY <1>1, <1>3
<1>5. PayoutMatches(g, applications'[key])
    BY <1>1, <1>2, <1>4 DEF PayoutIs, PayoutMatches, Application
<1> QED BY <1>3, <1>4, <1>5

\* The admin's freeze and the one a dispute makes.
LEMMA FreezeReconciles ==
    ASSUME SystemInv, Reconciled, NEW c \in CampaignIds, NEW r \in Creators, FeedFreezeDirectly(c, r)
    PROVE  Reconciled'
<1> DEFINE key == <<c, r>>
           x == feed.payouts[key]
<1>1. key \in ApplicationKeys /\ Shape(feed)
    BY DEF ApplicationKeys, Reconciled
<1>2. OnlyPayout(feed, feed', key) /\ PayoutIs(feed'.payouts[key], x.amount, now, x.status)
    BY <1>1, FrozenEntry DEF FeedFreezeDirectly, Publish
<1>3. /\ PayoutMatches(feed'.payouts[key], applications'[key])
      /\ \A k \in ApplicationKeys \ {key} : applications'[k] = applications[k]
      /\ UNCHANGED <<campaigns, disputes, instance>>
    BY <1>2, FreezeMatches DEF FeedFreezeDirectly, FreezeDirectly, disputeVars
<1> QED BY <1>1, <1>2, <1>3, PayoutOnly

\* raise_dispute publishes the record it makes, at whatever escrow.
LEMMA RecordPublished ==
    ASSUME FilingInv, Reconciled, now \in 0 .. MAX_TIME, NEW key \in ApplicationKeys,
           NEW by \in Creators \cup Businesses, NEW reason, NEW business,
           Disputes!RaiseDispute(by, key, reason, business),
           NEW mid, Shape(mid), mid.disputes = feed.disputes,
           feed' = DisputeRaised(mid, dispute_instance.next_dispute_id, by)
    PROVE  /\ Shape(feed') /\ SameSettings(mid, feed')
           /\ feed'.campaigns = mid.campaigns /\ feed'.payouts = mid.payouts
           /\ DisputesMatch'
<1> DEFINE id == dispute_instance.next_dispute_id
           record == [key |-> key, raised_by |-> by, arbiter |-> Null, status |-> "Raised",
                      outcome |-> Pending, raised_at |-> now, resolved_at |-> Null]
<1>1. /\ id \in DisputeIds /\ disputes'[id] = record
      /\ \A d \in DisputeIds \ {id} : disputes'[d] = disputes[d]
    BY RaiseFiles
<1>2. feed.disputes[id].arbiter = Null
    <2>1. id \in Nat
        BY <1>1 DEF DisputeIds, Disputes!DisputeIds
    <2>2. disputes[id] = Disputes!NoDispute
        BY <1>1, <2>1 DEF FilingInv, RecordsFiled
    <2>3. DisputeMatches(feed.disputes[id], disputes[id])
        BY <1>1 DEF Reconciled, DisputesMatch
    <2> QED BY <2>2, <2>3 DEF DisputeMatches, Disputes!NoDispute
<1> HIDE DEF id
<1>3. /\ OnlyDispute(mid, feed', id)
      /\ DisputeIs(feed'.disputes[id], by, mid.disputes[id].arbiter, "Raised")
    BY <1>1, RaisedEntry DEF id
<1>4. DisputeMatches(feed'.disputes[id], disputes'[id])
    BY <1>1, <1>2, <1>3 DEF DisputeIs, DisputeMatches
<1>5. DisputesMatch'
    BY <1>1, <1>3, <1>4, DisputesKept DEF OnlyDispute
<1> QED BY <1>3, <1>5 DEF OnlyDispute

LEMMA RaiseReconciles ==
    ASSUME SystemInv, Reconciled, NEW c \in CampaignIds, NEW r \in Creators,
           NEW by \in Creators \cup Businesses, NEW reason, FeedRaiseDispute(by, c, r, reason)
    PROVE  Reconciled'
<1> DEFINE key == <<c, r>>
           x == feed.payouts[key]
           mid == DisputeFrozen(feed, c, r)
<1>1. key \in ApplicationKeys /\ Shape(feed) /\ FilingInv /\ now \in 0 .. MAX_TIME
    BY DEF ApplicationKeys, Reconciled, SystemInv, LifeInv, EscrowInv, TypeOK
<1>2. /\ Disputes!RaiseDispute(by, key, reason, GetCampaignBusiness(c))
      /\ FreezeForDispute(DisputeContract, c, r)
      /\ feed' = DisputeRaised(mid, dispute_instance.next_dispute_id, by)
    BY DEF FeedRaiseDispute, RaiseDispute, Publish
<1>3. OnlyPayout(feed, mid, key) /\ PayoutIs(mid.payouts[key], x.amount, now, x.status)
    BY <1>1, FrozenEntry
<1>4. /\ PayoutMatches(mid.payouts[key], applications'[key])
      /\ \A k \in ApplicationKeys \ {key} : applications'[k] = applications[k]
      /\ UNCHANGED <<campaigns, instance>>
    BY <1>2, <1>3, FreezeMatches
<1> HIDE DEF mid, key
<1>5. /\ Shape(feed') /\ SameSettings(mid, feed') /\ DisputesMatch'
      /\ feed'.campaigns = mid.campaigns /\ feed'.payouts = mid.payouts
    BY <1>1, <1>2, <1>3, RecordPublished DEF OnlyPayout
<1>6. PayoutsMatch'
    BY <1>1, <1>3, <1>4, <1>5, PayoutsKept DEF OnlyPayout
<1>7. CampaignsMatch'
    BY <1>3, <1>4, <1>5, PartsKept DEF OnlyPayout
<1>8. SameSettings(feed, feed') /\ InstanceKept
    BY <1>3, <1>4, <1>5 DEF OnlyPayout, SameSettings, InstanceKept
<1> QED BY <1>5, <1>6, <1>7, <1>8, SettingsKept DEF Reconciled

LEMMA RaiseElsewhereReconciles ==
    ASSUME SystemInv, Reconciled, NEW c \in CampaignIds, NEW r \in Creators,
           NEW by \in Creators \cup Businesses, NEW reason, FeedRaiseElsewhere(by, c, r, reason)
    PROVE  Reconciled'
<1>1. <<c, r>> \in ApplicationKeys /\ Shape(feed) /\ FilingInv /\ now \in 0 .. MAX_TIME
    BY DEF ApplicationKeys, Reconciled, SystemInv, LifeInv, EscrowInv, TypeOK
<1>2. /\ \E business : Disputes!RaiseDispute(by, <<c, r>>, reason, business)
      /\ feed' = DisputeRaised(feed, dispute_instance.next_dispute_id, by)
      /\ UNCHANGED <<campaigns, applications, instance>>
    BY DEF FeedRaiseElsewhere, RaiseElsewhere, Publish, vars
<1>3. /\ Shape(feed') /\ SameSettings(feed, feed') /\ DisputesMatch'
      /\ feed'.campaigns = feed.campaigns /\ feed'.payouts = feed.payouts
    BY <1>1, <1>2, RecordPublished
<1>4. CampaignsMatch' /\ PayoutsMatch'
    BY <1>2, <1>3, PartsKept
<1>5. InstanceKept
    BY <1>2 DEF InstanceKept
<1> QED BY <1>3, <1>4, <1>5, SettingsKept DEF Reconciled

\* Whoever calls close_dispute, it publishes the closing if there was a record to close.
LEMMA ClosePublished ==
    ASSUME FilingInv, Reconciled, now \in 0 .. MAX_TIME, NEW c \in CampaignIds, NEW r \in Creators,
           NEW res \in Resolutions,
           \/ UNCHANGED disputeVars
           \/ \E caller : Disputes!CloseDispute(caller, <<c, r>>, Outcome(res))
    PROVE  LET closed == FeedOfClose(c, r) IN
           /\ Shape(closed) /\ SameSettings(feed, closed)
           /\ closed.campaigns = feed.campaigns /\ closed.payouts = feed.payouts
           /\ \A d \in DisputeIds : DisputeMatches(closed.disputes[d], disputes'[d])
<1> DEFINE key == <<c, r>>
           id == open_disputes[key]
           closed == FeedOfClose(c, r)
<1>1. key \in ApplicationKeys /\ Shape(feed) /\ DisputesMatch
    BY DEF ApplicationKeys, Reconciled
<1>2. CASE UNCHANGED disputeVars \/ id = Null
    <2>1. UNCHANGED <<disputes, open_disputes>>
        BY <1>2 DEF Disputes!CloseDispute, disputeVars
    <2>2. closed = feed
        BY <2>1 DEF FeedOfClose
    <2> QED BY <1>1, <2>1, <2>2 DEF SameSettings, DisputesMatch
<1>3. CASE id # Null /\ ~UNCHANGED disputeVars
    <2>1. PICK caller : Disputes!CloseDispute(caller, <<c, r>>, Outcome(res))
        BY <1>3
    <2> HIDE DEF key
    <2>2. Disputes!CloseDispute(caller, key, Outcome(res))
        BY <2>1 DEF key
    <2>3. /\ disputes'[id] = [disputes[id] EXCEPT !.status = "Resolved",
                                !.outcome = Outcome(res), !.resolved_at = now]
          /\ \A d \in DisputeIds \ {id} : disputes'[d] = disputes[d]
          /\ open_disputes'[key] = Null
        BY <1>1, <1>3, <2>2, CloseFacts
    <2>4. id \in DisputeIds /\ disputes[id] \in DisputeRecord
        BY <1>1, <1>3, MarkerFacts, RecordFacts
    <2>5. closed = DisputeClosed(feed, id)
        BY <1>3, <2>3 DEF FeedOfClose, key
    <2> HIDE DEF closed
    <2>6. /\ OnlyDispute(feed, closed, id)
          /\ DisputeIs(closed.disputes[id], feed.disputes[id].raised_by,
                       feed.disputes[id].arbiter, "Resolved")
        BY <1>1, <2>4, <2>5, ClosedEntry
    <2> HIDE DEF id
    <2>7. /\ disputes'[id].raised_by = disputes[id].raised_by
          /\ disputes'[id].arbiter = disputes[id].arbiter /\ disputes'[id].status = "Resolved"
        BY <2>3, <2>4 DEF DisputeRecord
    <2>8. DisputeMatches(closed.disputes[id], disputes'[id])
        BY <1>1, <2>4, <2>6, <2>7 DEF DisputesMatch, DisputeIs, DisputeMatches
    <2>9. ASSUME NEW d \in DisputeIds, d # id
          PROVE  DisputeMatches(closed.disputes[d], disputes'[d])
        BY <1>1, <2>3, <2>6, <2>9 DEF OnlyDispute, DisputesMatch
    <2> QED BY <2>6, <2>8, <2>9 DEF OnlyDispute, closed
<1> QED BY <1>2, <1>3

LEMMA CloseElsewhereReconciles ==
    ASSUME SystemInv, Reconciled, NEW c \in CampaignIds, NEW r \in Creators, NEW res \in Resolutions,
           FeedCloseElsewhere(c, r, Outcome(res))
    PROVE  Reconciled'
<1>1. FilingInv /\ now \in 0 .. MAX_TIME
    BY DEF SystemInv, LifeInv, EscrowInv, TypeOK
<1>2. /\ \E caller : Disputes!CloseDispute(caller, <<c, r>>, Outcome(res))
      /\ feed' = FeedOfClose(c, r) /\ UNCHANGED <<campaigns, applications, instance>>
    BY DEF FeedCloseElsewhere, CloseElsewhere, Publish, vars
<1>3. /\ Shape(feed') /\ SameSettings(feed, feed')
      /\ feed'.campaigns = feed.campaigns /\ feed'.payouts = feed.payouts
      /\ \A d \in DisputeIds : DisputeMatches(feed'.disputes[d], disputes'[d])
    BY <1>1, <1>2, ClosePublished
<1>4. CampaignsMatch' /\ PayoutsMatch'
    BY <1>2, <1>3, PartsKept
<1>5. DisputesMatch' /\ InstanceKept
    BY <1>2, <1>3 DEF DisputesMatch, InstanceKept
<1> QED BY <1>3, <1>4, <1>5, SettingsKept DEF Reconciled

\* A settlement closes the payout's record, and says so, if there is one; then it
\* tells of the payment.
LEMMA SettleReconciles ==
    ASSUME SystemInv, Reconciled, NEW c \in CampaignIds, NEW r \in Creators, NEW a \in Admins,
           NEW res \in Resolutions, FeedSettleDispute(a, c, r, res)
    PROVE  Reconciled'
<1> DEFINE key == <<c, r>>
           app == applications[key]
           after == applications'[key]
           mid == FeedOfClose(c, r)
<1>1. /\ applications \in [ApplicationKeys -> Application] /\ key \in ApplicationKeys
      /\ app \in Application /\ FilingInv /\ LifeInv /\ now \in 0 .. MAX_TIME
      /\ Shape(feed) /\ SettleDispute(a, c, r, res)
    BY DEF SystemInv, LifeInv, EscrowInv, TypeOK, Reconciled, ApplicationKeys, FeedSettleDispute
<1>2. /\ Shape(mid) /\ SameSettings(feed, mid)
      /\ mid.campaigns = feed.campaigns /\ mid.payouts = feed.payouts
      /\ \A d \in DisputeIds : DisputeMatches(mid.disputes[d], disputes'[d])
    <2>1. \/ UNCHANGED disputeVars
          \/ \E caller : Disputes!CloseDispute(caller, <<c, r>>, Outcome(res))
        BY <1>1 DEF SettleDispute, TryCloseDispute
    <2> QED BY <1>1, <2>1, ClosePublished
<1>3. \E net, rest : feed' = PaidOut(mid, c, r, net, rest)
    BY DEF FeedSettleDispute, Publish, DisputeResolved
<1> HIDE DEF mid
<1> DEFINE camp == campaigns[c]
           u == feed.campaigns[c]
           v == feed'.campaigns[c]
           x == feed.payouts[key]
           y == feed'.payouts[key]
<1>4. /\ OnlyBoth(mid, feed', c, key)
      /\ CampaignIs(v, u.business, u.escrow - x.amount, u.reserve - x.amount, u.brief,
                    IF u.escrow = x.amount THEN "Completed" ELSE u.status)
      /\ PayoutIs(y, x.amount, Null, "Paid")
    BY <1>2, <1>3, PaidOutEntry
<1>5. /\ PayoutMatches(x, app) /\ CampaignMatches(u, camp)
    BY <1>1 DEF Reconciled, PayoutsMatch, CampaignsMatch
<1>6. /\ applications' = [applications EXCEPT ![key].status = "Paid", ![key].frozen = FALSE,
                                              ![key].dispute_opened_at = Null]
      /\ campaigns' = [campaigns EXCEPT ![c] = Settled(camp, app.payout_amount)]
      /\ UNCHANGED instance
    BY <1>1 DEF SettleDispute, ResolveDispute
<1>7. /\ after = [app EXCEPT !.status = "Paid", !.frozen = FALSE, !.dispute_opened_at = Null]
      /\ \A k \in ApplicationKeys \ {key} : applications'[k] = applications[k]
    BY <1>1, <1>6
<1>8. PayoutMatches(y, after)
    BY <1>1, <1>4, <1>5, <1>7 DEF PayoutIs, PayoutMatches, Application
<1>9. ~Paid(key) /\ x.amount = app.payout_amount
    BY <1>1, <1>5, SettleFacts DEF PayoutMatches
<1>10. /\ CampaignMatches(v, campaigns'[c])
       /\ \A d \in CampaignIds \ {c} : campaigns'[d] = campaigns[d]
    BY <1>4, <1>5, <1>6, <1>9, SettlementMatches
<1>11. CampaignsMatch'
    BY <1>2, <1>4, <1>10, CampaignsKept DEF OnlyBoth
<1>12. PayoutsMatch'
    BY <1>1, <1>2, <1>4, <1>7, <1>8, PayoutsKept DEF OnlyBoth
<1>13. DisputesMatch'
    BY <1>2, <1>4 DEF OnlyBoth, DisputesMatch
<1>14. SameSettings(feed, feed') /\ InstanceKept /\ Shape(feed')
    BY <1>2, <1>4, <1>6 DEF OnlyBoth, SameSettings, InstanceKept
<1> QED BY <1>11, <1>12, <1>13, <1>14, SettingsKept DEF Reconciled

\* The arbiter assigned and the record under review are the ones published.
LEMMA AssignReconciles ==
    ASSUME SystemInv, Reconciled, FeedAssignArbiter
    PROVE  Reconciled'
<1>1. PICK id \in DisputeIds, arbiter \in Arbiters :
        /\ disputes' = [disputes EXCEPT ![id].arbiter = arbiter, ![id].status = "UnderReview"]
        /\ feed' = ArbiterAssigned(feed, id, arbiter)
    BY DEF FeedAssignArbiter, Disputes!AssignArbiter, DisputeIds, Publish
<1>2. /\ disputes \in [DisputeIds -> DisputeRecord] /\ disputes[id] \in DisputeRecord
      /\ Shape(feed) /\ DisputeMatches(feed.disputes[id], disputes[id])
    BY DEF SystemInv, FilingInv, DisputeTypes, Reconciled, DisputesMatch
<1>3. UNCHANGED <<campaigns, applications, instance>>
    BY DEF FeedAssignArbiter, vars
<1>4. /\ OnlyDispute(feed, feed', id)
      /\ DisputeIs(feed'.disputes[id], feed.disputes[id].raised_by, arbiter, "UnderReview")
    BY <1>1, <1>2, AssignedEntry
<1>5. /\ disputes'[id] = [disputes[id] EXCEPT !.arbiter = arbiter, !.status = "UnderReview"]
      /\ \A d \in DisputeIds \ {id} : disputes'[d] = disputes[d]
    BY <1>1, <1>2
<1>6. DisputeMatches(feed'.disputes[id], disputes'[id])
    BY <1>2, <1>4, <1>5 DEF DisputeIs, DisputeMatches, DisputeRecord
<1>7. DisputesMatch'
    BY <1>4, <1>5, <1>6, DisputesKept DEF OnlyDispute
<1>8. CampaignsMatch' /\ PayoutsMatch'
    BY <1>3, <1>4, PartsKept DEF OnlyDispute
<1>9. SameSettings(feed, feed') /\ InstanceKept /\ Shape(feed')
    BY <1>3, <1>4 DEF OnlyDispute, InstanceKept
<1> QED BY <1>7, <1>8, <1>9, SettingsKept DEF Reconciled

\* Every step of the contracts, with what it publishes, keeps copy and state together.
LEMMA FeedInvPreserved == FeedInv /\ [FeedNext]_feedVars => FeedInv'
<1> SUFFICES ASSUME FeedInv, [FeedNext]_feedVars PROVE FeedInv'
    OBVIOUS
<1>1. SystemInv /\ Reconciled
    BY DEF FeedInv
<1>2. SystemInv'
    BY <1>1, FeedStepIsSystemStep, SystemInvPreserved
<1>3. ASSUME UNCHANGED <<instance, campaigns, applications, disputes, feed>>
      PROVE  Reconciled'
    BY <1>1, <1>3 DEF Reconciled, CampaignsMatch, PayoutsMatch, DisputesMatch, SettingsMatch
<1>4. ASSUME FeedEscrowStep PROVE Reconciled'
    <2>1. ASSUME Tick \/ TokenStep, PublishNothing, UNCHANGED disputeVars PROVE Reconciled'
        BY <1>3, <2>1 DEF Tick, TokenStep, Bar, Admit, PublishNothing, disputeVars
    <2> QED BY <1>1, <1>4, <2>1, GovernanceReconciles, CreateReconciles, CampaignStepReconciles,
               PayoutStepReconciles DEF FeedEscrowStep
<1>5. ASSUME InitializeDisputes, PublishNothing PROVE Reconciled'
    BY <1>3, <1>5 DEF InitializeDisputes, Disputes!Initialize, PublishNothing, vars
<1>6. ASSUME FeedAssignArbiter PROVE Reconciled'
    BY <1>1, <1>6, AssignReconciles
<1>7. ASSUME NEW c \in CampaignIds, NEW r \in Creators, FeedDisputeStep(c, r)
      PROVE  Reconciled'
    BY <1>1, <1>7, RaiseReconciles, FreezeReconciles, SettleReconciles,
       RaiseElsewhereReconciles, CloseElsewhereReconciles DEF FeedDisputeStep
<1>8. ASSUME UNCHANGED feedVars PROVE Reconciled'
    BY <1>3, <1>8 DEF feedVars, systemVars, vars, disputeVars
<1>9. Reconciled'
    BY <1>4, <1>5, <1>6, <1>7, <1>8 DEF FeedNext
<1> QED BY <1>2, <1>9 DEF FeedInv

\* The agreement of copy and state is inductive beside SystemInv: every step that
\* changes what is copied publishes the change, and no event tells of another.
LEMMA FeedInvariant == FeedSpec => []FeedInv
<1>1. FeedInit => FeedInv
    BY FeedInitially, SystemInitEstablishes DEF FeedInv, FeedInit
<1> QED BY <1>1, FeedInvPreserved, PTL DEF FeedSpec

--------------------------------------------------------------------------------
(* What an indexer may rely on.                                              *)

\* Whoever reads the events alone has the contracts' own state: each campaign's
\* status and books, each payout, each dispute, the settings.
THEOREM EventsTellTheState == FeedSpec => []FeedReconciles
<1>1. FeedInv => FeedReconciles
    BY ReconciledSays DEF FeedInv
<1> QED BY <1>1, FeedInvariant, PTL

\* Before a disputed payout is settled its freeze has been public for the whole
\* evidence window: the date the events give it is the one the escrow counts from.
THEOREM NoticeIsPublic == FeedSpec => PublicNotice
<1>1. ASSUME FeedInv, [FeedNext]_feedVars, NEW key \in ApplicationKeys,
             applications[key].frozen, ~Paid(key), Paid(key)'
      PROVE  /\ feed.payouts[key].frozen_at # Null
             /\ feed.payouts[key].frozen_at + MIN_EVIDENCE_WINDOW <= now
    <2>1. [Next]_vars /\ LifeInv
        BY <1>1, FeedStepIsSystemStep, SystemStepIsEscrowStep DEF FeedInv, SystemInv, LifeInv
    <2>2. EvidenceHeld(key)
        BY <2>1, EvidenceStands DEF ApplicationKeys
    <2>3. now >= applications[key].dispute_opened_at + MIN_EVIDENCE_WINDOW
        BY <1>1, <2>2 DEF EvidenceHeld, Paid
    <2>4. feed.payouts[key].frozen_at = applications[key].dispute_opened_at
        BY <1>1 DEF FeedInv, Reconciled, PayoutsMatch, PayoutMatches
    <2>5. /\ applications[key].dispute_opened_at # Null
          /\ applications[key].dispute_opened_at \in Nat /\ now \in Nat
        <3>1. applications[key] \in Application /\ now \in Nat
            BY <2>1 DEF LifeInv, EscrowInv, TypeOK
        <3>2. applications[key].dispute_opened_at # Null
            BY <1>1, <2>1 DEF LifeInv, FrozenIsSettleable
        <3> QED BY <3>1, <3>2 DEF Application
    <2> QED BY <2>3, <2>4, <2>5
<1>2. FeedInv /\ [FeedNext]_feedVars =>
        [\A key \in ApplicationKeys :
            (applications[key].frozen /\ ~Paid(key) /\ Paid(key)') =>
                /\ feed.payouts[key].frozen_at # Null
                /\ feed.payouts[key].frozen_at + MIN_EVIDENCE_WINDOW <= now]_feedVars
    BY <1>1
<1> QED BY <1>2, FeedInvariant, PTL DEF FeedSpec, PublicNotice
================================================================================
