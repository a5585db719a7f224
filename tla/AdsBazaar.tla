-------------------------------- MODULE AdsBazaar --------------------------------
(***************************************************************************)
(* The deployed system: campaign-escrow and dispute-resolution calling     *)
(* each other.  A cross-contract call is part of the invocation that makes *)
(* it: raise_dispute and the freeze it asks for are one step or none, and  *)
(* an escrow settlement closes the dispute's record in the same step if    *)
(* the dispute contract lets it.                                           *)
(*                                                                         *)
(* Each contract is told the other's address once, by whoever initializes  *)
(* it, and can be told a wrong one: DisputeContracts and EscrowContracts   *)
(* hold the right address and, if the instance asks for it, others.  What  *)
(* is found at another address may be nothing, or a contract that answers  *)
(* whatever it likes, another deployment of campaign-escrow for one.       *)
(* As in CampaignEscrow, definitions named Slip... are plausible mistakes. *)
(***************************************************************************)
EXTENDS CampaignEscrowProps

CONSTANTS
    DisputeContract,    \* dispute-resolution's own address
    EscrowContracts,    \* addresses its initialize is given as escrow contract
    Arbiters, Reasons,
    MAX_DISPUTES

ASSUME SystemAssumption ==
    /\ DisputeContract \notin Admins \cup {Null}
    /\ Null \notin EscrowContracts \cup ApplicationKeys
    /\ MAX_DISPUTES \in Nat

VARIABLES dispute_instance, disputes, open_disputes

Disputes == INSTANCE DisputeResolution WITH
    instance <- dispute_instance, PayoutKeys <- ApplicationKeys

disputeVars == <<dispute_instance, disputes, open_disputes>>
systemVars == <<vars, disputeVars>>

SystemInit == Init /\ Disputes!Init

InitializeDisputes ==
    \E admin \in Admins, e \in EscrowContracts :
        Disputes!Initialize(admin, e) /\ UNCHANGED vars

\* The business get_campaign_business reports; it traps on an unknown campaign.
GetCampaignBusiness(c) == campaigns[c].business

SlipFreezeBestEffort(raised_by, c, creator, reason_uri) ==
    /\ dispute_instance.escrow_contract = EscrowContract
    /\ \/ FreezeForDispute(DisputeContract, c, creator)
       \/ ~ENABLED FreezeForDispute(DisputeContract, c, creator) /\ UNCHANGED vars
    /\ Disputes!RaiseDispute(raised_by, <<c, creator>>, reason_uri, GetCampaignBusiness(c))

RaiseDispute(raised_by, c, creator, reason_uri) ==
    /\ dispute_instance.escrow_contract = EscrowContract
    /\ FreezeForDispute(DisputeContract, c, creator)
    /\ Disputes!RaiseDispute(raised_by, <<c, creator>>, reason_uri, GetCampaignBusiness(c))

\* dispute-resolution was told another escrow than this one.
ToldElsewhere == dispute_instance.escrow_contract \notin {Null, EscrowContract}

\* raise_dispute at another escrow: where it answers, with whatever business, and
\* accepts the freeze, the dispute is on record and nothing is frozen in this one.
RaiseElsewhere(raised_by, c, creator, reason_uri) ==
    /\ ToldElsewhere
    /\ \E business \in Businesses :
        Disputes!RaiseDispute(raised_by, <<c, creator>>, reason_uri, business)
    /\ UNCHANGED vars

\* close_dispute called from anywhere but this escrow's settlement.
CloseElsewhere(c, creator, outcome) ==
    /\ \E caller \in EscrowContracts \ {EscrowContract} :
        Disputes!CloseDispute(caller, <<c, creator>>, outcome)
    /\ UNCHANGED vars

AssignArbiter ==
    \E admin \in Admins, id \in Disputes!DisputeIds, arbiter \in Arbiters :
        Disputes!AssignArbiter(admin, id, arbiter) /\ UNCHANGED vars

\* A freeze that does not go through dispute-resolution: the admin's, in an
\* emergency, or that of an address initialize was given in its place.
FreezeDirectly(c, creator) ==
    /\ \E caller \in Admins \cup (DisputeContracts \ {DisputeContract}) :
        FreezeForDispute(caller, c, creator)
    /\ UNCHANGED disputeVars

SlipNeverCloses(c, creator, outcome) == UNCHANGED disputeVars

\* try_close_dispute: a refusal, or no dispute contract at that address, is
\* swallowed.
TryCloseDispute(c, creator, outcome) ==
    IF instance.dispute_contract = DisputeContract
       /\ Disputes!AcceptsClose(EscrowContract, outcome)
    THEN Disputes!CloseDispute(EscrowContract, <<c, creator>>, outcome)
    ELSE UNCHANGED disputeVars

SlipOutcomeSwapped(resolution) ==
    CASE resolution.kind = "PayCreator" -> BusinessFavored
      [] resolution.kind = "RefundBusiness" -> CreatorFavored
      [] resolution.kind = "Split" -> resolution

\* DisputeResolution's three arms and the DisputeOutcome each is recorded as.
Outcome(resolution) ==
    CASE resolution.kind = "PayCreator" -> CreatorFavored
      [] resolution.kind = "RefundBusiness" -> BusinessFavored
      [] resolution.kind = "Split" -> resolution

SettleDispute(admin, c, creator, resolution) ==
    /\ ResolveDispute(admin, c, creator, resolution)
    /\ TryCloseDispute(c, creator, Outcome(resolution))

\* Every other entry point of the escrow touches no dispute record.
EscrowStep ==
    /\ \/ Governance
       \/ NewCampaign
       \/ \E c \in CampaignIds : CampaignStep(c)
       \/ \E c \in CampaignIds, r \in Creators : PayoutStep(c, r)
       \/ Tick
       \/ TokenStep
    /\ UNCHANGED disputeVars

DisputeStep(c, r) ==
    \/ \E raised_by \in Creators \cup Businesses, reason \in Reasons :
        RaiseDispute(raised_by, c, r, reason)
    \/ FreezeDirectly(c, r)
    \/ \E a \in Admins, res \in Resolutions : SettleDispute(a, c, r, res)
    \/ \E raised_by \in Creators \cup Businesses, reason \in Reasons :
        RaiseElsewhere(raised_by, c, r, reason)
    \/ \E res \in Resolutions : CloseElsewhere(c, r, Outcome(res))

SystemNext ==
    \/ EscrowStep
    \/ InitializeDisputes
    \/ AssignArbiter
    \/ \E c \in CampaignIds, r \in Creators : DisputeStep(c, r)

SystemSpec == SystemInit /\ [][SystemNext]_systemVars

--------------------------------------------------------------------------------
DisputeRecord ==
    [key : ApplicationKeys \cup {Null}, raised_by : Creators \cup Businesses \cup {Null},
     arbiter : Arbiters \cup {Null}, status : DisputeStatus,
     outcome : {Pending, CreatorFavored, BusinessFavored} \cup {Split(bps) : bps \in Splits},
     raised_at : 0 .. MAX_TIME, resolved_at : 0 .. MAX_TIME \cup {Null}]

\* The shape of the dispute contract's storage, whatever escrow it was told: ids are
\* handed out in order, and a marker only ever names a record that was written, so
\* that close_dispute, which looks it up, never fails for want of one.
SystemTypeOK ==
    /\ TypeOK
    /\ dispute_instance \in
        [admin : Admins \cup {Null}, escrow_contract : EscrowContracts \cup {Null},
         next_dispute_id : 0 .. MAX_DISPUTES]
    /\ disputes \in [Disputes!DisputeIds -> DisputeRecord]
    /\ open_disputes \in [ApplicationKeys -> Disputes!DisputeIds \cup {Null}]
    /\ \A id \in Disputes!DisputeIds :
        IF id < dispute_instance.next_dispute_id
        THEN disputes[id].key # Null /\ disputes[id].status # "None"
        ELSE disputes[id] = Disputes!NoDispute
    /\ \A key \in ApplicationKeys :
        open_disputes[key] # Null => open_disputes[key] < dispute_instance.next_dispute_id

\* The two contracts never disagree about a dispute: an open marker names an
\* unresolved record of that very payout, every unresolved record has its marker,
\* and, unless dispute-resolution was told another escrow, the payout is frozen in
\* this one since the moment the record says (whatever dispute contract it was told).
OpenDisputeIsFrozen ==
    /\ \A key \in ApplicationKeys :
        LET id == open_disputes[key] IN
        id # Null =>
            /\ disputes[id].key = key
            /\ disputes[id].status \in {"Raised", "UnderReview"}
            /\ ~ToldElsewhere =>
                /\ applications[key].frozen
                /\ applications[key].dispute_opened_at = disputes[id].raised_at
    /\ \A id \in Disputes!DisputeIds :
        disputes[id].status \in {"Raised", "UnderReview"} => open_disputes[disputes[id].key] = id

\* A payout is disputed at most once in its life: closing clears the marker, but
\* the settlement that closes it leaves nothing to dispute again.  (Another escrow
\* may accept a second freeze.)
OneDisputePerPayout ==
    ~ToldElsewhere => \A i, j \in Disputes!DisputeIds :
        (disputes[i].key # Null /\ disputes[i].key = disputes[j].key) => i = j

\* The record tells what happened to the money: it is resolved in the very step
\* that settles the payout, after the window, with the outcome that step paid
\* out, and it never changes again.  (A business that is also the creator or the
\* treasury gets their part as well, so its balance does not tell the outcome.
\* Told another escrow, dispute-resolution closes its records at the word of that
\* one; they still never change again.)
RecordMatchesSettlement ==
    [][\A id \in Disputes!DisputeIds :
        LET record == disputes[id]
            result == disputes'[id].outcome
        IN
        /\ record.status = "Resolved" => disputes'[id] = record
        /\ (~ToldElsewhere /\ record.status # "Resolved" /\ disputes'[id].status = "Resolved") =>
            LET camp == campaigns[record.key[1]]
                payout == applications[record.key].payout_amount
                Gain(a) == balances'[camp.token][a] - balances[camp.token][a]
            IN
            /\ ~Paid(record.key) /\ Paid(record.key)'
            /\ now >= record.raised_at + MIN_EVIDENCE_WINDOW
            /\ camp.business \notin {record.key[2], instance.treasury} =>
                /\ result.kind = "CreatorFavored" => Gain(camp.business) = 0
                /\ result.kind = "BusinessFavored" => Gain(camp.business) = payout
                /\ result.kind = "Split" =>
                    Gain(camp.business) = payout - Share(payout, result.bps)]_systemVars

\* The records of one payout, and how it stands.
FilesOn(key) == {disputes[id] : id \in {i \in Disputes!DisputeIds : disputes[i].key = key}}
DisputeStanding(key) ==
    CASE Paid(key) -> "settled"
      [] applications[key].frozen -> "contested"
      [] OTHER -> "undisputed"

\* The dispute over one payout, read off the storage of both contracts.
DisputeOver(key) == INSTANCE DisputePromise WITH
    standing <- DisputeStanding(key), since <- applications[key].dispute_opened_at,
    files <- FilesOn(key), clock <- now, Window <- MIN_EVIDENCE_WINDOW,
    Rulings <- {Outcome(resolution) : resolution \in Resolutions}

\* Over every payout the two contracts act as one that keeps money and file
\* together (they implement DisputePromise), whatever happens to the others: no file
\* is opened without the freeze, none is left open by the settlement, and no file
\* ever moves while its payout is not contested, though the calls between the two
\* may be refused and the refusal swallowed.  That takes a dispute-resolution that
\* was told this escrow; this escrow may have been told anything.
\* (\A key : DisputeOver(key)!Spec, with the quantifier inside the box.)
DisputesKeepPromises ==
    /\ \A key \in ApplicationKeys : DisputeOver(key)!Init
    /\ [][~ToldElsewhere => \A key \in ApplicationKeys :
            DisputeOver(key)!Next \/ UNCHANGED DisputeOver(key)!promiseVars]_systemVars
================================================================================
