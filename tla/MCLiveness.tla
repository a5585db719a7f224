------------------------------ MODULE MCLiveness ------------------------------
(***************************************************************************)
(* What campaign-escrow owes its parties eventually, if they keep calling. *)
(*                                                                         *)
(* The contract runs only when it is called, so all its progress rests on  *)
(* the callers, and the fairness is theirs: each party repeats the call    *)
(* that is in its interest until it succeeds.  Fairness is strong where a  *)
(* pause or a dispute can keep making the call fail and succeed again.     *)
(***************************************************************************)
EXTENDS CampaignEscrowProps

\* Past the content deadline with no proof in, a rejected one, or a creator the
\* token does not reach: only a dispute can still settle it.
Stuck(c, r) ==
    LET app == applications[<<c, r>>] IN
    /\ Settleable(app) /\ ~app.frozen
    /\ app.status \in {"Approved", "Rejected"} \/ ~Receives(campaigns[c].token, r)
    /\ now > campaigns[c].completion_deadline

\* The clock stops at MAX_TIME, which must not look like parties never coming
\* back: no dispute is opened too late for its window to end by then, and the
\* clock waits for those that have to be opened.  For the same reason no account
\* is barred after that point.
DisputeEndsByHorizon == now + MIN_EVIDENCE_WINDOW <= MAX_TIME
HorizonWaits ==
    now + MIN_EVIDENCE_WINDOW = MAX_TIME =>
        \A c \in CampaignIds, r \in Creators : ~Stuck(c, r)

BoundedNext ==
    /\ Next
    /\ now' # now => HorizonWaits
    /\ (\E key \in ApplicationKeys : applications'[key].frozen /\ ~applications[key].frozen)
        => DisputeEndsByHorizon
    /\ DisputeEndsByHorizon \/ barred' \subseteq barred

FairTick == WF_vars(Tick /\ HorizonWaits)
FairUnpause == WF_vars(\E a \in Admins : Unpause(a) /\ instance.paused)
FairCreators ==
    \A c \in CampaignIds, r \in Creators : SF_vars(ClaimPayment(r, c))

\* The admin opens and settles what nobody else can, and the business collects
\* its remainder.
FairAdmin ==
    \A c \in CampaignIds, r \in Creators :
        /\ SF_vars(\E a \in Admins :
                    Stuck(c, r) /\ DisputeEndsByHorizon /\ FreezeForDispute(a, c, r))
        /\ SF_vars(SettleStep(c, r))
FairBusiness == \A c \in CampaignIds, b \in Businesses : SF_vars(ExpireCampaign(b, c))

CreatorsFairSpec == Init /\ [][BoundedNext]_vars /\ FairTick /\ FairUnpause /\ FairCreators
AllFairSpec == CreatorsFairSpec /\ FairAdmin /\ FairBusiness

\* Work submitted and not rejected by the content deadline is paid, unless it is
\* disputed or the token stops reaching its creator or the treasury: the creator
\* needs nobody's consent, only time to pass and the contract not to stay paused,
\* and an account of somebody else that takes no payments does not stand in the way.
SubmittedWorkIsPaid ==
    \A c \in CampaignIds, r \in Creators :
        (/\ applications[<<c, r>>].status = "ProofSubmitted" /\ ~applications[<<c, r>>].frozen
         /\ now > campaigns[c].completion_deadline)
        ~> \/ Paid(<<c, r>>)
           \/ applications[<<c, r>>].frozen
           \/ ~Receives(campaigns[c].token, r)
           \/ ~Receives(campaigns[c].token, instance.treasury)

\* No money stays in the contract for ever: once funded, a campaign's escrow is
\* in the end paid out or handed back to the last unit.  A creator the token no
\* longer reaches is no obstacle; an instance that bars the business or the
\* treasury for good would keep what is theirs.
EscrowDrains ==
    \A c \in CampaignIds :
        campaigns[c].escrow_balance > 0 ~> campaigns[c].escrow_balance = 0
================================================================================
