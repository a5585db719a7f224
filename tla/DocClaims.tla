------------------------------- MODULE DocClaims -------------------------------
(***************************************************************************)
(* What the repository's comments and README say of the program and the    *)
(* code does not do.  Each is checked in a run that must find it violated. *)
(***************************************************************************)
EXTENDS AdsBazaar

\* contracts/campaign-escrow/src/lib.rs:199, on update_fee_bps: "The fee is read
\* at claim time, so a fee change affects pending campaigns."  claim_payment
\* takes the fee the campaign was created with.
FeeReadAtClaimTime ==
    [][\A c \in CampaignIds, r \in Creators :
        LET app == applications[<<c, r>>]
            token == campaigns[c].token
        IN  (~app.frozen /\ ~Paid(<<c, r>>) /\ Paid(<<c, r>>)') =>
            balances'[token][r] - balances[token][r]
              = app.payout_amount - Share(app.payout_amount, instance.fee_bps)]_vars

\* contracts/campaign-escrow/src/lib.rs:861, on a cancelled campaign: "creator can
\* no longer submit proof".  submit_proof does not look at the campaign's status.
NoProofAfterCancellation ==
    [][\A c \in CampaignIds, r \in Creators :
        campaigns[c].status = "Cancelled" =>
            ~(/\ applications[<<c, r>>].status # "ProofSubmitted"
              /\ applications'[<<c, r>>].status = "ProofSubmitted")]_vars

\* README.md:294: "Only `dispute-resolution` can call `freeze_for_dispute`".  The
\* admin can too, and then there is no dispute behind the freeze.
FrozenOnlyByDispute ==
    \A key \in ApplicationKeys : applications[key].frozen => open_disputes[key] # Null

\* contracts/dispute-resolution/src/storage.rs:113, on clear_open_dispute: "Clear
\* the open-dispute marker for a payout so a fresh dispute can be raised over it
\* later."  The settlement that clears it has paid the payout, and freeze_for_dispute
\* refuses a paid one for ever.
FreshDisputeAfterClose ==
    \A id \in Disputes!DisputeIds :
        LET key == disputes[id].key IN
        /\ disputes[id].status = "Resolved" /\ open_disputes[key] = Null
        /\ ~instance.paused /\ dispute_instance.next_dispute_id < MAX_DISPUTES
        => \E reason \in Reasons : ENABLED RaiseDispute(key[2], key[1], key[2], reason)
================================================================================
