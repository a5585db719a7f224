---------------------------- MODULE DisputeResolution ----------------------------
(***************************************************************************)
(* The dispute-resolution contract: its own storage and what each of its   *)
(* entry points does to it.  raise_dispute also calls into campaign-escrow *)
(* (get_campaign_business, freeze_for_dispute); the module AdsBazaar joins *)
(* those calls to RaiseDispute, so that the whole invocation is one step.  *)
(* Here the owner the escrow reports is the argument `business`.           *)
(***************************************************************************)
EXTENDS AdsBazaarShared

CONSTANTS
    PayoutKeys,     \* the (campaign, creator) pairs a dispute can be about
    MAX_DISPUTES    \* bound: ids handed out by next_dispute_id

DisputeIds == 0 .. MAX_DISPUTES - 1

VARIABLES
    instance,       \* Admin, EscrowContract, NextDisputeId
    disputes,       \* DataKey::Dispute(id)
    open_disputes,  \* DataKey::OpenDispute(campaign_id, creator)
    now             \* env.ledger().timestamp()

NoDispute ==
    [key |-> Null, raised_by |-> Null, arbiter |-> Null, status |-> "None",
     outcome |-> Pending, raised_at |-> 0, resolved_at |-> Null]

Init ==
    /\ instance = [admin |-> Null, escrow_contract |-> Null, next_dispute_id |-> 0]
    /\ disputes = [id \in DisputeIds |-> NoDispute]
    /\ open_disputes = [key \in PayoutKeys |-> Null]

Initialized == instance.admin # Null
RequireAdmin(a) == instance.admin = a

Initialize(admin, escrow_contract) ==
    /\ ~Initialized
    /\ instance' = [instance EXCEPT !.admin = admin, !.escrow_contract = escrow_contract]
    /\ UNCHANGED <<disputes, open_disputes>>

SlipMarksTheNext(raised_by, key, reason_uri, business) ==
    LET dispute_id == instance.next_dispute_id IN
    /\ reason_uri # "" /\ open_disputes[key] = Null /\ Initialized
    /\ raised_by \in {key[2], business} /\ dispute_id < MAX_DISPUTES
    /\ disputes' = [disputes EXCEPT ![dispute_id] =
            [key |-> key, raised_by |-> raised_by, arbiter |-> Null, status |-> "Raised",
             outcome |-> Pending, raised_at |-> now, resolved_at |-> Null]]
    /\ instance' = [instance EXCEPT !.next_dispute_id = @ + 1]
    /\ open_disputes' = [open_disputes EXCEPT ![key] = instance'.next_dispute_id]

RaiseDispute(raised_by, key, reason_uri, business) ==
    LET dispute_id == instance.next_dispute_id IN
    /\ reason_uri # ""
    /\ open_disputes[key] = Null
    /\ Initialized
    /\ raised_by \in {key[2], business}
    /\ dispute_id < MAX_DISPUTES
    /\ disputes' = [disputes EXCEPT ![dispute_id] =
            [key |-> key, raised_by |-> raised_by, arbiter |-> Null, status |-> "Raised",
             outcome |-> Pending, raised_at |-> now, resolved_at |-> Null]]
    /\ open_disputes' = [open_disputes EXCEPT ![key] = dispute_id]
    /\ instance' = [instance EXCEPT !.next_dispute_id = @ + 1]

AssignArbiter(admin, dispute_id, arbiter) ==
    /\ RequireAdmin(admin)
    /\ disputes[dispute_id].status = "Raised"
    /\ disputes' = [disputes EXCEPT ![dispute_id].arbiter = arbiter,
                                    ![dispute_id].status = "UnderReview"]
    /\ UNCHANGED <<instance, open_disputes>>

\* Whether close_dispute returns Ok to this caller.
AcceptsClose(caller, outcome) ==
    /\ Initialized
    /\ caller = instance.escrow_contract
    /\ outcome # Pending

SlipKeepsMarker(caller, key, outcome) ==
    /\ AcceptsClose(caller, outcome)
    /\ UNCHANGED <<instance, open_disputes>>
    /\ disputes' = IF open_disputes[key] = Null THEN disputes
                   ELSE [disputes EXCEPT ![open_disputes[key]].status = "Resolved",
                                         ![open_disputes[key]].outcome = outcome,
                                         ![open_disputes[key]].resolved_at = now]

CloseDispute(caller, key, outcome) ==
    /\ AcceptsClose(caller, outcome)
    /\ UNCHANGED instance
    /\ \/ /\ open_disputes[key] = Null
          /\ UNCHANGED <<disputes, open_disputes>>
       \/ /\ open_disputes[key] # Null
          /\ disputes' = [disputes EXCEPT ![open_disputes[key]].status = "Resolved",
                                          ![open_disputes[key]].outcome = outcome,
                                          ![open_disputes[key]].resolved_at = now]
          /\ open_disputes' = [open_disputes EXCEPT ![key] = Null]
================================================================================
