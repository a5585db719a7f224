---------------------------- MODULE AdsBazaar_proofs ----------------------------
(***************************************************************************)
(* Theorems about the two contracts together.  The deployed system is the  *)
(* escrow with a second contract beside it: every step of it is one of the *)
(* escrow's own, so that all theorems about the escrow hold of it; its     *)
(* records of disputes never part from the escrow's freezes, and say what  *)
(* was paid; and over each payout the two are one (DisputePromise).        *)
(***************************************************************************)
EXTENDS AdsBazaar, PaymentTerms_proofs

USE SharedAssumption, EscrowAssumption, SystemAssumption

--------------------------------------------------------------------------------
(* The escrow inside the system.                                             *)

\* The dispute contract can freeze only where the escrow was told its address,
\* and then the escrow's own next-state relation lists it among the callers.
LEMMA FreezeIsEscrowStep ==
    ASSUME EscrowInv, NEW c \in CampaignIds, NEW r \in Creators,
           NEW caller \in Admins \cup DisputeContracts \cup {DisputeContract},
           FreezeForDispute(caller, c, r)
    PROVE  FreezeStep(c, r)
<1>1. instance \in Instance
    BY DEF EscrowInv, TypeOK
<1>2. caller \in Admins \cup DisputeContracts
    BY <1>1 DEF FreezeForDispute, MayFreeze, Instance, RequireAdmin
<1> QED BY <1>2 DEF FreezeStep

LEMMA SystemStepIsEscrowStep ==
    ASSUME EscrowInv, [SystemNext]_systemVars
    PROVE  [Next]_vars
<1>1. CASE EscrowStep
    BY <1>1 DEF EscrowStep, Next
<1>2. CASE InitializeDisputes \/ AssignArbiter
    BY <1>2 DEF InitializeDisputes, AssignArbiter
<1>3. ASSUME NEW c \in CampaignIds, NEW r \in Creators, DisputeStep(c, r)
      PROVE  [Next]_vars
    <2>1. ASSUME NEW by, NEW reason, RaiseDispute(by, c, r, reason) PROVE Next
        BY <2>1, FreezeIsEscrowStep DEF RaiseDispute, Next
    <2>2. CASE FreezeDirectly(c, r)
        BY <2>2, FreezeIsEscrowStep DEF FreezeDirectly, Next
    <2>3. ASSUME NEW a \in Admins, NEW res \in Resolutions, SettleDispute(a, c, r, res) PROVE Next
        BY <2>3 DEF SettleDispute, SettleStep, Next
    <2>4. ASSUME NEW by, NEW reason, NEW outcome,
                 RaiseElsewhere(by, c, r, reason) \/ CloseElsewhere(c, r, outcome)
          PROVE  UNCHANGED vars
        BY <2>4 DEF RaiseElsewhere, CloseElsewhere
    <2> QED BY <1>3, <2>1, <2>2, <2>3, <2>4 DEF DisputeStep
<1>4. CASE UNCHANGED systemVars
    BY <1>4 DEF systemVars
<1> QED BY <1>1, <1>2, <1>3, <1>4 DEF SystemNext

\* The escrow's own invariant holds of the two contracts together: raise_dispute and
\* close_dispute only ever make escrow steps.
THEOREM SystemKeepsEscrow == SystemSpec => []LifeInv
<1>1. SystemInit => LifeInv
    <2>1. Init => FrozenIsSettleable
        BY DEF Init, FrozenIsSettleable, NoApplication
    <2> QED BY <2>1, InitEstablishes DEF LifeInv, SystemInit
<1>2. LifeInv /\ [SystemNext]_systemVars => LifeInv'
    BY SystemStepIsEscrowStep, LifeInvPreserved DEF LifeInv
<1> QED BY <1>1, <1>2, PTL DEF SystemSpec

\* The deployed system implements the escrow's specification: whatever the dispute
\* contract does, and however the two were wired, every theorem about
\* campaign-escrow alone holds of it.
THEOREM DeployedIsEscrow == SystemSpec => Spec
<1>1. SystemInit => Init
    BY DEF SystemInit
<1>2. LifeInv /\ [SystemNext]_systemVars => [Next]_vars
    BY SystemStepIsEscrowStep DEF LifeInv
<1> QED BY <1>1, <1>2, SystemKeepsEscrow, PTL DEF SystemSpec, Spec

--------------------------------------------------------------------------------
(* The files of the dispute contract, whatever escrow it was told.           *)

DisputeIds == Disputes!DisputeIds
Unresolved(id) == disputes[id].status \in {"Raised", "UnderReview"}

DisputeTypes ==
    /\ dispute_instance \in
        [admin : Admins \cup {Null}, escrow_contract : EscrowContracts \cup {Null},
         next_dispute_id : 0 .. MAX_DISPUTES]
    /\ disputes \in [DisputeIds -> DisputeRecord]
    /\ open_disputes \in [ApplicationKeys -> DisputeIds \cup {Null}]

\* Ids are handed out in order, each with the record of a payout.
RecordsFiled ==
    \A id \in DisputeIds :
        /\ id >= dispute_instance.next_dispute_id => disputes[id] = Disputes!NoDispute
        /\ id < dispute_instance.next_dispute_id =>
            disputes[id].key \in ApplicationKeys /\ disputes[id].status # "None"

\* A marker stands for an unresolved record of its payout, and the reverse.
MarkersMatch ==
    /\ \A key \in ApplicationKeys :
        open_disputes[key] # Null =>
            disputes[open_disputes[key]].key = key /\ Unresolved(open_disputes[key])
    /\ \A id \in DisputeIds : Unresolved(id) => open_disputes[disputes[id].key] = id

\* Nothing is on file before initialize, which is told an escrow.
FiledAfterSetup ==
    /\ dispute_instance.admin # Null <=> dispute_instance.escrow_contract # Null
    /\ dispute_instance.next_dispute_id > 0 => dispute_instance.admin # Null

FilingInv == DisputeTypes /\ RecordsFiled /\ MarkersMatch /\ FiledAfterSetup

\* No resolved record moves in this step.
ResolvedStand == \A id \in DisputeIds : disputes[id].status = "Resolved" => disputes'[id] = disputes[id]

\* What FilingInv says of one record, and of the marker of one payout.
LEMMA RecordFacts ==
    ASSUME FilingInv, NEW id \in DisputeIds
    PROVE  /\ disputes[id] \in DisputeRecord /\ id \in Nat /\ id # Null
           /\ dispute_instance.next_dispute_id \in Nat
           /\ Unresolved(id) => id < dispute_instance.next_dispute_id
           /\ Unresolved(id) => open_disputes[disputes[id].key] = id
           /\ disputes[id].key # Null <=> id < dispute_instance.next_dispute_id
           /\ disputes[id].key # Null => disputes[id].key \in ApplicationKeys
<1>1. /\ disputes[id] \in DisputeRecord /\ id \in Nat /\ id # Null
      /\ dispute_instance.next_dispute_id \in Nat
    BY DEF FilingInv, DisputeTypes, DisputeIds, Disputes!DisputeIds
<1>2. Unresolved(id) => open_disputes[disputes[id].key] = id
    BY DEF FilingInv, MarkersMatch
<1>3. /\ id >= dispute_instance.next_dispute_id =>
            disputes[id].key = Null /\ disputes[id].status = "None"
      /\ id < dispute_instance.next_dispute_id => disputes[id].key \in ApplicationKeys
    BY DEF FilingInv, RecordsFiled, Disputes!NoDispute
<1> QED BY <1>1, <1>2, <1>3 DEF Unresolved

LEMMA MarkerFacts ==
    ASSUME FilingInv, NEW key \in ApplicationKeys, open_disputes[key] # Null
    PROVE  LET id == open_disputes[key] IN
           /\ id \in DisputeIds
           /\ disputes[id].key = key /\ Unresolved(id)
    BY DEF FilingInv, DisputeTypes, MarkersMatch

LEMMA NothingFiled ==
    ASSUME FilingInv, UNCHANGED disputeVars
    PROVE  FilingInv' /\ ResolvedStand
    BY DEF FilingInv, DisputeTypes, RecordsFiled, MarkersMatch, FiledAfterSetup, Unresolved,
        DisputeRecord, DisputeIds, disputeVars, ResolvedStand

LEMMA InitializeFiles ==
    ASSUME FilingInv, InitializeDisputes
    PROVE  FilingInv' /\ ResolvedStand
<1>1. PICK admin \in Admins, e \in EscrowContracts : Disputes!Initialize(admin, e)
    BY DEF InitializeDisputes
<1>2. /\ dispute_instance' = [dispute_instance EXCEPT !.admin = admin, !.escrow_contract = e]
      /\ UNCHANGED <<disputes, open_disputes>>
    BY <1>1 DEF Disputes!Initialize
<1>3. /\ dispute_instance'.admin = admin /\ dispute_instance'.escrow_contract = e
      /\ dispute_instance'.next_dispute_id = dispute_instance.next_dispute_id
      /\ dispute_instance' \in
            [admin : Admins \cup {Null}, escrow_contract : EscrowContracts \cup {Null},
             next_dispute_id : 0 .. MAX_DISPUTES]
    BY <1>2 DEF FilingInv, DisputeTypes
<1>4. admin # Null /\ e # Null
    BY DEF Accounts
<1> QED BY <1>2, <1>3, <1>4 DEF FilingInv, DisputeTypes, RecordsFiled, MarkersMatch,
        FiledAfterSetup, Unresolved, DisputeRecord, DisputeIds, ResolvedStand

\* assign_arbiter changes neither the payout of a record nor whether it is resolved.
LEMMA AssignFacts ==
    ASSUME FilingInv, AssignArbiter
    PROVE  /\ UNCHANGED <<vars, dispute_instance, open_disputes>>
           /\ disputes' \in [DisputeIds -> DisputeRecord]
           /\ \A i \in DisputeIds :
                /\ disputes'[i].key = disputes[i].key /\ disputes'[i].raised_at = disputes[i].raised_at
                /\ Unresolved(i)' <=> Unresolved(i)
                /\ disputes'[i] = disputes[i] \/ (Unresolved(i) /\ disputes'[i].status = "UnderReview")
<1>1. PICK admin \in Admins, id \in DisputeIds, arbiter \in Arbiters :
            Disputes!AssignArbiter(admin, id, arbiter) /\ UNCHANGED vars
    BY DEF AssignArbiter, DisputeIds
<1>2. /\ disputes[id].status = "Raised" /\ UNCHANGED <<dispute_instance, open_disputes>>
      /\ disputes' = [disputes EXCEPT ![id].arbiter = arbiter, ![id].status = "UnderReview"]
    BY <1>1 DEF Disputes!AssignArbiter
<1>3. /\ disputes \in [DisputeIds -> DisputeRecord] /\ disputes[id] \in DisputeRecord
      /\ disputes'[id] = [disputes[id] EXCEPT !.arbiter = arbiter, !.status = "UnderReview"]
      /\ \A i \in DisputeIds \ {id} : disputes'[i] = disputes[i]
    BY <1>2 DEF FilingInv, DisputeTypes
<1>4. /\ disputes'[id].key = disputes[id].key /\ disputes'[id].raised_at = disputes[id].raised_at
      /\ disputes'[id].status = "UnderReview" /\ disputes'[id] \in DisputeRecord
    BY <1>3 DEF DisputeRecord, DisputeStatus
<1> QED BY <1>1, <1>2, <1>3, <1>4 DEF Unresolved

LEMMA AssignFiles ==
    ASSUME FilingInv, AssignArbiter
    PROVE  FilingInv' /\ ResolvedStand
<1>1. DisputeTypes'
    BY AssignFacts DEF FilingInv, DisputeTypes, DisputeRecord, DisputeIds
<1>2. RecordsFiled'
    <2>1. ASSUME NEW i \in DisputeIds, disputes'[i] # disputes[i]
          PROVE  /\ i < dispute_instance.next_dispute_id /\ i \in Nat
                 /\ dispute_instance.next_dispute_id \in Nat
                 /\ disputes'[i].key \in ApplicationKeys /\ disputes'[i].status # "None"
        <3>1. Unresolved(i) /\ disputes'[i].status = "UnderReview" /\ disputes'[i].key = disputes[i].key
            BY <2>1, AssignFacts
        <3> QED BY <3>1, RecordFacts
    <2>2. UNCHANGED dispute_instance
        BY AssignFacts
    <2> QED BY <2>1, <2>2 DEF FilingInv, RecordsFiled, DisputeIds, Disputes!NoDispute
<1>3. MarkersMatch'
    BY AssignFacts DEF FilingInv, DisputeTypes, MarkersMatch, DisputeIds
<1>4. FiledAfterSetup' /\ ResolvedStand
    BY AssignFacts DEF FilingInv, FiledAfterSetup, ResolvedStand, Unresolved
<1> QED BY <1>1, <1>2, <1>3, <1>4 DEF FilingInv

\* raise_dispute, at whatever escrow: the next id gets the record of a payout that
\* has no marker.
LEMMA RaiseFiles ==
    ASSUME FilingInv, now \in 0 .. MAX_TIME, NEW key \in ApplicationKeys, NEW reason, NEW business,
           NEW by \in Creators \cup Businesses, Disputes!RaiseDispute(by, key, reason, business)
    PROVE  LET new == dispute_instance.next_dispute_id
               record == [key |-> key, raised_by |-> by, arbiter |-> Null, status |-> "Raised",
                          outcome |-> Pending, raised_at |-> now, resolved_at |-> Null]
           IN
           /\ new \in DisputeIds /\ disputes[new].key = Null /\ disputes[new].status = "None"
           /\ disputes'[new] = record
           /\ \A id \in DisputeIds \ {new} : disputes'[id] = disputes[id]
           /\ open_disputes[key] = Null /\ open_disputes'[key] = new
           /\ \A k \in ApplicationKeys \ {key} : open_disputes'[k] = open_disputes[k]
           /\ dispute_instance'.next_dispute_id = new + 1 /\ dispute_instance.admin # Null
           /\ dispute_instance'.admin = dispute_instance.admin
           /\ dispute_instance'.escrow_contract = dispute_instance.escrow_contract
           /\ FilingInv' /\ ResolvedStand
<1> DEFINE new == dispute_instance.next_dispute_id
           record == [key |-> key, raised_by |-> by, arbiter |-> Null, status |-> "Raised",
                      outcome |-> Pending, raised_at |-> now, resolved_at |-> Null]
<1>1. /\ new < MAX_DISPUTES /\ dispute_instance.admin # Null /\ open_disputes[key] = Null
      /\ disputes' = [disputes EXCEPT ![new] = record]
      /\ open_disputes' = [open_disputes EXCEPT ![key] = new]
      /\ dispute_instance' = [dispute_instance EXCEPT !.next_dispute_id = @ + 1]
    BY DEF Disputes!RaiseDispute, Disputes!Initialized, Disputes!Pending, Pending
<1>2. /\ new \in Nat /\ MAX_DISPUTES \in Nat /\ new \in DisputeIds
      /\ disputes \in [DisputeIds -> DisputeRecord]
      /\ open_disputes \in [ApplicationKeys -> DisputeIds \cup {Null}]
      /\ DisputeIds = 0 .. MAX_DISPUTES - 1
    BY <1>1 DEF FilingInv, DisputeTypes, DisputeIds, Disputes!DisputeIds
<1>3. /\ disputes'[new] = record
      /\ \A id \in DisputeIds \ {new} : disputes'[id] = disputes[id]
      /\ open_disputes'[key] = new
      /\ \A k \in ApplicationKeys \ {key} : open_disputes'[k] = open_disputes[k]
      /\ dispute_instance'.next_dispute_id = new + 1
      /\ dispute_instance'.admin = dispute_instance.admin
      /\ dispute_instance'.escrow_contract = dispute_instance.escrow_contract
    BY <1>1, <1>2 DEF FilingInv, DisputeTypes
<1>4. disputes[new].key = Null /\ disputes[new].status = "None"
    BY <1>2 DEF FilingInv, RecordsFiled, Disputes!NoDispute
<1>5. DisputeTypes'
    <2>1. record \in DisputeRecord
        BY DEF DisputeRecord, DisputeStatus
    <2>2. disputes' \in [DisputeIds -> DisputeRecord]
        BY <1>1, <1>2, <2>1
    <2>3. open_disputes' \in [ApplicationKeys -> DisputeIds \cup {Null}]
        BY <1>1, <1>2
    <2>4. new + 1 \in 0 .. MAX_DISPUTES
        BY <1>1, <1>2
    <2>5. dispute_instance' \in
            [admin : Admins \cup {Null}, escrow_contract : EscrowContracts \cup {Null},
             next_dispute_id : 0 .. MAX_DISPUTES]
        BY <1>1, <2>4 DEF FilingInv, DisputeTypes
    <2> QED BY <2>2, <2>3, <2>5 DEF DisputeTypes, DisputeRecord, DisputeIds
<1>6. RecordsFiled'
    <2>1. ASSUME NEW id \in DisputeIds, id >= new + 1
          PROVE  disputes'[id] = Disputes!NoDispute
        <3>1. id # new /\ id >= new
            BY <1>2, <2>1
        <3> QED BY <1>3, <3>1 DEF FilingInv, RecordsFiled
    <2>2. ASSUME NEW id \in DisputeIds, id < new + 1
          PROVE  disputes'[id].key \in ApplicationKeys /\ disputes'[id].status # "None"
        <3>1. CASE id = new
            BY <1>3, <3>1
        <3>2. CASE id # new
            <4>1. disputes'[id] = disputes[id] /\ id < new
                BY <1>2, <1>3, <2>2, <3>2
            <4> QED BY <4>1 DEF FilingInv, RecordsFiled
        <3> QED BY <3>1, <3>2
    <2> QED BY <1>3, <2>1, <2>2 DEF RecordsFiled, DisputeIds, Disputes!NoDispute, Disputes!Pending
<1>7. MarkersMatch'
    <2>1. ASSUME NEW k \in ApplicationKeys, open_disputes'[k] # Null
          PROVE  LET id == open_disputes'[k] IN
                 disputes'[id].key = k /\ disputes'[id].status \in {"Raised", "UnderReview"}
        <3>1. CASE k = key
            BY <1>3, <3>1
        <3>2. CASE k # key
            <4>1. open_disputes'[k] = open_disputes[k]
                BY <1>3, <3>2
            <4>2. /\ open_disputes[k] \in DisputeIds /\ Unresolved(open_disputes[k])
                  /\ disputes[open_disputes[k]].key = k
                BY <2>1, <4>1, MarkerFacts
            <4>3. open_disputes[k] # new
                BY <1>4, <4>2 DEF Unresolved
            <4> QED BY <1>3, <4>1, <4>2, <4>3 DEF Unresolved
        <3> QED BY <3>1, <3>2
    <2>2. ASSUME NEW id \in DisputeIds, disputes'[id].status \in {"Raised", "UnderReview"}
          PROVE  open_disputes'[disputes'[id].key] = id
        <3>1. CASE id = new
            BY <1>3, <3>1
        <3>2. CASE id # new
            <4>1. disputes'[id] = disputes[id] /\ Unresolved(id)
                BY <1>3, <2>2, <3>2 DEF Unresolved
            <4>2. /\ disputes[id].key \in ApplicationKeys /\ id # Null
                  /\ open_disputes[disputes[id].key] = id
                BY <4>1, RecordFacts
            <4>3. disputes[id].key # key
                BY <1>1, <4>2
            <4> QED BY <1>3, <4>1, <4>2, <4>3
        <3> QED BY <3>1, <3>2
    <2> QED BY <2>1, <2>2 DEF MarkersMatch, Unresolved, DisputeIds
<1>8. FiledAfterSetup' /\ ResolvedStand
    BY <1>1, <1>3, <1>4 DEF FilingInv, FiledAfterSetup, ResolvedStand
<1> QED BY <1>1, <1>2, <1>3, <1>4, <1>5, <1>6, <1>7, <1>8 DEF FilingInv

LEMMA OutcomeIsRecorded ==
    ASSUME NEW res \in Resolutions
    PROVE  /\ Outcome(res) \in {CreatorFavored, BusinessFavored} \cup {Split(bps) : bps \in Splits}
           /\ Outcome(res) # Disputes!Pending
<1>1. CASE res = PayCreator
    BY <1>1 DEF Outcome, PayCreator, CreatorFavored, Disputes!Pending
<1>2. CASE res = RefundBusiness
    BY <1>2 DEF Outcome, RefundBusiness, BusinessFavored, Disputes!Pending
<1>3. ASSUME NEW bps \in Splits, res = Split(bps)
      PROVE  Outcome(res) = Split(bps) /\ Outcome(res) # Disputes!Pending
    BY <1>3 DEF Outcome, Split, Disputes!Pending
<1> QED BY <1>1, <1>2, <1>3 DEF Resolutions

\* close_dispute, whoever calls it: the payout's record, if it has an open one, is
\* resolved and its marker cleared.
LEMMA CloseFacts ==
    ASSUME FilingInv, now \in 0 .. MAX_TIME, NEW key \in ApplicationKeys, NEW caller,
           NEW res \in Resolutions, Disputes!CloseDispute(caller, key, Outcome(res)),
           open_disputes[key] # Null
    PROVE  LET id == open_disputes[key] IN
           /\ disputes'[id] = [disputes[id] EXCEPT !.status = "Resolved", !.outcome = Outcome(res),
                                                   !.resolved_at = now]
           /\ disputes'[id].key = key /\ disputes'[id].status = "Resolved"
           /\ disputes'[id] \in DisputeRecord
           /\ disputes' \in [DisputeIds -> DisputeRecord]
           /\ \A i \in DisputeIds \ {id} : disputes'[i] = disputes[i]
           /\ open_disputes'[key] = Null
           /\ open_disputes' \in [ApplicationKeys -> DisputeIds \cup {Null}]
           /\ \A k \in ApplicationKeys \ {key} : open_disputes'[k] = open_disputes[k]
           /\ UNCHANGED dispute_instance
<1> DEFINE id == open_disputes[key]
<1>1. /\ disputes' = [disputes EXCEPT ![id].status = "Resolved", ![id].outcome = Outcome(res),
                                      ![id].resolved_at = now]
      /\ open_disputes' = [open_disputes EXCEPT ![key] = Null]
      /\ UNCHANGED dispute_instance
    BY DEF Disputes!CloseDispute
<1>2. id \in DisputeIds /\ disputes[id].key = key
    BY MarkerFacts
<1>3. /\ disputes \in [DisputeIds -> DisputeRecord] /\ disputes[id] \in DisputeRecord
      /\ open_disputes \in [ApplicationKeys -> DisputeIds \cup {Null}]
    BY <1>2 DEF FilingInv, DisputeTypes
<1>4. /\ disputes'[id] = [disputes[id] EXCEPT !.status = "Resolved", !.outcome = Outcome(res),
                                              !.resolved_at = now]
      /\ \A i \in DisputeIds \ {id} : disputes'[i] = disputes[i]
      /\ open_disputes'[key] = Null
      /\ \A k \in ApplicationKeys \ {key} : open_disputes'[k] = open_disputes[k]
    BY <1>1, <1>2, <1>3
<1>5. /\ disputes'[id].key = key /\ disputes'[id].status = "Resolved"
      /\ disputes'[id] \in DisputeRecord
    <2>1. Outcome(res) \in {Pending, CreatorFavored, BusinessFavored} \cup {Split(bps) : bps \in Splits}
        BY OutcomeIsRecorded
    <2> DEFINE out == Outcome(res)
               before == disputes[id]
               after == disputes'[id]
    <2>2. /\ before \in DisputeRecord /\ before.key = key
          /\ after = [before EXCEPT !.status = "Resolved", !.outcome = out, !.resolved_at = now]
        BY <1>2, <1>3, <1>4
    <2>3. out \in {Pending, CreatorFavored, BusinessFavored} \cup {Split(bps) : bps \in Splits}
        BY <2>1
    <2> HIDE DEF before, after, out
    <2>4. after.key = key /\ after.status = "Resolved" /\ after \in DisputeRecord
        BY <2>2, <2>3 DEF DisputeRecord, DisputeStatus
    <2> QED BY <2>4 DEF after
<1>6. disputes' \in [DisputeIds -> DisputeRecord]
    BY <1>1, <1>2, <1>3, <1>4, <1>5
<1>7. open_disputes' \in [ApplicationKeys -> DisputeIds \cup {Null}]
    BY <1>1, <1>3
<1> QED BY <1>1, <1>4, <1>5, <1>6, <1>7

LEMMA CloseFiles ==
    ASSUME FilingInv, now \in 0 .. MAX_TIME, NEW key \in ApplicationKeys, NEW caller,
           NEW res \in Resolutions, Disputes!CloseDispute(caller, key, Outcome(res))
    PROVE  FilingInv' /\ ResolvedStand
<1> DEFINE id == open_disputes[key]
<1>1. CASE id = Null
    BY <1>1, NothingFiled DEF Disputes!CloseDispute, disputeVars
<1>2. CASE id # Null
    <2>1. /\ disputes'[id].key = key /\ disputes'[id].status = "Resolved"
          /\ disputes' \in [DisputeIds -> DisputeRecord]
          /\ \A i \in DisputeIds \ {id} : disputes'[i] = disputes[i]
          /\ open_disputes'[key] = Null
          /\ open_disputes' \in [ApplicationKeys -> DisputeIds \cup {Null}]
          /\ \A k \in ApplicationKeys \ {key} : open_disputes'[k] = open_disputes[k]
          /\ UNCHANGED dispute_instance
        BY <1>2, CloseFacts
    <2>2. /\ id \in DisputeIds /\ disputes[id].key = key /\ Unresolved(id)
          /\ id < dispute_instance.next_dispute_id
        BY <1>2, MarkerFacts, RecordFacts
    <2>3. DisputeTypes'
        BY <2>1 DEF FilingInv, DisputeTypes, DisputeRecord, DisputeIds
    <2>4. RecordsFiled'
        <3>1. id \in Nat /\ dispute_instance.next_dispute_id \in Nat
            BY <2>2, RecordFacts
        <3> QED BY <2>1, <2>2, <3>1 DEF FilingInv, RecordsFiled, DisputeIds,
                Disputes!NoDispute, Disputes!Pending
    <2>5. MarkersMatch'
        <3>1. ASSUME NEW k \in ApplicationKeys, open_disputes'[k] # Null
              PROVE  LET i == open_disputes'[k] IN
                     disputes'[i].key = k /\ disputes'[i].status \in {"Raised", "UnderReview"}
            <4>1. k # key /\ open_disputes'[k] = open_disputes[k]
                BY <2>1, <3>1
            <4>2. /\ open_disputes[k] \in DisputeIds /\ Unresolved(open_disputes[k])
                  /\ disputes[open_disputes[k]].key = k
                BY <3>1, <4>1, MarkerFacts
            <4>3. open_disputes[k] # id
                BY <2>2, <4>1, <4>2
            <4> QED BY <2>1, <4>1, <4>2, <4>3 DEF Unresolved
        <3>2. ASSUME NEW i \in DisputeIds, disputes'[i].status \in {"Raised", "UnderReview"}
              PROVE  open_disputes'[disputes'[i].key] = i
            <4>1. i # id /\ disputes'[i] = disputes[i] /\ Unresolved(i)
                BY <2>1, <3>2 DEF Unresolved
            <4>2. open_disputes[disputes[i].key] = i /\ disputes[i].key \in ApplicationKeys
                BY <4>1, RecordFacts
            <4>3. disputes[i].key # key
                BY <4>1, <4>2
            <4> QED BY <2>1, <4>1, <4>2, <4>3
        <3> QED BY <3>1, <3>2 DEF MarkersMatch, Unresolved, DisputeIds
    <2>6. FiledAfterSetup' /\ ResolvedStand
        BY <2>1, <2>2 DEF FilingInv, FiledAfterSetup, ResolvedStand, Unresolved
    <2> QED BY <2>3, <2>4, <2>5, <2>6 DEF FilingInv
<1> QED BY <1>1, <1>2

\* No step of the system breaks the files, and a resolved record is for good.
LEMMA FilingKept ==
    ASSUME LifeInv, FilingInv, [SystemNext]_systemVars
    PROVE  FilingInv' /\ ResolvedStand
<1>1. now \in 0 .. MAX_TIME
    BY DEF LifeInv, EscrowInv, TypeOK
<1>2. ASSUME NEW c \in CampaignIds, NEW r \in Creators, DisputeStep(c, r)
      PROVE  FilingInv' /\ ResolvedStand
    <2>1. <<c, r>> \in ApplicationKeys
        BY DEF ApplicationKeys
    <2>2. ASSUME NEW by \in Creators \cup Businesses, NEW reason,
                 RaiseDispute(by, c, r, reason) \/ RaiseElsewhere(by, c, r, reason)
          PROVE  FilingInv' /\ ResolvedStand
        <3>1. \E business : Disputes!RaiseDispute(by, <<c, r>>, reason, business)
            BY <2>2 DEF RaiseDispute, RaiseElsewhere
        <3> QED BY <1>1, <2>1, <3>1, RaiseFiles
    <2>3. CASE FreezeDirectly(c, r)
        BY <2>3, NothingFiled DEF FreezeDirectly
    <2>4. ASSUME NEW a \in Admins, NEW res \in Resolutions, SettleDispute(a, c, r, res)
          PROVE  FilingInv' /\ ResolvedStand
        <3>1. \/ UNCHANGED disputeVars
              \/ Disputes!CloseDispute(EscrowContract, <<c, r>>, Outcome(res))
            BY <2>4 DEF SettleDispute, TryCloseDispute
        <3> QED BY <1>1, <2>1, <3>1, NothingFiled, CloseFiles
    <2>5. ASSUME NEW res \in Resolutions, CloseElsewhere(c, r, Outcome(res))
          PROVE  FilingInv' /\ ResolvedStand
        <3>1. \E caller : Disputes!CloseDispute(caller, <<c, r>>, Outcome(res))
            BY <2>5 DEF CloseElsewhere
        <3> QED BY <1>1, <2>1, <3>1, CloseFiles
    <2> QED BY <1>2, <2>2, <2>3, <2>4, <2>5 DEF DisputeStep
<1>3. CASE EscrowStep \/ UNCHANGED systemVars
    BY <1>3, NothingFiled DEF EscrowStep, systemVars
<1> QED BY <1>2, <1>3, InitializeFiles, AssignFiles DEF SystemNext

--------------------------------------------------------------------------------
(* The records beside the freezes, where dispute-resolution was told this    *)
(* escrow.                                                                   *)

\* A resolved record is about a payout that was paid.
ResolvedArePaid ==
    \A id \in DisputeIds :
        (disputes[id].key # Null /\ ~Unresolved(id)) => Paid(disputes[id].key)

\* There are records only where the escrow was told this dispute contract.
Wired ==
    dispute_instance.next_dispute_id > 0 =>
        Initialized /\ instance.dispute_contract = DisputeContract

\* A payout with a marker is frozen since its record was made.
MarkedAreFrozen ==
    \A key \in ApplicationKeys :
        open_disputes[key] # Null =>
            /\ applications[key].frozen
            /\ applications[key].dispute_opened_at = disputes[open_disputes[key]].raised_at

OneRecordEach ==
    \A i, j \in DisputeIds :
        (disputes[i].key # Null /\ disputes[i].key = disputes[j].key) => i = j

Matched == ResolvedArePaid /\ Wired /\ MarkedAreFrozen /\ OneRecordEach

SystemInv == LifeInv /\ FilingInv /\ (~ToldElsewhere => Matched)

\* The invariant, where both halves of it hold.
HereInv == SystemInv /\ ~ToldElsewhere

LEMMA HereFacts ==
    ASSUME HereInv
    PROVE  /\ LifeInv /\ EscrowInv /\ FilingInv /\ Matched
           /\ dispute_instance.admin # Null => dispute_instance.escrow_contract = EscrowContract
    BY DEF HereInv, SystemInv, LifeInv, FilingInv, FiledAfterSetup, ToldElsewhere

\* Once initialized, the escrow's dispute contract is settled.
LEMMA WiringStands ==
    ASSUME EscrowInv, [Next]_vars, Initialized
    PROVE  Initialized' /\ instance'.dispute_contract = instance.dispute_contract
<1> DEFINE Stands == Initialized' /\ instance'.dispute_contract = instance.dispute_contract
<1>1. instance \in Instance
    BY DEF EscrowInv, TypeOK
<1>2. CASE Governance
    <2>1. PICK admin \in Admins :
            \/ Pause(admin) \/ Unpause(admin) \/ AcceptAdmin(admin)
            \/ \E new_admin \in Admins : ProposeAdmin(admin, new_admin)
            \/ \E fee \in NewFees : UpdateFeeBps(admin, fee)
            \/ \E treasury \in Treasuries : UpdateTreasury(admin, treasury)
        BY <1>2 DEF Governance, Initialize
    <2>2. admin # Null
        BY DEF Accounts
    <2> QED BY <1>1, <2>1, <2>2
            DEF Pause, Unpause, SetPaused, AcceptAdmin, ProposeAdmin, UpdateFeeBps, UpdateTreasury,
                Instance, Initialized
<1>3. CASE NewCampaign
    BY <1>1, <1>3 DEF NewCampaign, CreateCampaign, Instance, Initialized
<1>4. CASE UNCHANGED instance
    BY <1>4 DEF Initialized
<1>5. \A c \in CampaignIds : CampaignStep(c) => UNCHANGED instance
    BY DEF CampaignStep, FundCampaign, UpdateCampaignMetadata, CancelCampaign, ExpireCampaign,
           ReclaimSurplus, EmergencyRecoverCampaign, Sweep
<1>6. ASSUME NEW c \in CampaignIds, NEW r \in Creators, PayoutStep(c, r)
      PROVE  UNCHANGED instance
    <2>1. ClaimPayment(r, c) => UNCHANGED instance
        BY DEF ClaimPayment
    <2>2. \A b, amount : ApproveCreator(b, c, r, amount) => UNCHANGED instance
        BY DEF ApproveCreator
    <2>3. ApplyToCampaign(r, c) => UNCHANGED instance
        BY DEF ApplyToCampaign
    <2>4. \A b : ApproveSubmission(b, c, r) \/ RejectSubmission(b, c, r) => UNCHANGED instance
        BY DEF ApproveSubmission, RejectSubmission
    <2>5. \A proof : SubmitProof(r, c, proof) => UNCHANGED instance
        BY DEF SubmitProof
    <2> QED BY <1>6, <2>1, <2>2, <2>3, <2>4, <2>5 DEF PayoutStep
<1>7. \A c \in CampaignIds, r \in Creators : FreezeStep(c, r) \/ SettleStep(c, r) => UNCHANGED instance
    BY DEF FreezeStep, FreezeForDispute, SettleStep, ResolveDispute
<1>8. Tick \/ TokenStep \/ UNCHANGED vars => UNCHANGED instance
    BY DEF Tick, TokenStep, Bar, Admit, vars
<1> QED BY <1>2, <1>3, <1>4, <1>5, <1>6, <1>7, <1>8 DEF Next

\* Only a settlement does anything to a frozen payout.
LEMMA FrozenStands ==
    ASSUME LifeInv, EscrowStep, NEW c \in CampaignIds, NEW r \in Creators,
           applications[<<c, r>>].frozen
    PROVE  applications'[<<c, r>>] = applications[<<c, r>>]
<1>1. /\ applications \in [ApplicationKeys -> Application] /\ <<c, r>> \in ApplicationKeys
      /\ applications[<<c, r>>].status \notin {"None", "Pending"}
    <2>1. applications \in [ApplicationKeys -> Application] /\ <<c, r>> \in ApplicationKeys
        BY DEF LifeInv, EscrowInv, TypeOK, ApplicationKeys
    <2>2. applications[<<c, r>>].payout_amount > 0
        BY LifeInvFacts DEF FreezeOK, Settleable
    <2> QED BY <2>1, <2>2 DEF LifeInv, EscrowInv, PendingOwesNothing
<1>2. ASSUME NEW d \in CampaignIds, NEW s \in Creators, PayoutStep(d, s)
      PROVE  applications'[<<c, r>>] = applications[<<c, r>>]
    <2>1. ApplyToCampaign(s, d) => applications'[<<c, r>>] = applications[<<c, r>>]
        BY <1>1 DEF ApplyToCampaign
    <2>2. \A proof : SubmitProof(s, d, proof) => applications'[<<c, r>>] = applications[<<c, r>>]
        BY <1>1 DEF SubmitProof, RequireNotFrozen
    <2>3. ClaimPayment(s, d) => applications'[<<c, r>>] = applications[<<c, r>>]
        BY <1>1 DEF ClaimPayment, MayClaim, RequireNotFrozen
    <2>4. \A b, amount : ApproveCreator(b, d, s, amount) =>
                applications'[<<c, r>>] = applications[<<c, r>>]
        BY <1>1 DEF ApproveCreator
    <2>5. \A b : ApproveSubmission(b, d, s) \/ RejectSubmission(b, d, s) =>
                applications'[<<c, r>>] = applications[<<c, r>>]
        BY <1>1 DEF ApproveSubmission, RejectSubmission, RequireNotFrozen
    <2> QED BY <1>2, <2>1, <2>2, <2>3, <2>4, <2>5 DEF PayoutStep
<1> QED BY <1>2, OtherStepsLeaveApplications DEF EscrowStep

\* A step of the escrow that leaves every payout under dispute frozen as it was
\* disturbs no record.
LEMMA RecordsAside ==
    ASSUME HereInv, [Next]_vars, UNCHANGED disputeVars,
           \A key \in ApplicationKeys :
               open_disputes[key] # Null => applications'[key] = applications[key]
    PROVE  Matched'
<1>1. LifeInv /\ EscrowInv /\ Matched
    BY HereFacts
<1>2. UNCHANGED <<dispute_instance, disputes, open_disputes>>
    BY DEF disputeVars
<1>3. ResolvedArePaid'
    <2>1. \A key \in ApplicationKeys : Paid(key) => Paid(key)'
        BY <1>1, PaidStaysPaid DEF Paid, ApplicationKeys
    <2>2. \A id \in DisputeIds : disputes[id].key # Null => disputes[id].key \in ApplicationKeys
        BY HereFacts, RecordFacts
    <2> QED BY <1>1, <1>2, <2>1, <2>2 DEF Matched, ResolvedArePaid, Unresolved
<1>4. Wired'
    BY <1>1, <1>2, WiringStands DEF Matched, Wired
<1>5. MarkedAreFrozen' /\ OneRecordEach'
    BY <1>1, <1>2 DEF Matched, MarkedAreFrozen, OneRecordEach
<1> QED BY <1>3, <1>4, <1>5 DEF Matched

LEMMA EscrowStepMatches ==
    ASSUME HereInv, EscrowStep
    PROVE  Matched'
<1>1. [Next]_vars
    BY DEF EscrowStep, Next
<1>2. \A key \in ApplicationKeys : open_disputes[key] # Null => applications'[key] = applications[key]
    BY HereFacts, FrozenStands DEF ApplicationKeys, Matched, MarkedAreFrozen
<1> QED BY <1>1, <1>2, RecordsAside DEF EscrowStep

LEMMA FreezeDirectlyMatches ==
    ASSUME HereInv, NEW c \in CampaignIds, NEW r \in Creators, FreezeDirectly(c, r)
    PROVE  Matched'
<1>1. PICK caller \in Admins \cup DisputeContracts : FreezeForDispute(caller, c, r)
    BY DEF FreezeDirectly
<1>2. [Next]_vars
    BY <1>1, HereFacts, FreezeIsEscrowStep DEF Next
<1>3. open_disputes[<<c, r>>] = Null
    BY <1>1, HereFacts DEF FreezeForDispute, MayFreeze, RequireNotFrozen, ApplicationKeys,
        Matched, MarkedAreFrozen
<1>4. \A key \in ApplicationKeys \ {<<c, r>>} : applications'[key] = applications[key]
    BY <1>1, HereFacts DEF FreezeForDispute, EscrowInv, TypeOK
<1> QED BY <1>2, <1>3, <1>4, RecordsAside DEF FreezeDirectly

\* Before initialize nothing is on file.
LEMMA InitializeMatches ==
    ASSUME SystemInv, InitializeDisputes
    PROVE  Matched'
<1>1. PICK admin \in Admins, e \in EscrowContracts : Disputes!Initialize(admin, e)
    BY DEF InitializeDisputes
<1>2. dispute_instance.admin = Null /\ FilingInv
    BY <1>1 DEF Disputes!Initialize, Disputes!Initialized, SystemInv
<1>3. dispute_instance.next_dispute_id = 0
    BY <1>2 DEF FilingInv, FiledAfterSetup, DisputeTypes
<1>4. /\ UNCHANGED <<disputes, open_disputes>>
      /\ dispute_instance'.next_dispute_id = dispute_instance.next_dispute_id
    BY <1>1, <1>2 DEF Disputes!Initialize, FilingInv, DisputeTypes
<1>5. \A id \in DisputeIds : disputes[id].key = Null
    BY <1>2, <1>3, RecordFacts
<1>6. \A key \in ApplicationKeys : open_disputes[key] = Null
    BY <1>2, <1>3, MarkerFacts, RecordFacts
<1> QED BY <1>3, <1>4, <1>5, <1>6 DEF Matched, ResolvedArePaid, Wired, MarkedAreFrozen, OneRecordEach, DisputeIds

LEMMA AssignMatches ==
    ASSUME HereInv, AssignArbiter
    PROVE  Matched'
<1>1. /\ UNCHANGED <<applications, instance, dispute_instance, open_disputes>>
      /\ \A i \in DisputeIds :
            /\ disputes'[i].key = disputes[i].key /\ disputes'[i].raised_at = disputes[i].raised_at
            /\ Unresolved(i)' <=> Unresolved(i)
    BY HereFacts, AssignFacts DEF vars
<1>2. \A key \in ApplicationKeys : open_disputes[key] # Null => open_disputes[key] \in DisputeIds
    BY HereFacts, MarkerFacts
<1> QED BY <1>1, <1>2, HereFacts DEF Matched, ResolvedArePaid, Wired, MarkedAreFrozen, OneRecordEach,
        DisputeIds, Initialized, Paid

\* raise_dispute finds no earlier record of the payout: an open one would mean that
\* it is frozen, a closed one that it is paid.
LEMMA NoEarlierRecord ==
    ASSUME HereInv, NEW c \in CampaignIds, NEW r \in Creators,
           ~applications[<<c, r>>].frozen, ~Paid(<<c, r>>), NEW id \in DisputeIds
    PROVE  disputes[id].key # <<c, r>>
<1> SUFFICES ASSUME disputes[id].key = <<c, r>> PROVE FALSE
    OBVIOUS
<1>1. <<c, r>> \in ApplicationKeys /\ <<c, r>> # Null
    BY DEF ApplicationKeys
<1>2. Unresolved(id)
    BY <1>1, HereFacts DEF Matched, ResolvedArePaid
<1>3. open_disputes[<<c, r>>] = id /\ id # Null
    BY <1>2, HereFacts, RecordFacts
<1> QED BY <1>1, <1>3, HereFacts DEF Matched, MarkedAreFrozen

LEMMA RaiseMatches ==
    ASSUME HereInv, NEW c \in CampaignIds, NEW r \in Creators, NEW reason,
           NEW by \in Creators \cup Businesses, RaiseDispute(by, c, r, reason)
    PROVE  Matched'
<1> DEFINE key == <<c, r>>
           new == dispute_instance.next_dispute_id
<1>1. /\ Initialized /\ UNCHANGED <<instance, now>>
      /\ DisputeContract = instance.dispute_contract \/ RequireAdmin(DisputeContract)
      /\ ~applications[key].frozen /\ ~Paid(key)
      /\ applications' = [applications EXCEPT ![key].frozen = TRUE, ![key].dispute_opened_at = now]
    BY DEF RaiseDispute, FreezeForDispute, MayFreeze, RequireNotFrozen, Settleable, Paid
<1>2. instance \in Instance /\ key \in ApplicationKeys /\ now \in 0 .. MAX_TIME
      /\ applications \in [ApplicationKeys -> Application] /\ applications[key] \in Application
    BY HereFacts DEF EscrowInv, TypeOK, ApplicationKeys
<1>3. instance.dispute_contract = DisputeContract
    BY <1>1, <1>2 DEF RequireAdmin, Instance
<1>4. Disputes!RaiseDispute(by, key, reason, GetCampaignBusiness(c))
    BY DEF RaiseDispute
<1>5. /\ new \in DisputeIds /\ disputes[new].key = Null /\ disputes[new].status = "None"
      /\ disputes'[new] = [key |-> key, raised_by |-> by, arbiter |-> Null, status |-> "Raised",
                           outcome |-> Pending, raised_at |-> now, resolved_at |-> Null]
      /\ \A id \in DisputeIds \ {new} : disputes'[id] = disputes[id]
      /\ open_disputes'[key] = new
      /\ \A k \in ApplicationKeys \ {key} : open_disputes'[k] = open_disputes[k]
    BY <1>2, <1>4, HereFacts, RaiseFiles
<1>6. /\ applications'[key].frozen /\ applications'[key].dispute_opened_at = now
      /\ \A k \in ApplicationKeys \ {key} : applications'[k] = applications[k]
      /\ \A k \in ApplicationKeys : Paid(k) => Paid(k)'
    BY <1>1, <1>2 DEF Application, Paid
<1>7. \A id \in DisputeIds : disputes[id].key # key
    BY <1>1, NoEarlierRecord
<1>8. ResolvedArePaid'
    <2> SUFFICES ASSUME NEW id \in DisputeIds, disputes'[id].key # Null, ~Unresolved(id)'
                 PROVE  Paid(disputes[id].key)'
        BY DEF ResolvedArePaid, DisputeIds
    <2>1. id # new
        BY <1>5 DEF Unresolved
    <2>2. disputes'[id] = disputes[id]
        BY <1>5, <2>1
    <2>3. disputes[id].key \in ApplicationKeys /\ ~Unresolved(id)
        BY <2>2, HereFacts, RecordFacts DEF Unresolved
    <2>4. Paid(disputes[id].key)
        BY <2>2, <2>3, HereFacts DEF Matched, ResolvedArePaid
    <2> QED BY <1>6, <2>2, <2>3, <2>4 DEF Paid
<1>9. Wired'
    BY <1>1, <1>3 DEF Wired, Initialized
<1>10. MarkedAreFrozen'
    <2>1. ASSUME NEW k \in ApplicationKeys, open_disputes'[k] # Null
          PROVE  /\ applications'[k].frozen
                 /\ applications'[k].dispute_opened_at = disputes'[open_disputes'[k]].raised_at
        <3>1. CASE k = key
            BY <1>5, <1>6, <3>1
        <3>2. CASE k # key
            <4>1. open_disputes'[k] = open_disputes[k] /\ applications'[k] = applications[k]
                BY <1>5, <1>6, <3>2
            <4>2. /\ open_disputes[k] \in DisputeIds /\ disputes[open_disputes[k]].key = k
                  /\ applications[k].frozen
                  /\ applications[k].dispute_opened_at = disputes[open_disputes[k]].raised_at
                BY <2>1, <4>1, HereFacts, MarkerFacts DEF Matched, MarkedAreFrozen
            <4>3. open_disputes[k] # new
                BY <1>5, <4>2 DEF ApplicationKeys
            <4> QED BY <1>5, <4>1, <4>2, <4>3
        <3> QED BY <3>1, <3>2
    <2> QED BY <2>1 DEF MarkedAreFrozen
<1>11. OneRecordEach'
    BY <1>5, <1>7, HereFacts DEF Matched, OneRecordEach, DisputeIds
<1> QED BY <1>8, <1>9, <1>10, <1>11 DEF Matched

\* A settlement is the end of its payout, and touches no other.
LEMMA SettleFacts ==
    ASSUME LifeInv, NEW c \in CampaignIds, NEW r \in Creators, NEW admin \in Admins,
           NEW res \in Resolutions, SettleDispute(admin, c, r, res)
    PROVE  /\ ~Paid(<<c, r>>) /\ Paid(<<c, r>>)'
           /\ \A k \in ApplicationKeys \ {<<c, r>>} : applications'[k] = applications[k]
           /\ UNCHANGED <<instance, now>>
           /\ SettleStep(c, r) /\ LifeInv'
<1>1. ResolveDispute(admin, c, r, res)
    BY DEF SettleDispute
<1>2. applications \in [ApplicationKeys -> Application] /\ <<c, r>> \in ApplicationKeys
    BY DEF LifeInv, EscrowInv, TypeOK, ApplicationKeys
<1>3. SettleStep(c, r) /\ Next
    BY <1>1 DEF SettleStep, Next
<1>4. LifeInv'
    BY <1>3, LifeInvPreserved
<1> QED BY <1>1, <1>2, <1>3, <1>4 DEF ResolveDispute, MayResolve, Settleable, Paid

\* It closes the payout's record if there is one: try_close_dispute cannot be
\* refused then, since a record exists only where both contracts were told right.
LEMMA SettlementCloses ==
    ASSUME HereInv, NEW c \in CampaignIds, NEW r \in Creators, NEW admin \in Admins,
           NEW res \in Resolutions, SettleDispute(admin, c, r, res),
           open_disputes[<<c, r>>] # Null
    PROVE  LET id == open_disputes[<<c, r>>] IN
           /\ disputes'[id] = [disputes[id] EXCEPT !.status = "Resolved", !.outcome = Outcome(res),
                                                   !.resolved_at = now]
           /\ disputes'[id].key = <<c, r>> /\ disputes'[id].status = "Resolved"
           /\ \A i \in DisputeIds \ {id} : disputes'[i] = disputes[i]
           /\ open_disputes'[<<c, r>>] = Null
           /\ \A k \in ApplicationKeys \ {<<c, r>>} : open_disputes'[k] = open_disputes[k]
           /\ UNCHANGED dispute_instance
<1>1. <<c, r>> \in ApplicationKeys /\ FilingInv /\ now \in 0 .. MAX_TIME
    BY HereFacts DEF ApplicationKeys, EscrowInv, TypeOK
<1>2. dispute_instance.next_dispute_id > 0
    <2>1. open_disputes[<<c, r>>] \in DisputeIds /\ Unresolved(open_disputes[<<c, r>>])
        BY <1>1, MarkerFacts
    <2> QED BY <1>1, <2>1, RecordFacts
<1>3. /\ instance.dispute_contract = DisputeContract
      /\ Disputes!AcceptsClose(EscrowContract, Outcome(res))
    <2>1. dispute_instance.admin # Null
        BY <1>1, <1>2 DEF FilingInv, FiledAfterSetup
    <2> QED BY <1>2, <2>1, HereFacts, OutcomeIsRecorded
            DEF Matched, Wired, Disputes!AcceptsClose, Disputes!Initialized
<1> DEFINE key == <<c, r>>
<1>4. /\ Disputes!CloseDispute(EscrowContract, key, Outcome(res))
      /\ key \in ApplicationKeys /\ open_disputes[key] # Null
    BY <1>1, <1>3 DEF SettleDispute, TryCloseDispute
<1> HIDE DEF key
<1>5. LET id == open_disputes[key] IN
      /\ disputes'[id] = [disputes[id] EXCEPT !.status = "Resolved", !.outcome = Outcome(res),
                                              !.resolved_at = now]
      /\ disputes'[id].key = key /\ disputes'[id].status = "Resolved"
      /\ \A i \in DisputeIds \ {id} : disputes'[i] = disputes[i]
      /\ open_disputes'[key] = Null
      /\ \A k \in ApplicationKeys \ {key} : open_disputes'[k] = open_disputes[k]
      /\ UNCHANGED dispute_instance
    BY <1>1, <1>4, CloseFacts
<1> QED BY <1>5 DEF key

\* Where it has none, there is nothing to close.
LEMMA SettlementOfNone ==
    ASSUME NEW c \in CampaignIds, NEW r \in Creators, NEW admin, NEW res,
           SettleDispute(admin, c, r, res), open_disputes[<<c, r>>] = Null
    PROVE  UNCHANGED disputeVars
    BY DEF SettleDispute, TryCloseDispute, Disputes!CloseDispute, disputeVars

LEMMA SettleMatches ==
    ASSUME HereInv, NEW c \in CampaignIds, NEW r \in Creators, NEW admin \in Admins,
           NEW res \in Resolutions, SettleDispute(admin, c, r, res)
    PROVE  Matched'
<1> DEFINE key == <<c, r>>
           id == open_disputes[key]
<1>1. /\ ~Paid(key) /\ Paid(key)' /\ UNCHANGED <<instance, now>>
      /\ \A k \in ApplicationKeys \ {key} : applications'[k] = applications[k]
      /\ SettleStep(c, r)
    BY HereFacts, SettleFacts
<1>2. key \in ApplicationKeys /\ FilingInv
    BY HereFacts DEF ApplicationKeys
<1>3. CASE id = Null
    <2>1. UNCHANGED disputeVars
        BY <1>3, SettlementOfNone
    <2>2. [Next]_vars
        BY <1>1 DEF Next
    <2> QED BY <1>1, <1>3, <2>1, <2>2, RecordsAside
<1>4. CASE id # Null
    <2>1. /\ disputes'[id].key = key /\ disputes'[id].status = "Resolved"
          /\ \A i \in DisputeIds \ {id} : disputes'[i] = disputes[i]
          /\ open_disputes'[key] = Null
          /\ \A k \in ApplicationKeys \ {key} : open_disputes'[k] = open_disputes[k]
          /\ UNCHANGED dispute_instance
        BY <1>4, SettlementCloses
    <2>2. id \in DisputeIds /\ disputes[id].key = key /\ Unresolved(id)
        BY <1>2, <1>4, MarkerFacts
    <2>3. ResolvedArePaid'
        <3> SUFFICES ASSUME NEW i \in DisputeIds, disputes'[i].key # Null, ~Unresolved(i)'
                     PROVE  Paid(disputes[i].key)'
            BY DEF ResolvedArePaid, DisputeIds
        <3>1. CASE i = id
            BY <1>1, <2>1, <3>1 DEF Paid
        <3>2. CASE i # id
            <4>1. disputes'[i] = disputes[i]
                BY <2>1, <3>2
            <4>2. disputes[i].key \in ApplicationKeys /\ Paid(disputes[i].key)
                BY <1>2, <4>1, HereFacts, RecordFacts DEF Matched, ResolvedArePaid, Unresolved
            <4> QED BY <1>1, <4>1, <4>2 DEF Paid
        <3> QED BY <3>1, <3>2
    <2>4. Wired'
        BY <1>1, <2>1, HereFacts DEF Matched, Wired, Initialized
    <2>5. MarkedAreFrozen'
        <3>1. ASSUME NEW k \in ApplicationKeys, open_disputes'[k] # Null
              PROVE  /\ applications'[k].frozen
                     /\ applications'[k].dispute_opened_at = disputes'[open_disputes'[k]].raised_at
            <4>1. k # key /\ open_disputes'[k] = open_disputes[k] /\ applications'[k] = applications[k]
                BY <1>1, <2>1, <3>1
            <4>2. /\ open_disputes[k] \in DisputeIds /\ disputes[open_disputes[k]].key = k
                  /\ applications[k].frozen
                  /\ applications[k].dispute_opened_at = disputes[open_disputes[k]].raised_at
                BY <1>2, <3>1, <4>1, HereFacts, MarkerFacts DEF Matched, MarkedAreFrozen
            <4>3. open_disputes[k] # id
                BY <2>2, <4>1, <4>2
            <4> QED BY <2>1, <4>1, <4>2, <4>3
        <3> QED BY <3>1 DEF MarkedAreFrozen
    <2>6. OneRecordEach'
        <3>1. \A i \in DisputeIds : disputes'[i].key = disputes[i].key
            BY <2>1, <2>2
        <3> QED BY <3>1, HereFacts DEF Matched, OneRecordEach, DisputeIds
    <2> QED BY <2>3, <2>4, <2>5, <2>6 DEF Matched
<1> QED BY <1>3, <1>4

\* Which escrow dispute-resolution was told is settled by its initialize.
LEMMA WhoWasTold ==
    ASSUME SystemInv, [SystemNext]_systemVars, ~InitializeDisputes
    PROVE  ToldElsewhere' <=> ToldElsewhere
<1>1. FilingInv /\ now \in 0 .. MAX_TIME
    BY DEF SystemInv, LifeInv, EscrowInv, TypeOK
<1>2. CASE EscrowStep \/ UNCHANGED systemVars
    BY <1>2 DEF EscrowStep, systemVars, disputeVars, ToldElsewhere
<1>3. CASE AssignArbiter
    BY <1>1, <1>3, AssignFacts DEF ToldElsewhere
<1>4. ASSUME NEW c \in CampaignIds, NEW r \in Creators, DisputeStep(c, r)
      PROVE  dispute_instance'.escrow_contract = dispute_instance.escrow_contract
    <2>1. <<c, r>> \in ApplicationKeys
        BY DEF ApplicationKeys
    <2>2. ASSUME NEW by \in Creators \cup Businesses, NEW reason,
                 RaiseDispute(by, c, r, reason) \/ RaiseElsewhere(by, c, r, reason)
          PROVE  dispute_instance'.escrow_contract = dispute_instance.escrow_contract
        <3>1. \E business : Disputes!RaiseDispute(by, <<c, r>>, reason, business)
            BY <2>2 DEF RaiseDispute, RaiseElsewhere
        <3> QED BY <1>1, <2>1, <3>1, RaiseFiles
    <2>3. CASE FreezeDirectly(c, r)
        BY <2>3 DEF FreezeDirectly, disputeVars
    <2>4. ASSUME NEW a \in Admins, NEW res \in Resolutions, SettleDispute(a, c, r, res)
          PROVE  UNCHANGED dispute_instance
        BY <2>4 DEF SettleDispute, TryCloseDispute, Disputes!CloseDispute, disputeVars
    <2>5. ASSUME NEW res \in Resolutions, CloseElsewhere(c, r, Outcome(res))
          PROVE  UNCHANGED dispute_instance
        BY <2>5 DEF CloseElsewhere, Disputes!CloseDispute
    <2> QED BY <1>4, <2>2, <2>3, <2>4, <2>5 DEF DisputeStep
<1> QED BY <1>2, <1>3, <1>4 DEF SystemNext, ToldElsewhere

\* close_dispute accepts nobody but the escrow it was told.
LEMMA NobodyElseCloses ==
    ASSUME ~ToldElsewhere, NEW c, NEW r, NEW outcome
    PROVE  ~CloseElsewhere(c, r, outcome)
    BY DEF CloseElsewhere, Disputes!CloseDispute, Disputes!AcceptsClose, ToldElsewhere

LEMMA SystemInvPreserved == SystemInv /\ [SystemNext]_systemVars => SystemInv'
<1> SUFFICES ASSUME SystemInv, [SystemNext]_systemVars PROVE SystemInv'
    OBVIOUS
<1>1. LifeInv'
    BY SystemStepIsEscrowStep, LifeInvPreserved DEF SystemInv, LifeInv
<1>2. FilingInv'
    BY FilingKept DEF SystemInv
<1>3. ASSUME ~InitializeDisputes, ~ToldElsewhere
      PROVE  Matched'
    <2>1. HereInv
        BY <1>3 DEF HereInv
    <2>2. ASSUME NEW c \in CampaignIds, NEW r \in Creators, DisputeStep(c, r)
          PROVE  Matched'
        BY <1>3, <2>1, <2>2, RaiseMatches, SettleMatches, FreezeDirectlyMatches, NobodyElseCloses
            DEF DisputeStep, RaiseElsewhere
    <2>3. CASE UNCHANGED systemVars
        <3>1. [Next]_vars /\ UNCHANGED disputeVars /\ UNCHANGED applications
            BY <2>3 DEF systemVars, vars
        <3> QED BY <2>1, <3>1, RecordsAside
    <2> QED BY <1>3, <2>1, <2>2, <2>3, EscrowStepMatches, AssignMatches DEF SystemNext
<1>4. ~ToldElsewhere' => Matched'
    BY <1>3, InitializeMatches, WhoWasTold
<1> QED BY <1>1, <1>2, <1>4 DEF SystemInv

LEMMA SystemInitEstablishes == SystemInit => SystemInv
<1> SUFFICES ASSUME SystemInit PROVE SystemInv
    OBVIOUS
<1>1. /\ dispute_instance = [admin |-> Null, escrow_contract |-> Null, next_dispute_id |-> 0]
      /\ disputes = [id \in DisputeIds |-> Disputes!NoDispute]
      /\ open_disputes = [key \in ApplicationKeys |-> Null]
    BY DEF SystemInit, Disputes!Init, DisputeIds
<1>2. LifeInv
    <2>1. FrozenIsSettleable
        BY DEF SystemInit, Init, FrozenIsSettleable, NoApplication
    <2> QED BY <2>1, InitEstablishes DEF LifeInv, SystemInit
<1>3. Disputes!NoDispute \in DisputeRecord
    BY DEF Disputes!NoDispute, Disputes!Pending, Pending, DisputeRecord, DisputeStatus
<1>4. DisputeTypes
    BY <1>1, <1>3 DEF DisputeTypes
<1>5. \A id \in DisputeIds : /\ disputes[id] = Disputes!NoDispute /\ id \in Nat
                              /\ ~Unresolved(id) /\ disputes[id].key = Null
    BY <1>1 DEF Disputes!NoDispute, Unresolved, DisputeIds, Disputes!DisputeIds
<1>6. FilingInv
    BY <1>1, <1>4, <1>5 DEF FilingInv, RecordsFiled, MarkersMatch, FiledAfterSetup
<1>7. Matched
    BY <1>1, <1>5 DEF Matched, ResolvedArePaid, Wired, MarkedAreFrozen, OneRecordEach
<1> QED BY <1>2, <1>6, <1>7 DEF SystemInv

\* The invariant of the two contracts together.
THEOREM SystemInvariant == SystemSpec => []SystemInv
    BY SystemInitEstablishes, SystemInvPreserved, PTL DEF SystemSpec

\* Both contracts' storage keeps its shape, whatever each was told of the other: in
\* the dispute contract's, ids are handed out in order and a marker names a record
\* that exists.
THEOREM SystemTypeCorrect == SystemSpec => []SystemTypeOK
<1>1. ASSUME SystemInv, NEW id \in DisputeIds
      PROVE  IF id < dispute_instance.next_dispute_id
             THEN disputes[id].key # Null /\ disputes[id].status # "None"
             ELSE disputes[id] = Disputes!NoDispute
    <2>1. id \in Nat /\ dispute_instance.next_dispute_id \in Nat
        BY <1>1, RecordFacts DEF SystemInv
    <2> QED BY <1>1, <2>1, RecordFacts DEF SystemInv, FilingInv, RecordsFiled
<1>2. ASSUME SystemInv, NEW key \in ApplicationKeys, open_disputes[key] # Null
      PROVE  open_disputes[key] < dispute_instance.next_dispute_id
    BY <1>2, MarkerFacts, RecordFacts DEF SystemInv
<1>3. SystemInv => SystemTypeOK
    BY <1>1, <1>2 DEF SystemInv, LifeInv, EscrowInv, FilingInv, DisputeTypes, SystemTypeOK, DisputeIds
<1> QED BY <1>3, SystemInvariant, PTL

\* raise_dispute and close_dispute keep markers and records in step whoever calls
\* them, and both with the escrow's freezes unless dispute-resolution was told
\* another escrow; what the escrow was told does not matter.
THEOREM DisputesAreFrozen == SystemSpec => []OpenDisputeIsFrozen
<1>1. SystemInv => OpenDisputeIsFrozen
    BY DEF SystemInv, FilingInv, MarkersMatch, Matched, MarkedAreFrozen, OpenDisputeIsFrozen,
        Unresolved, DisputeIds
<1> QED BY <1>1, SystemInvariant, PTL

\* No second record is ever made of a payout of the escrow that dispute-resolution
\* was told: freeze_for_dispute refuses a frozen one and a paid one.
THEOREM DisputedOnce == SystemSpec => []OneDisputePerPayout
<1>1. SystemInv => OneDisputePerPayout
    BY DEF SystemInv, Matched, OneRecordEach, OneDisputePerPayout, DisputeIds
<1> QED BY <1>1, SystemInvariant, PTL

--------------------------------------------------------------------------------
(* The money and the records together: what a resolved record says was paid. *)

\* Both contracts' invariants, the money's included.
RecordsInv == SystemInv /\ MoneyInv

LEMMA RecordsInvariant == SystemSpec => []RecordsInv
    BY SystemInvariant, DeployedIsEscrow, MoneyInvariant, PTL DEF RecordsInv

\* What a record says of its payout is settled by the settlement it names.
ClosedBy(c, r, id) ==
    \E a \in Admins, res \in Resolutions :
        /\ SettleDispute(a, c, r, res)
        /\ open_disputes[<<c, r>>] # Null /\ open_disputes[<<c, r>>] = id
        /\ disputes'[id] = [disputes[id] EXCEPT !.status = "Resolved", !.outcome = Outcome(res),
                                                !.resolved_at = now]

\* Where dispute-resolution was told this escrow, nothing but a settlement of its
\* payout resolves a record.
LEMMA ResolvedBySettlement ==
    ASSUME HereInv, [SystemNext]_systemVars, NEW id \in DisputeIds,
           disputes[id].status # "Resolved", disputes'[id].status = "Resolved"
    PROVE  \E c \in CampaignIds, r \in Creators : ClosedBy(c, r, id)
<1>1. FilingInv /\ LifeInv /\ now \in 0 .. MAX_TIME /\ ~ToldElsewhere
    BY HereFacts DEF HereInv, EscrowInv, TypeOK
<1>2. CASE EscrowStep \/ InitializeDisputes \/ UNCHANGED systemVars
    BY <1>2 DEF EscrowStep, InitializeDisputes, Disputes!Initialize, systemVars, disputeVars
<1>3. CASE AssignArbiter
    BY <1>1, <1>3, AssignFacts
<1>4. ASSUME NEW c \in CampaignIds, NEW r \in Creators, DisputeStep(c, r)
      PROVE  ClosedBy(c, r, id)
    <2> DEFINE key == <<c, r>>
    <2>1. key \in ApplicationKeys
        BY DEF ApplicationKeys
    <2>2. ASSUME NEW by \in Creators \cup Businesses, NEW reason, RaiseDispute(by, c, r, reason)
          PROVE  FALSE
        <3>1. Disputes!RaiseDispute(by, key, reason, GetCampaignBusiness(c))
            BY <2>2 DEF RaiseDispute
        <3> DEFINE new == dispute_instance.next_dispute_id
        <3> HIDE DEF key
        <3>2. /\ disputes'[new] = [key |-> key, raised_by |-> by, arbiter |-> Null, status |-> "Raised",
                                   outcome |-> Pending, raised_at |-> now, resolved_at |-> Null]
              /\ \A i \in DisputeIds \ {new} : disputes'[i] = disputes[i]
            BY <1>1, <2>1, <3>1, RaiseFiles
        <3> QED BY <3>2
    <2>3. ~FreezeDirectly(c, r)
        BY DEF FreezeDirectly, disputeVars
    <2>4. ASSUME NEW a \in Admins, NEW res \in Resolutions, SettleDispute(a, c, r, res)
          PROVE  ClosedBy(c, r, id)
        <3>1. CASE open_disputes[key] = Null
            BY <2>4, <3>1, SettlementOfNone DEF disputeVars
        <3>2. CASE open_disputes[key] # Null
            <4> DEFINE d == open_disputes[key]
            <4>1. /\ disputes'[d] = [disputes[d] EXCEPT !.status = "Resolved", !.outcome = Outcome(res),
                                                       !.resolved_at = now]
                  /\ \A i \in DisputeIds \ {d} : disputes'[i] = disputes[i]
                <5>1. disputes'[d] = [disputes[d] EXCEPT !.status = "Resolved", !.outcome = Outcome(res),
                                                         !.resolved_at = now]
                    BY <2>4, <3>2, SettlementCloses, ZenonT(60)
                <5>2. \A i \in DisputeIds \ {d} : disputes'[i] = disputes[i]
                    BY <2>4, <3>2, SettlementCloses
                <5> QED BY <5>1, <5>2
            <4>2. d = id
                BY <4>1
            <4> QED BY <2>4, <3>2, <4>1, <4>2 DEF ClosedBy
        <3> QED BY <3>1, <3>2
    <2> QED BY <1>1, <1>4, <2>2, <2>3, <2>4, NobodyElseCloses DEF DisputeStep, RaiseElsewhere
<1> QED BY <1>2, <1>3, <1>4 DEF SystemNext

\* A settlement's outcome and the creator's side of it.
LEMMA OutcomeSays ==
    ASSUME NEW res \in Resolutions, NEW amount \in Nat
    PROVE  /\ Outcome(res).kind = "CreatorFavored" => CreatorGross(amount, res) = amount
           /\ Outcome(res).kind = "BusinessFavored" => CreatorGross(amount, res) = 0
           /\ Outcome(res).kind = "Split" => CreatorGross(amount, res) = Share(amount, Outcome(res).bps)
<1>1. CASE res = PayCreator
    BY <1>1 DEF Outcome, PayCreator, CreatorFavored, CreatorGross
<1>2. CASE res = RefundBusiness
    BY <1>2 DEF Outcome, RefundBusiness, BusinessFavored, CreatorGross
<1>3. ASSUME NEW bps \in Splits, res = Split(bps)
      PROVE  Outcome(res) = res /\ res.kind = "Split" /\ CreatorGross(amount, res) = Share(amount, res.bps)
    BY <1>3 DEF Outcome, Split, CreatorGross
<1> QED BY <1>1, <1>2, <1>3 DEF Resolutions

\* What a settlement brings the business, where it is neither the creator nor the
\* treasury too.
LEMMA BusinessGets ==
    ASSUME MoneyInv, NEW c \in CampaignIds, NEW r \in Creators, NEW a \in Admins,
           NEW res \in Resolutions, ResolveDispute(a, c, r, res),
           campaigns[c].business \notin {r, instance.treasury}
    PROVE  LET camp == campaigns[c]
               amount == applications[<<c, r>>].payout_amount
           IN  balances'[camp.token][camp.business] - balances[camp.token][camp.business]
                    = amount - CreatorGross(amount, res)
<1> DEFINE token == campaigns[c].token
           business == campaigns[c].business
           amount == applications[<<c, r>>].payout_amount
           gross == CreatorGross(amount, res)
           fee == Share(gross, campaigns[c].fee_bps)
<1>1. /\ token \in Tokens /\ business \in Businesses
      /\ amount \in Nat /\ gross \in 0 .. amount /\ fee \in 0 .. gross
      /\ \E mid1, mid2 :
            /\ PaidFrom(balances, mid1, token, instance.treasury, fee)
            /\ PaidFrom(mid1, mid2, token, r, gross - fee)
            /\ PaidFrom(mid2, balances', token, business, amount - gross)
    BY ResolvePays
<1>2. business \in Accounts /\ business \notin {r, instance.treasury, EscrowContract}
    BY <1>1 DEF Accounts
<1>3. balances \in Ledgers
    BY BalancesAreNaturals DEF MoneyInv, TermsInv, LifeInv
<1> HIDE DEF token, business, amount, gross, fee
<1>4. PICK mid1, mid2 :
            /\ PaidFrom(balances, mid1, token, instance.treasury, fee)
            /\ PaidFrom(mid1, mid2, token, r, gross - fee)
            /\ PaidFrom(mid2, balances', token, business, amount - gross)
    BY <1>1
<1>5. balances[token][business] \in Nat
    BY <1>1, <1>2, <1>3 DEF Ledgers
<1>6. mid1[token][business] = balances[token][business]
    BY <1>1, <1>2, <1>4, <1>5 DEF PaidFrom
<1>7. mid2[token][business] = mid1[token][business]
    BY <1>1, <1>2, <1>4, <1>5, <1>6 DEF PaidFrom
<1>8. balances'[token][business] = mid2[token][business] + (amount - gross)
    BY <1>1, <1>2, <1>4, <1>5, <1>6, <1>7 DEF PaidFrom
<1> QED BY <1>1, <1>5, <1>6, <1>7, <1>8 DEF token, business, amount, gross

\* A dispute's record, once resolved, stands.  And where dispute-resolution was told
\* this escrow, it is resolved in the step that settles its payout, not before the
\* window is over, with the outcome that step paid out.
THEOREM RecordTellsSettlement == SystemSpec => RecordMatchesSettlement
<1>1. ASSUME RecordsInv, [SystemNext]_systemVars, NEW id \in DisputeIds,
             disputes[id].status = "Resolved"
      PROVE  disputes'[id] = disputes[id]
    BY <1>1, FilingKept DEF RecordsInv, SystemInv, ResolvedStand
<1>2. ASSUME RecordsInv, ~ToldElsewhere, [SystemNext]_systemVars, NEW id \in DisputeIds,
             disputes[id].status # "Resolved", disputes'[id].status = "Resolved"
      PROVE  LET record == disputes[id]
                 result == disputes'[id].outcome
                 camp == campaigns[record.key[1]]
                 payout == applications[record.key].payout_amount
                 Gain(a) == balances'[camp.token][a] - balances[camp.token][a]
             IN
             /\ ~Paid(record.key) /\ Paid(record.key)'
             /\ now >= record.raised_at + MIN_EVIDENCE_WINDOW
             /\ camp.business \notin {record.key[2], instance.treasury} =>
                /\ result.kind = "CreatorFavored" => Gain(camp.business) = 0
                /\ result.kind = "BusinessFavored" => Gain(camp.business) = payout
                /\ result.kind = "Split" => Gain(camp.business) = payout - Share(payout, result.bps)
    <2>1. HereInv /\ \E c \in CampaignIds, r \in Creators : ClosedBy(c, r, id)
        BY <1>2, ResolvedBySettlement DEF RecordsInv, HereInv
    <2>2. PICK c \in CampaignIds, r \in Creators, a \in Admins, res \in Resolutions :
            /\ SettleDispute(a, c, r, res)
            /\ open_disputes[<<c, r>>] # Null /\ open_disputes[<<c, r>>] = id
            /\ disputes'[id] = [disputes[id] EXCEPT !.status = "Resolved",
                                    !.outcome = Outcome(res), !.resolved_at = now]
        BY <2>1 DEF ClosedBy
    <2>3. <<c, r>> \in ApplicationKeys /\ disputes[id] \in DisputeRecord
        BY <2>1, HereFacts, RecordFacts DEF ApplicationKeys
    <2>4. disputes[id].key = <<c, r>> /\ applications[<<c, r>>].dispute_opened_at = disputes[id].raised_at
        BY <2>1, <2>2, <2>3, HereFacts, MarkerFacts DEF Matched, MarkedAreFrozen
    <2>5. ResolveDispute(a, c, r, res) /\ ~Paid(<<c, r>>) /\ Paid(<<c, r>>)'
        BY <2>1, <2>2, HereFacts, SettleFacts DEF SettleDispute
    <2>6. now >= disputes[id].raised_at + MIN_EVIDENCE_WINDOW
        <3>1. now \in Nat /\ disputes[id].raised_at \in Nat
            BY <1>2, <2>3 DEF RecordsInv, MoneyInv, TermsInv, LifeInv, EscrowInv, TypeOK, DisputeRecord
        <3> QED BY <2>4, <2>5, <3>1 DEF ResolveDispute, MayResolve, EvidenceWindowClosed
    <2>7. disputes'[id].outcome = Outcome(res)
        BY <2>2, <2>3 DEF DisputeRecord
    <2> DEFINE amount == applications[<<c, r>>].payout_amount
    <2>8. amount \in Nat
        BY <1>2, <2>5, UnpaidIsReserved DEF RecordsInv, MoneyInv, TermsInv, LifeInv, Paid
    <2>9. /\ Outcome(res).kind = "CreatorFavored" => CreatorGross(amount, res) = amount
          /\ Outcome(res).kind = "BusinessFavored" => CreatorGross(amount, res) = 0
          /\ Outcome(res).kind = "Split" => CreatorGross(amount, res) = Share(amount, Outcome(res).bps)
        BY <2>8, OutcomeSays
    <2>10. campaigns[c].business \notin {r, instance.treasury} =>
                balances'[campaigns[c].token][campaigns[c].business]
                    - balances[campaigns[c].token][campaigns[c].business]
                  = amount - CreatorGross(amount, res)
        BY <1>2, <2>5, BusinessGets DEF RecordsInv
    <2>11. disputes[id].key[1] = c /\ disputes[id].key[2] = r
        BY <2>4
    <2>12. disputes'[id].key = <<c, r>>
        BY <2>2, <2>3, <2>4 DEF DisputeRecord
    <2>13. ~Paid(disputes[id].key) /\ Paid(disputes[id].key)'
        BY <2>4, <2>5, <2>12 DEF Paid
    <2>14. /\ disputes'[id].outcome.kind = "CreatorFavored" => amount - CreatorGross(amount, res) = 0
           /\ disputes'[id].outcome.kind = "BusinessFavored" => amount - CreatorGross(amount, res) = amount
           /\ disputes'[id].outcome.kind = "Split" =>
                amount - CreatorGross(amount, res) = amount - Share(amount, disputes'[id].outcome.bps)
        BY <2>7, <2>8, <2>9
    <2> QED BY <2>4, <2>6, <2>10, <2>11, <2>13, <2>14
<1>3. RecordsInv /\ [SystemNext]_systemVars =>
        [\A id \in Disputes!DisputeIds :
            LET record == disputes[id]
                result == disputes'[id].outcome
            IN
            /\ record.status = "Resolved" => disputes'[id] = record
            /\ (~ToldElsewhere /\ record.status # "Resolved" /\ disputes'[id].status = "Resolved") =>
                LET camp == campaigns[record.key[1]]
                    payout == applications[record.key].payout_amount
                    Gain(a) == balances'[camp.token][a] - balances[camp.token][a]
                IN
                /\ ~Paid(record.key) /\ Paid(record.key)'
                /\ now >= record.raised_at + MIN_EVIDENCE_WINDOW
                /\ camp.business \notin {record.key[2], instance.treasury} =>
                    /\ result.kind = "CreatorFavored" => Gain(camp.business) = 0
                    /\ result.kind = "BusinessFavored" => Gain(camp.business) = payout
                    /\ result.kind = "Split" =>
                        Gain(camp.business) = payout - Share(payout, result.bps)]_systemVars
    BY <1>1, <1>2 DEF DisputeIds
<1> QED BY <1>3, RecordsInvariant, PTL DEF SystemSpec, RecordMatchesSettlement

--------------------------------------------------------------------------------
(* Over every payout the two contracts are one that keeps money and file.    *)

LEMMA DisputeStandingIs ==
    ASSUME LifeInv, NEW key \in ApplicationKeys
    PROVE  /\ DisputeStanding(key) = "settled" <=> Paid(key)
           /\ DisputeStanding(key) = "contested" <=> applications[key].frozen
           /\ DisputeStanding(key) = "undisputed" <=> ~Paid(key) /\ ~applications[key].frozen
           /\ applications[key].frozen <=> applications[key].dispute_opened_at # Null
<1>1. FreezeOK(applications[key])
    BY LifeInvFacts DEF ApplicationKeys
<1>2. ~(Paid(key) /\ applications[key].frozen)
    BY <1>1 DEF FreezeOK, Settleable, Paid
<1> QED BY <1>1, <1>2 DEF DisputeStanding, FreezeOK

\* There is a file only over a payout that is frozen or was settled, and one only.
LEMMA NoFile ==
    ASSUME HereInv, NEW key \in ApplicationKeys, ~applications[key].frozen, ~Paid(key)
    PROVE  FilesOn(key) = {}
    BY NoEarlierRecord DEF FilesOn, DisputeIds, ApplicationKeys

TheFile ==
    \A id \in DisputeIds :
        disputes[id].key \in ApplicationKeys => FilesOn(disputes[id].key) = {disputes[id]}

LEMMA OneFile == HereInv => TheFile
<1> SUFFICES ASSUME HereInv, NEW id \in DisputeIds, disputes[id].key \in ApplicationKeys
             PROVE  FilesOn(disputes[id].key) = {disputes[id]}
    BY DEF TheFile
<1>1. disputes[id].key # Null
    BY DEF ApplicationKeys
<1>2. \A i \in DisputeIds : disputes[i].key = disputes[id].key => i = id
    BY <1>1, HereFacts DEF Matched, OneRecordEach
<1> QED BY <1>2 DEF FilesOn, DisputeIds

\* A record that changes is on file over its own payout only.
LEMMA OtherFilesStand ==
    ASSUME NEW key, NEW id,
           \A i \in DisputeIds \ {id} : disputes'[i] = disputes[i],
           id \in DisputeIds => disputes[id].key # key /\ disputes'[id].key # key
    PROVE  FilesOn(key)' = FilesOn(key)
<1>1. {i \in DisputeIds : disputes'[i].key = key} = {i \in DisputeIds : disputes[i].key = key}
    OBVIOUS
<1>2. \A i \in DisputeIds : disputes[i].key = key => disputes'[i] = disputes[i]
    OBVIOUS
<1> QED BY <1>1, <1>2 DEF FilesOn, DisputeIds

PromiseStands(key) == UNCHANGED DisputeOver(key)!promiseVars

LEMMA SamePromise ==
    ASSUME NEW key, applications'[key] = applications[key], FilesOn(key)' = FilesOn(key), now' = now
    PROVE  PromiseStands(key)
    BY DEF PromiseStands, DisputeOver!promiseVars, DisputeStanding, Paid

\* Where no record moves and nothing frozen does, a payout is contested without a
\* file, claimed, or as it was; or time goes by.
LEMMA EscrowSideRefines ==
    ASSUME HereInv, [Next]_vars, UNCHANGED disputes, NEW c \in CampaignIds, NEW r \in Creators,
           applications[<<c, r>>].frozen => applications'[<<c, r>>] = applications[<<c, r>>]
    PROVE  DisputeOver(<<c, r>>)!Next \/ PromiseStands(<<c, r>>)
<1> DEFINE key == <<c, r>>
           app == applications[key]
           after == applications'[key]
<1>1. LifeInv /\ EscrowInv /\ key \in ApplicationKeys
    BY HereFacts DEF ApplicationKeys
<1>2. FilesOn(key)' = FilesOn(key)
    BY DEF FilesOn
<1>3. CASE Tick
    <2>1. applications' = applications /\ now' = now + 1
        BY <1>3 DEF Tick
    <2> QED BY <1>2, <2>1 DEF DisputeOver!Next, DisputeOver!Tick, DisputeStanding, Paid
<1>4. CASE now' = now
    <2>1. CASE after = app
        BY <1>2, <1>4, <2>1, SamePromise
    <2>2. CASE ~app.frozen /\ after # app
        <3>1. app \in Application /\ Life(c, r) /\ FreezeOK(app)
            BY <1>1, EveryStepIsLife, LifeInvFacts DEF EscrowInv, TypeOK
        <3>2. app.dispute_opened_at = Null /\ ~Resolved(app, after) /\ ~Paid(key)
            BY <1>1, <2>2, <3>1, PaidStaysPaid DEF FreezeOK, Resolved, EvidenceWindowClosed
        <3>3. FilesOn(key) = {}
            BY <1>1, <2>2, <3>2, NoFile
        <3>4. DisputeStanding(key) = "undisputed"
            BY <1>1, <2>2, <3>2, DisputeStandingIs
        <3>5. CASE Claimed(app, after)
            <4>1. /\ after.status = "Paid" /\ ~after.frozen
                  /\ after.dispute_opened_at = app.dispute_opened_at
                BY <3>1, <3>5 DEF Claimed, Application
            <4>2. DisputeStanding(key)' = "settled"
                BY <4>1 DEF DisputeStanding, Paid
            <4> QED BY <1>2, <1>4, <3>3, <3>4, <4>1, <4>2 DEF DisputeOver!Next, DisputeOver!Pay
        <3>6. CASE Contested(app, after)
            <4>1. after.frozen /\ after.dispute_opened_at = now /\ after.status = app.status
                BY <3>1, <3>6 DEF Contested, Application
            <4>2. DisputeStanding(key)' = "contested"
                BY <3>2, <4>1 DEF DisputeStanding, Paid
            <4> QED BY <1>2, <1>4, <3>3, <3>4, <4>1, <4>2 DEF DisputeOver!Next, DisputeOver!Contest
        <3>7. CASE \/ Applied(app, after) \/ Selected(app, after) \/ Submitted(app, after, campaigns[c])
                   \/ Accepted(app, after) \/ Refused(app, after, campaigns[c])
            <4>1. /\ after.frozen = app.frozen /\ after.dispute_opened_at = app.dispute_opened_at
                  /\ after.status # "Paid"
                <5> HIDE DEF app, after
                <5>1. app \in Application
                    BY <3>1
                <5> QED BY <3>7, <5>1 DEF Applied, Selected, Submitted, Accepted, Refused, Application
            <4>2. DisputeStanding(key)' = DisputeStanding(key)
                BY <3>2, <4>1 DEF DisputeStanding, Paid
            <4> QED BY <1>2, <1>4, <4>1, <4>2 DEF PromiseStands, DisputeOver!promiseVars
        <3> QED BY <2>2, <3>1, <3>2, <3>5, <3>6, <3>7 DEF Life
    <2> QED BY <2>1, <2>2
<1> QED BY <1>3, <1>4, OnlyTickMovesClock

\* assign_arbiter is a step of the file it is about, and of no other.
LEMMA AssignRefines ==
    ASSUME HereInv, HereInv', AssignArbiter, NEW key \in ApplicationKeys
    PROVE  DisputeOver(key)!Next \/ PromiseStands(key)
<1>1. PICK id \in DisputeIds, arbiter \in Arbiters :
        /\ disputes[id].status = "Raised"
        /\ disputes' = [disputes EXCEPT ![id].arbiter = arbiter, ![id].status = "UnderReview"]
        /\ UNCHANGED vars
    BY DEF AssignArbiter, Disputes!AssignArbiter, DisputeIds
<1>2. /\ disputes'[id] = [disputes[id] EXCEPT !.arbiter = arbiter, !.status = "UnderReview"]
      /\ \A i \in DisputeIds \ {id} : disputes'[i] = disputes[i]
    BY <1>1, HereFacts DEF FilingInv, DisputeTypes
<1>3. disputes[id] \in DisputeRecord /\ disputes'[id].key = disputes[id].key
    BY <1>2, HereFacts, RecordFacts DEF DisputeRecord
<1>4. UNCHANGED <<applications, now>>
    BY <1>1 DEF vars
<1>5. CASE disputes[id].key # key
    <2>1. FilesOn(key)' = FilesOn(key)
        BY <1>2, <1>3, <1>5, OtherFilesStand
    <2> QED BY <1>4, <2>1, SamePromise
<1>6. CASE disputes[id].key = key
    <2>1. FilesOn(key) = {disputes[id]}
        BY <1>6, OneFile DEF TheFile
    <2>2. TheFile'
        BY OneFile, PTL
    <2>3. FilesOn(key)' = {disputes'[id]}
        BY <1>3, <1>6, <2>2 DEF TheFile, DisputeIds
    <2>4. applications[key].frozen
        <3>1. open_disputes[key] = id /\ id # Null
            BY <1>1, <1>6, HereFacts, RecordFacts DEF Unresolved
        <3> QED BY <3>1, HereFacts DEF Matched, MarkedAreFrozen
    <2>5. DisputeStanding(key) = "contested"
        BY <2>4, HereFacts, DisputeStandingIs
    <2>6. DisputeStanding(key)' = DisputeStanding(key)
        BY <1>4 DEF DisputeStanding, Paid
    <2>7. FilesOn(key)' = {[disputes[id] EXCEPT !.arbiter = arbiter, !.status = "UnderReview"]}
        BY <1>2, <2>3
    <2>8. \E f \in FilesOn(key), a \in Arbiters :
            /\ f.status = "Raised"
            /\ FilesOn(key)' = {[f EXCEPT !.arbiter = a, !.status = "UnderReview"]}
        BY <1>1, <2>1, <2>7
    <2> QED BY <1>4, <2>5, <2>6, <2>8 DEF DisputeOver!Next, DisputeOver!Assign
<1> QED BY <1>5, <1>6

\* raise_dispute contests the payout and opens its file, in one step.
LEMMA RaiseRefines ==
    ASSUME HereInv, HereInv', NEW c \in CampaignIds, NEW r \in Creators, NEW reason,
           NEW by \in Creators \cup Businesses, RaiseDispute(by, c, r, reason),
           NEW key \in ApplicationKeys
    PROVE  DisputeOver(key)!Next \/ PromiseStands(key)
<1> DEFINE id == dispute_instance.next_dispute_id
           payout == <<c, r>>
           record == [key |-> payout, raised_by |-> by, arbiter |-> Null, status |-> "Raised",
                      outcome |-> Pending, raised_at |-> now, resolved_at |-> Null]
<1>1. /\ applications' = [applications EXCEPT ![payout].frozen = TRUE,
                                               ![payout].dispute_opened_at = now]
      /\ ~applications[payout].frozen /\ ~Paid(payout) /\ now' = now
    BY DEF RaiseDispute, FreezeForDispute,
           MayFreeze, RequireNotFrozen, Settleable, Paid
<1>2. /\ applications \in [ApplicationKeys -> Application] /\ payout \in ApplicationKeys
      /\ now \in 0 .. MAX_TIME
    BY HereFacts DEF EscrowInv, TypeOK, ApplicationKeys
<1>3. /\ id \in DisputeIds /\ disputes'[id] = record /\ disputes[id].key = Null
      /\ \A i \in DisputeIds \ {id} : disputes'[i] = disputes[i]
    <2>1. Disputes!RaiseDispute(by, payout, reason, GetCampaignBusiness(c))
        BY DEF RaiseDispute
    <2> HIDE DEF payout
    <2> QED BY <1>2, <2>1, HereFacts, RaiseFiles
<1>4. applications \in [ApplicationKeys -> Application] /\ payout \in ApplicationKeys
    BY <1>2
<1>5. CASE key # payout
    <2>1. disputes[id].key # key /\ disputes'[id].key # key
        BY <1>3, <1>5 DEF ApplicationKeys
    <2>2. FilesOn(key)' = FilesOn(key)
        BY <1>3, <2>1, OtherFilesStand
    <2> QED BY <1>1, <1>4, <1>5, <2>2, SamePromise
<1>6. CASE key = payout
    <2>1. FilesOn(key) = {}
        BY <1>1, <1>6, NoFile
    <2>2. TheFile'
        BY OneFile, PTL
    <2>3. FilesOn(key)' = {record}
        BY <1>3, <1>4, <1>6, <2>2 DEF TheFile, DisputeIds
    <2>4. DisputeStanding(key) = "undisputed"
        BY <1>1, <1>4, <1>6, HereFacts, DisputeStandingIs
    <2>5. /\ applications'[key].frozen /\ applications'[key].dispute_opened_at = now
          /\ applications'[key].status # "Paid"
        BY <1>1, <1>4, <1>6 DEF Application, Paid
    <2>6. DisputeStanding(key)' = "contested"
        BY <2>5 DEF DisputeStanding, Paid
    <2>7. DisputeOver(key)!OpenedNow(record)
        BY DEF DisputeOver!OpenedNow, DisputeOver!Pending, Pending
    <2> QED BY <1>1, <2>1, <2>3, <2>4, <2>5, <2>6, <2>7 DEF DisputeOver!Next, DisputeOver!Contest
<1> QED BY <1>5, <1>6

\* A settlement of the payout is the ruling on it, on file if it has a file: one
\* was opened only where the close cannot be refused.
LEMMA RulingRefines ==
    ASSUME HereInv, HereInv', NEW c \in CampaignIds, NEW r \in Creators, NEW admin \in Admins,
           NEW res \in Resolutions, SettleDispute(admin, c, r, res)
    PROVE  DisputeOver(<<c, r>>)!Rule
<1> DEFINE key == <<c, r>>
           id == open_disputes[key]
           app == applications[key]
<1>1. /\ key \in ApplicationKeys /\ applications \in [ApplicationKeys -> Application]
      /\ now \in Nat /\ LifeInv /\ FilingInv
    BY HereFacts DEF EscrowInv, TypeOK, ApplicationKeys
<1>2. /\ Settleable(app) /\ EvidenceWindowClosed(app)
      /\ applications' = [applications EXCEPT ![key].status = "Paid", ![key].frozen = FALSE,
                                              ![key].dispute_opened_at = Null]
      /\ now' = now
    BY DEF SettleDispute, ResolveDispute, MayResolve
<1>3. app.frozen /\ app.dispute_opened_at \in Nat
    BY <1>1, <1>2, DisputeStandingIs DEF EvidenceWindowClosed, Application
<1>4. DisputeStanding(key) = "contested" /\ now >= app.dispute_opened_at + MIN_EVIDENCE_WINDOW
    BY <1>1, <1>2, <1>3, DisputeStandingIs DEF EvidenceWindowClosed
<1>5. /\ applications'[key].status = "Paid" /\ ~applications'[key].frozen
      /\ applications'[key].dispute_opened_at = Null
    BY <1>1, <1>2 DEF Application
<1>6. DisputeStanding(key)' = "settled"
    BY <1>5 DEF DisputeStanding, Paid
<1> DEFINE Closed(f) == [f EXCEPT !.status = "Resolved", !.outcome = Outcome(res),
                                  !.resolved_at = now]
<1>7. FilesOn(key)' = {Closed(f) : f \in FilesOn(key)}
    <2>1. CASE id = Null
        <3>1. ASSUME NEW i \in DisputeIds, disputes[i].key = key
              PROVE  FALSE
            <4>1. disputes[i].key # Null /\ ~Paid(key)
                BY <1>1, <1>2, <3>1 DEF ApplicationKeys, Settleable, Paid
            <4>2. Unresolved(i)
                BY <3>1, <4>1, HereFacts DEF Matched, ResolvedArePaid
            <4> QED BY <1>1, <2>1, <3>1, <4>2, RecordFacts
        <3>2. UNCHANGED disputes
            BY <2>1, SettlementOfNone DEF disputeVars
        <3>3. FilesOn(key) = {} /\ FilesOn(key)' = {}
            BY <3>1, <3>2 DEF FilesOn, DisputeIds
        <3> QED BY <3>3
    <2>2. CASE id # Null
        <3>1. id \in DisputeIds /\ disputes[id].key = key
            BY <1>1, <2>2, MarkerFacts
        <3>2. disputes'[id].key = key /\ disputes'[id] = Closed(disputes[id])
            BY <2>2, SettlementCloses
        <3>3. FilesOn(key) = {disputes[id]}
            BY <1>1, <3>1, OneFile DEF TheFile
        <3>4. TheFile'
            BY OneFile, PTL
        <3>5. FilesOn(key)' = {disputes'[id]}
            BY <1>1, <3>1, <3>2, <3>4 DEF TheFile, DisputeIds
        <3>6. {Closed(f) : f \in {disputes[id]}} = {Closed(disputes[id])}
            OBVIOUS
        <3> QED BY <3>2, <3>3, <3>5, <3>6
    <2> QED BY <2>1, <2>2
<1> QED BY <1>2, <1>4, <1>5, <1>6, <1>7 DEF DisputeOver!Rule

\* Every other payout's file stands.
LEMMA SettleRefines ==
    ASSUME HereInv, HereInv', NEW c \in CampaignIds, NEW r \in Creators, NEW admin \in Admins,
           NEW res \in Resolutions, SettleDispute(admin, c, r, res), NEW key \in ApplicationKeys
    PROVE  DisputeOver(key)!Next \/ PromiseStands(key)
<1>1. CASE key = <<c, r>>
    BY <1>1, RulingRefines DEF DisputeOver!Next
<1>2. CASE key # <<c, r>>
    <2>1. applications'[key] = applications[key] /\ now' = now
        BY <1>2, HereFacts, SettleFacts
    <2> DEFINE id == open_disputes[<<c, r>>]
    <2>2. CASE id = Null
        <3>1. UNCHANGED disputes
            BY <2>2, SettlementOfNone DEF disputeVars
        <3> QED BY <2>1, <3>1, SamePromise DEF FilesOn
    <2>3. CASE id # Null
        <3>1. disputes[id].key = <<c, r>>
            BY <2>3, HereFacts, MarkerFacts DEF ApplicationKeys
        <3>2. /\ disputes'[id].key = <<c, r>>
              /\ \A i \in DisputeIds \ {id} : disputes'[i] = disputes[i]
            BY <2>3, SettlementCloses
        <3>3. FilesOn(key)' = FilesOn(key)
            BY <1>2, <3>1, <3>2, OtherFilesStand
        <3> QED BY <2>1, <3>3, SamePromise
    <2> QED BY <2>2, <2>3
<1> QED BY <1>1, <1>2

LEMMA DisputeStepRefines ==
    ASSUME HereInv, HereInv', [SystemNext]_systemVars, NEW key \in ApplicationKeys
    PROVE  DisputeOver(key)!Next \/ UNCHANGED DisputeOver(key)!promiseVars
<1>1. PICK c \in CampaignIds, r \in Creators : key = <<c, r>>
    BY DEF ApplicationKeys
<1>2. /\ LifeInv /\ EscrowInv /\ ~ToldElsewhere
      /\ applications \in [ApplicationKeys -> Application]
    BY HereFacts DEF HereInv, EscrowInv, TypeOK
<1>3. CASE EscrowStep
    <2>1. [Next]_vars /\ UNCHANGED disputes
        BY <1>3 DEF EscrowStep, Next, disputeVars
    <2> QED BY <1>1, <1>2, <1>3, <2>1, FrozenStands, EscrowSideRefines DEF PromiseStands
<1>4. CASE InitializeDisputes \/ UNCHANGED systemVars
    <2>1. UNCHANGED <<applications, disputes, now>>
        BY <1>4 DEF InitializeDisputes, Disputes!Initialize, systemVars, disputeVars, vars
    <2> QED BY <2>1, SamePromise DEF FilesOn, PromiseStands
<1>5. ASSUME NEW d \in CampaignIds, NEW s \in Creators, FreezeDirectly(d, s)
      PROVE  DisputeOver(key)!Next \/ PromiseStands(key)
    <2>1. PICK caller \in Admins \cup DisputeContracts : FreezeForDispute(caller, d, s)
        BY <1>5 DEF FreezeDirectly
    <2>2. [Next]_vars
        BY <1>2, <2>1, FreezeIsEscrowStep DEF Next
    <2>3. UNCHANGED disputes
        BY <1>5 DEF FreezeDirectly, disputeVars
    <2>4. applications[key].frozen => applications'[key] = applications[key]
        BY <1>2, <2>1 DEF FreezeForDispute, MayFreeze, RequireNotFrozen
    <2> QED BY <1>1, <2>2, <2>3, <2>4, EscrowSideRefines
<1>6. ASSUME NEW d \in CampaignIds, NEW s \in Creators, DisputeStep(d, s)
      PROVE  DisputeOver(key)!Next \/ PromiseStands(key)
    BY <1>2, <1>5, <1>6, RaiseRefines, SettleRefines, NobodyElseCloses
        DEF DisputeStep, RaiseElsewhere
<1> QED BY <1>3, <1>4, <1>6, AssignRefines DEF SystemNext, PromiseStands

\* The two contracts implement DisputePromise over every payout at once, where
\* dispute-resolution was told this escrow: whichever of them is called, in whatever
\* order and whatever the escrow was told, payout and file move as those of one
\* contract would, the swallowed refusals included.
THEOREM DisputesAreKept == SystemSpec => DisputesKeepPromises
<1>1. SystemInit => \A key \in ApplicationKeys : DisputeOver(key)!Init
    <2> SUFFICES ASSUME SystemInit, NEW key \in ApplicationKeys PROVE DisputeOver(key)!Init
        OBVIOUS
    <2>1. applications[key] = NoApplication /\ now = 0
        BY DEF SystemInit, Init
    <2>2. HereInv /\ LifeInv
        BY SystemInitEstablishes DEF HereInv, SystemInv, ToldElsewhere, SystemInit, Disputes!Init
    <2>3. ~applications[key].frozen /\ ~Paid(key) /\ applications[key].dispute_opened_at = Null
        BY <2>1 DEF NoApplication, Paid
    <2>4. DisputeStanding(key) = "undisputed" /\ FilesOn(key) = {}
        BY <2>2, <2>3, DisputeStandingIs, NoFile
    <2> QED BY <2>1, <2>3, <2>4 DEF DisputeOver!Init
<1>2. ASSUME SystemInv, SystemInv', [SystemNext]_systemVars, ~ToldElsewhere,
             NEW key \in ApplicationKeys
      PROVE  DisputeOver(key)!Next \/ UNCHANGED DisputeOver(key)!promiseVars
    <2>1. CASE InitializeDisputes
        <3>1. UNCHANGED <<applications, disputes, now>>
            BY <2>1 DEF InitializeDisputes, Disputes!Initialize, vars
        <3> QED BY <3>1, SamePromise DEF FilesOn, PromiseStands
    <2>2. CASE ~InitializeDisputes
        <3>1. HereInv /\ HereInv'
            BY <1>2, <2>2, WhoWasTold DEF HereInv
        <3> QED BY <1>2, <3>1, DisputeStepRefines
    <2> QED BY <2>1, <2>2
<1>3. SystemInv /\ SystemInv' /\ [SystemNext]_systemVars =>
        [~ToldElsewhere => \A key \in ApplicationKeys :
            DisputeOver(key)!Next \/ UNCHANGED DisputeOver(key)!promiseVars]_systemVars
    BY <1>2
<1> QED BY <1>1, <1>3, SystemInvariant, PTL DEF SystemSpec, DisputesKeepPromises
================================================================================
