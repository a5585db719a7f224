# AdsBazaar: a TLA+ verification of the escrow and dispute contracts

AdsBazaar is a pair of Soroban (Stellar) smart contracts. A business deposits a
campaign's budget in `campaign-escrow`, selects creators and agrees a payout with
each; creators submit proof of their work and are paid out of the deposit; a payout
in dispute is frozen and settled by the admin, and `dispute-resolution` keeps the
record of the dispute. The modules here model both contracts action by action, check
them with TLC on small instances, and prove for every instance, with TLAPS, all of their
safety properties that a proof can reach.

Paths below are relative to `contracts/` of the repository. `PROJECT.json` maps every
definition to the lines it models.

## 1. Inventory

### Components

| Component | State it keeps | Operations that change it |
|---|---|---|
| **campaign-escrow: campaigns and payouts** (`campaign-escrow/src/lib.rs`, `storage.rs`, `types.rs`) | `Campaign(id)`, `Application(id, creator)`, `ApplicantCount(id)`, `NextCampaignId` | `create_campaign`, `fund_campaign`, `update_campaign_metadata`, `apply_to_campaign`, `approve_creator`, `submit_proof`, `approve_submission`, `reject_submission`, `claim_payment`, `cancel_campaign`, `expire_campaign`, `emergency_recover_campaign`, `reclaim_surplus` |
| **campaign-escrow: governance** | `Admin`, `PendingAdmin`, `Treasury`, `FeeBps`, `DisputeContract`, `Paused` | `initialize`, `pause`, `unpause`, `propose_admin`, `accept_admin`, `update_fee_bps`, `update_treasury`, (`upgrade`) |
| **campaign-escrow: disputes** (`dispute.rs`) | `frozen`, `dispute_opened_at` of an application | `freeze_for_dispute`, `resolve_dispute`, (`resolve_dispute_payout`, a `todo!()`) |
| **dispute-resolution** (`dispute-resolution/src/`) | `Admin`, `EscrowContract`, `NextDisputeId`, `Dispute(id)`, `OpenDispute(id, creator)` | `initialize`, `raise_dispute`, `assign_arbiter`, `close_dispute`, (`resolve_dispute`, a `todo!()`; `upgrade`) |
| **shared** (`shared/src/lib.rs`) | none | the statuses and outcomes both contracts store, the basis-point denominator |
| **SEP-41 tokens** (external) | balances; which accounts a token does not reach | `transfer`; the issuer or the holder takes a trustline or authorization away and gives it back |
| **events** (`campaign-escrow/src/events.rs`, `dispute-resolution/src/events.rs`) **and the indexer that reads them** (external) | the indexer's copy of campaigns, payouts, disputes and settings | one per event |
| error codes, TTL extension, scripts | none that is read back | not modelled, see section 7 |

### How they interact

- Every entry point is an *atomic* invocation: it succeeds as a whole or the ledger is
  unchanged. The interleaving that matters is therefore between *calls*: any party may
  call anything at any time, in any order, and the clock advances between calls.
- `campaign-escrow` calls tokens: `transfer` in on funding, out on every payment and
  refund. All campaigns in a token share one balance of the contract.
- `raise_dispute` calls `get_campaign_business` and then `freeze_for_dispute` in the
  escrow; if the freeze traps, the whole call does.
- `resolve_dispute` in the escrow pays and then calls `close_dispute` through
  `try_invoke_contract`, discarding the result: a refusal leaves the settlement in place.
- Every entry point but `approve_submission` and `initialize` publishes an event, or two;
  an indexer knows the contracts' state from these alone.
- Each contract is told the other's address once, at `initialize`, in either order, and
  nothing checks it. At a wrong address there may be nothing, and calls there trap; or a
  contract that answers as it likes, such as another escrow that was told this dispute
  contract. `raise_dispute` then succeeds with nothing frozen in this escrow, and that other
  contract is the one that may call `close_dispute`.

### What is hard here

1. *The books are kept by hand.* `escrow_balance`, `committed_payouts` and
   `approved_count` are updated in eight handlers; `checked_sub` on a signed type stops
   overflow, never a negative balance. One refund path that forgets the reserve shows up
   only when a creator claims, weeks later.
2. *One token balance for all campaigns.* An error in one campaign is paid for out of
   another's deposit, and no call fails.
3. *Two routes to settle one payout* (`claim_payment`, `resolve_dispute`) plus four
   refunds, interleaved with freezes, on deadlines.
4. *The evidence window* is stamped in one call and read in another, with review calls in
   between.
5. *Values agreed at creation, governance at any time*: fee, treasury, admin and pause
   change between agreement and payment.
6. *Two records of one dispute*: the freeze in the escrow and the record in
   dispute-resolution, joined by one hard and one best-effort call.
7. *Fee and net, or both sides of a split, are sent in one call*: a token that does not
   reach one of the payees makes the whole call trap, the other payee's part included.
8. *Events are computed between reading the books and overwriting them*, and no test
   replays them: one amount taken too late misinforms everybody and breaks nothing on chain.
9. *Nothing happens unless somebody calls*: a payout whose deadline has passed without
   proof can be released by a dispute only, and a completed campaign refuses disputes.

The full list, each at its line with the properties that watch it, is `hazards` in
`PROJECT.json`.

### What makes each component correct

| Component | Properties |
|---|---|
| campaigns and payouts | `ReserveExact`, `SelectionWithinTerms`, `StatusMatchesBooks`, `SettledOnce`, `AutoApprovalHolds`, `DueCanBeClaimed`, `NothingIsStranded`, `BriefLocked`, `CampaignsKeepPromises`, `SubmittedWorkIsPaid`, `EscrowDrains` |
| tokens | `Solvency`, `EveryMovementBooked`, `SurplusReturnsToBusiness` |
| governance | `PaidOnAgreedTerms`, `PauseHolds` |
| disputes in the escrow | `FrozenIsSettleable`, `EvidenceHeldForWindow`, `FrozenCanBeSettled` |
| both contracts | `OpenDisputeIsFrozen`, `OneDisputePerPayout`, `RecordMatchesSettlement`, `DisputesKeepPromises` |
| events | `FeedReconciles`, `StatementsMatch`, `PublicNotice` |

## 2. Modules

```
AdsBazaarShared   TokenLedger            EscrowPromise (abstract)
        \            /                        ^
       CampaignEscrow                         | refines, per campaign
              |                               |
     CampaignEscrowProps ---------------------+        DisputeResolution
        |          |        \                                |
 MCCampaignEscrow  MCLiveness \___________ AdsBazaar --------+ (INSTANCE)
                                           /   |    \
                                ActivityFeed   |   DocClaims
                                      |        v refines, per payout
                            MCActivityFeed   DisputePromise (abstract)

 proofs, each extending the one before:
   SumLemmas -> CampaignEscrow_proofs -> ApplicationLife_proofs -> CampaignTerms_proofs
     -> PaymentTerms_proofs -> AdsBazaar_proofs -> ActivityFeed_proofs -> FeedStatements_proofs
```

| Module | Models |
|---|---|
| `AdsBazaarShared` | `shared/src/lib.rs`: statuses, outcomes, `Share` (basis points, rounded down), the widths of `i128` and `u64` |
| `TokenLedger` | what a SEP-41 `transfer` does to balances, and when it traps (external) |
| `CampaignEscrow` | the escrow contract: one action per entry point, plus `Tick` for the ledger timestamp |
| `CampaignEscrowProps` | its type invariant and properties |
| `EscrowPromise` | the abstract specification: what one campaign promises its parties, without mechanics |
| `DisputeResolution` | the dispute contract's storage and entry points |
| `DisputePromise` | the abstract specification of a dispute: what the two contracts promise over one payout, as if one contract kept money and file |
| `AdsBazaar` | both contracts with their calls into each other, and the cross-contract properties |
| `ActivityFeed` | the events of both contracts, what each entry point publishes, and the copy of the state an indexer keeps from them |
| `DocClaims` | statements of the repository's comments and README that the code does not keep |
| `MCCampaignEscrow`, `MCActivityFeed` | instances for TLC, with their symmetries |
| `MCLiveness` | the fairness of the parties and what eventually happens |
| `SumLemmas` | proved facts about the community modules' `SumFunctionOnSet` |
| `CampaignEscrow_proofs` | the books of the escrow |
| `ApplicationLife_proofs` | what happens to one application |
| `CampaignTerms_proofs` | status, selection and brief of one campaign, and the refinement of `EscrowPromise` |
| `PaymentTerms_proofs` | who is paid what, account by account, the pause, and which calls are open |
| `AdsBazaar_proofs` | the two contracts together: the escrow's theorems hold of them, their records agree with each other and with the money, and the refinement of `DisputePromise` |
| `ActivityFeed_proofs` | what the events tell of the state |
| `FeedStatements_proofs` | what the events tell of the money |

### Correspondence to the code

- A variable is a storage namespace: `instance` is instance storage as one record;
  `campaigns[id]`, `applications[<<id, creator>>]`, `applicants[id]` are the persistent
  keys; `balances[token][account]` is the tokens' own state; `now` the ledger timestamp.
  A key that was never set holds `Null`, or a record whose status is `"None"`.
- An action has the name and parameters of its entry point. Its guard is every condition
  under which the call returns `Ok` and does not trap, token balance included; its primed
  variables are every write. Failing calls change nothing and are not steps. The guards of the
  calls a property speaks of are named: `MayClaim`, `MayExpire`, `MayFreeze`, `MayResolve`.
  `require_auth` appears as the choice of the caller in `Next`.
- Three guards read differently from the code and say the same: a campaign that does not
  exist has status `"None"`, which every handler that loads it rejects (through the status,
  the owner or the application it then looks for); "already applied" is a status other than
  `"None"`; `try_close_dispute` is taken apart into the case in which `close_dispute`
  accepts and the case in which it does not.
- `RaiseDispute` and `SettleDispute` are the calls between the two contracts of this model;
  `ToldElsewhere` says that dispute-resolution holds another escrow's address, and then
  `RaiseElsewhere` and `CloseElsewhere` are its two entry points used with that other
  contract, of which nothing is assumed (section 7). `FeedRaiseElsewhere` and
  `FeedCloseElsewhere` add what they publish.
- Amounts and bps are integers with the code's own checks (`FitsI128` on the product of
  `Share`, `FitsU64` on the deadline sums). Rust's division truncates towards zero, which
  for these operands is `\div`.
- `barred` holds the pairs of token and account such that the token moves nothing from or to
  that account; `Bar` and `Admit` change it at any moment for the accounts in `MayBeBarred`.
  Every transfer a handler makes has to be accepted. An amount of zero is transferred, and
  so can trap, exactly where the code transfers it: the creator's net in `claim_payment`.
- `feed` is the indexer's copy. An event is an operator from feed to feed; a step of
  `FeedNext` is a step of the contracts and the events it publishes, in the code's order,
  with the code's amounts (`Swept`, `CreatorNet`). The contracts never read `feed`.
- Strings and proofs are values of a small set; what matters of a brief or a reason is
  whether it is empty.
- A definition whose name begins with `Slip` is not part of the contract. It is a way the
  definition after it could plausibly be written wrong (a guard dropped, a reserve
  forgotten, a clock off by one). `mutants` in `PROJECT.json` pairs each with the property
  that notices; no specification uses one.

### The abstract specifications

`EscrowPromise` has two variables, a vault and a promise per creator (none, promised,
contested, settled), and five steps: deposit once, promise within what is free, contest,
settle in full, withdraw exactly what is free. `PromiseOf(c)` in `CampaignEscrowProps`
instantiates it with campaign `c`'s `escrow_balance` for the vault and each application
read as a promise (`Standing`). `CampaignsKeepPromises` says that every campaign, at once,
implements it: claims and dispute settlements are both `Settle`, and the four refunds are
all `Withdraw`.

`DisputePromise` is about one payout and reads both contracts: how it stands (undisputed,
contested, settled), since when, and the set of files ever opened over it. It is contested
once, with a file opened in the same moment or with none; while it is, all that can happen is
that a file with no arbiter gets one; and it is ruled on after the window, the file recording
the ruling in the same moment. `DisputeOver(key)` in `AdsBazaar` reads standing and time off
the escrow's application and the files off dispute-resolution's records.
`DisputesKeepPromises` says that every payout, at once, implements it: `raise_dispute` with
the freeze it calls, and `resolve_dispute` with the close it tries, are one step each, and
nothing done to one payout touches the file of another.

## 3. Runs

Every amount, deadline and set of callers is chosen so that the cases a property is
about do happen; the counts are distinct states.

| Run | Question | Instance |
|---|---|---|
| `payouts` (47k) | Does one campaign keep its books and its promise through every order of selection, proof, review, freeze, claim, settlement and refund? | 2 creators, payouts of 2 or 3 from a budget of 5 (both fit exactly, or one leaves a surplus), fee 50% so that rounding shows, times 0..4 around deadlines 1 and 2, window 2, grace 1 |
| `governance` (179k) | Do agreed terms survive changes of fee, treasury, admin and pause at any moment, and do the events tell of them and of every amount that moves? | 2 admins, fee 5000 bps lowered to 1000 and refused at 1001, a payout of 20 of a budget of 25 (both fees show), a treasury that is the contract itself, splits of 3333 |
| `shared_token` (468k) | Do two campaigns in one token ever pay with each other's money? | 2 businesses with 3 units each, 2 campaigns of 3, one token |
| `edges` (965k) | At the ends of `i128` and `u64`, on zero and out-of-range arguments, and with accounts the token stops reaching, can what is due be claimed, what is disputed be settled, and the last unit be asked for? | `I128_MAX` = 19999, which a payout of 4 at 5000 bps passes and one of 3 does not; `U64_MAX` = 4, which the recovery deadline and an evidence window pass; splits of 3333 and 10001; either creator and the treasury may be barred and admitted at any time |
| `submitted_work` (127k) | Is unrejected work eventually paid? | as `payouts`, one creator and the treasury may be barred; fairness of section 4 |
| `drains` (44k) | Is every funded escrow eventually emptied? | as `payouts`, one creator may be barred for good; fairness of section 4 |
| `disputes` (365k) | Do records, markers, freezes, money and events agree with two payouts under dispute, and are the two contracts as good as one? | both contracts, initialized in either order, the escrow told the right dispute contract or a wrong one; 2 creators, 2 dispute ids, window 1 |
| `wiring` (285k) | What is left of that when either contract is told a wrong address at which something answers? | each contract told the right address of the other or a wrong one; 1 creator, 2 dispute ids, so that the other escrow can accept a second freeze of the same payout; deadlines 1 and 2, window 1, no arbiters |
| `doc_*` | Four statements of the documentation the code does not keep (section 6) | the smallest instance that shows each |

*Why the bounds are enough.* No handler looks at more than one campaign, one application
of it and the totals, so two creators on one campaign, or two campaigns on one token,
show every pair that can interfere; the sums over more of them are what the theorems
are for. Every deadline comparison has times before, at and after it within `MAX_TIME`.
`MAX_CAMPAIGNS`, `MAX_DISPUTES` and `MAX_TIME` cap counters that the code leaves unbounded
(or bounded by `u64`); reaching one only disables the action that would pass it. In
`edges` the clock does reach `U64_MAX`.

`DueCanBeClaimed`, `FrozenCanBeSettled` and `NothingIsStranded` say which calls are open.
An action is its guard and one assignment to each variable, so that the guard (`MayClaim`
and the others) is the whole of what `ENABLED` would say, and can be reasoned about. The
properties name what may close a call: the very account to be paid is barred, or the treasury
while there is a fee to pay it, or the product of amount and fee passes `i128`. Everybody
else's trouble is shown to be harmless.

*Symmetry.* Creators (and businesses in `shared_token`) are interchangeable in the
specification and in every property of the runs that declare it. The liveness runs use
none.

## 4. Fairness

The contract has no scheduler: it runs when it is called, so progress is owed to the
callers. `MCLiveness` states whose calls each promise rests on.

- `FairTick`: ledgers keep closing.
- `FairUnpause`: the admin does not leave the contract paused for ever. It is needed:
  without it `EscrowDrains` fails, since a pause stops every payment.
- `FairCreators`: a creator repeats `claim_payment` until it succeeds. Strong, because a
  pause or a dispute can disable the call in between.
- `FairAdmin`: the admin freezes a payout that is stuck past its deadline without proof,
  and settles every dispute whose window is over. Without it `EscrowDrains` fails: nobody
  else can release that reserve.
- `FairBusiness`: the business collects what is left after the deadline.

A creator the token no longer reaches cannot be paid; such a payout counts as stuck, and
`FairAdmin` takes it through a dispute, whose refund needs no transfer to the creator.
Without that clause `EscrowDrains` fails: the reserve of an unreachable creator stays for
ever, since cancelling and expiring leave reserves alone.

`SubmittedWorkIsPaid` uses the first three only: a creator needs nobody's consent.
`EscrowDrains` uses all of them. The finite clock needs care: a dispute opened at the
last instant would look as if it were never settled, so `BoundedNext` opens none whose
window ends after `MAX_TIME`, bars no account after that point, and lets the clock go on
only when no stuck payout waits for a dispute.

## 5. Proofs

The theorems hold for all values of the constants: any number of creators, campaigns,
tokens, disputes and parties, any arguments, widths and windows. Each states, under its
own name, the property a run checks on a small instance.

| Theorem | Property | Says |
|---|---|---|
| `TypeCorrect` | `TypeOK` | among the types: `escrow_balance`, `committed_payouts` and every token balance never go negative |
| `ReserveIsExact` | `ReserveExact` | `committed_payouts` is the sum of the approved, unpaid payouts, and the escrow covers it |
| `ContractIsSolvent` | `Solvency` | per token, the contract's balance covers the sum of all campaigns' escrow |
| `FrozenStaysSettleable` | `FrozenIsSettleable` | a frozen payout can still be settled, and its clock runs from the freeze |
| `EvidenceIsHeld` | `EvidenceHeldForWindow` | nothing touches a frozen payout before it is settled, and nothing settles it before its window has run out |
| `AutoApproval` | `AutoApprovalHolds` | after the content deadline a submission that is not contested cannot be undone |
| `SettlementIsOnce` | `SettledOnce` | a paid application never changes again, and a reserve falls only by a payout paid in the same step |
| `SelectionStaysWithinTerms` | `SelectionWithinTerms` | `approved_count` counts the agreed payouts, within `max_creators`, and all ever promised fits the deposit |
| `StatusIsTrue` | `StatusMatchesBooks` | a status never belies the books |
| `BriefStaysLocked` | `BriefLocked` | from the first application on the brief stands |
| `PromisesAreKept` | `CampaignsKeepPromises` | the escrow implements `EscrowPromise`, every campaign at once |
| `AgreedTermsPay` | `PaidOnAgreedTerms` | a claim and a settlement pay by the terms of the campaign's creation, to the unit |
| `SurplusGoesBack` | `SurplusReturnsToBusiness` | the free part of an escrow that leaves without a payment leaves whole, all of it to the business, or, after the grace period, all of it to the treasury; the reserve stands |
| `MoneyIsBooked` | `EveryMovementBooked` | the contract's balance moves exactly as its campaigns' escrow does |
| `PauseIsTotal` | `PauseHolds` | while paused no campaign, application or balance changes |
| `DueIsClaimable` | `DueCanBeClaimed` | what is due can be claimed: the money is there, whatever happened to other payouts |
| `FrozenIsOpen` | `FrozenCanBeSettled` | once its window is over a dispute can be settled for either side |
| `AlwaysAWayOut` | `NothingIsStranded` | after the deadline some call is open that moves what a campaign still holds, or it waits for an evidence window only |
| `DeployedIsEscrow` | (`SystemSpec => Spec`) | the two contracts together implement the escrow's specification |
| `SystemTypeCorrect` | `SystemTypeOK` | dispute ids are handed out in order, each with a record, and a marker names a record that was written, whatever either contract was told |
| `DisputesAreFrozen` | `OpenDisputeIsFrozen` | markers and unresolved records agree, whatever escrow dispute-resolution was told; where it was this one, so do the freezes |
| `DisputedOnce` | `OneDisputePerPayout` | no payout gets a second record, where dispute-resolution was told this escrow |
| `RecordTellsSettlement` | `RecordMatchesSettlement` | a resolved record stands, and, where dispute-resolution was told this escrow, it is its payout's settlement that resolves it, with what it paid the business |
| `DisputesAreKept` | `DisputesKeepPromises` | the two contracts implement `DisputePromise`, every payout at once, where dispute-resolution was told this escrow |
| `EventsTellTheState` | `FeedReconciles` | the copy kept from the events is the contracts' state |
| `NoticeIsPublic` | `PublicNotice` | a settlement's freeze has been public for the whole window |
| `StatementsAreTrue` | `StatementsMatch` | every business and creator gained what the events credit it with; what treasuries and admins gained, or nobody accounts for, is what was collected |

*Assumptions.* `EscrowAssumption`, `SharedAssumption`, `SystemAssumption` and
`FeedAssumption`: finitely many creators, tokens, admins and treasuries (the last three only
for the sums of `StatementsMatch`), the contract is not one of its own callers,
dispute-resolution's address is not an admin's, `Null` is no address and no number,
parameters are naturals, integers or basis points as the code types them. Every run evaluates those of the modules it extends.

*The books (`EscrowInv`).* None of the first three is inductive alone; `EscrowInv` joins
them and adds three facts. A claim leaves `committed_payouts` a natural because the payout
is a summand of the reserve (`UnpaidIsReserved`); a refund leaves `escrow_balance` one
because the reserve is covered. `fund_campaign` overwrites `escrow_balance`, which is only
right because a draft holds nothing, and `create_campaign` overwrites the storage of a
fresh id, which is only right because nobody has touched it (`IdleHoldsNothing`).
`approve_creator` adds the payout to the reserve, which is exact because nothing was owed
to a pending applicant (`PendingOwesNothing`). `create_campaign` copies the fee, which is
one because `initialize` sets it with the admin (`SetUpTogether`). Every entry point about
one campaign is shown to be a `StepOf(c)` (books of one campaign move, the contract's
balance with its escrow) that `OwedMoves(c)` (what is owed moves with
`committed_payouts`); `StepKeeps` does the rest once. `SettlementKeeps` covers both claim
and resolution, `SweepKeeps` the four refunds. `ShareIsPart` is the arithmetic: a
basis-point share lies between zero and the whole. `SumLemmas` shows that the library's
sum over a function does not depend on the order it takes, by a minimal counterexample
among the subsets, and hence how it changes with one element.

*The life of an application (`LifeInv`).* `Life(c, r)` lists the eight things that can
happen to an application (applied, selected, submitted, accepted, refused, claimed,
contested, resolved); `EveryStepIsLife` shows that every step of `Next` does one of them or
nothing. What no step may do is then read off the list. `LifeInv` adds
`FrozenIsSettleable` to `EscrowInv`: it needs the books, since a campaign is set to
Completed only when its escrow is down to nothing, and a payout that is owed keeps it above
that (`OwingIsOpen`). For `SettledOnce` the entry points divide in two: those that leave
every reserve at least where it was (`ReservesStand`), and the two settlements, which spend
exactly the payout they mark paid (`SettlementsSpendReserve`).

*The terms of a campaign (`TermsInv`).* The same from the campaign's side: `Course(c)`
lists what a step may do to a campaign (nothing to its books, a new applicant, opened,
deposited, agreed, paid out, swept). `TermsInv` counts applicants and selected creators by
`Cardinality` and ties status to books. The refinement follows from it: each item of
`Course(c)` is a step of `PromiseOf(c)` or a stutter, the sum `Reserve` of the abstract
module being `committed_payouts` by `ReserveExact`.

*The money (`MoneyInv`).* Books need to know only that a payment takes no more than its
amount. Here each transfer is followed account by account (`PaidFrom`): payees that are
the same account, and a treasury that is the contract itself, are cases of their own.
`PartiesOf` says that a campaign keeps the business, token and fee it was created with.

*What can be called (`OpenInv`).* That a guard holds is a fact about one state, and each of
its conjuncts has its reason in an invariant. The transfers go through because the
contract's balance covers the campaign's escrow (`EscrowIsThere`, from `Solvency`), which
covers the reserve, which covers the payout (`PayoutIsCovered`, from `ReserveExact`); what is
sent in two parts is never more than that (`ShareIsPart`). The remaining conjuncts are what
`LifeInv` and `TermsInv` know of a payout in that condition. `OpenInv` adds to `MoneyInv` that
once the contract is set up there is an admin and a treasury (`InOffice`); without that no call
by an admin could be promised. For `AlwaysAWayOut`, either the campaign is still open and its
business can let it expire, or it was closed, and then what it holds is a reserve
(`StatusOf`); a reserve above zero is owed to some creator (`ReserveIsOwed`: a sum above zero
has a summand above zero), whose payout is frozen or can be.

*The two contracts (`SystemInv`).* `SystemStepIsEscrowStep` maps every step of the pair to
one of the escrow or a stutter, so `DeployedIsEscrow` carries all of the above to the
deployed system. The invariant has two parts. `FilingInv` is about dispute-resolution alone
and holds whatever it was told: types, `RecordsFiled` (every id below the counter has the
record of some payout, none above has), `MarkersMatch` (markers and unresolved records name
each other), `FiledAfterSetup`. It gives `SystemTypeCorrect`. `Matched` is about both and is
claimed only as long as dispute-resolution was not told another escrow: `MarkedAreFrozen`,
`OneRecordEach`, `ResolvedArePaid` (a resolved record is of a paid payout) and `Wired` (a
record exists only if the escrow knows the dispute contract, and it the escrow). `Wired` is
what makes it inductive: the best-effort close cannot be refused for a record that exists,
because only contracts that know each other have one (`SettlementCloses`). `HereInv` is the
two parts where they both apply. `RecordTellsSettlement` adds `MoneyInv`:
`ResolvedBySettlement` shows that a record is resolved in `SettleDispute` only, and the
business's gain is then read off the payment. The gain tells the outcome unless the
business is also the creator or the treasury, and the property says so.
`DisputesAreKept` goes step by step. `NoFile` and `OneFile`, read off `HereInv`,
say that a payout neither frozen nor settled has no file and any payout at most one, so that
the set of files is determined by standing and record. A step of the escrow alone contests
without a file, pays, or lets time go by (`EscrowSideRefines`); the freeze of `raise_dispute`
and its record are one `Contest` (`RaiseRefines`); and `RulingRefines` needs `Wired`: where there
is a file the close that `resolve_dispute` tries is accepted, where there is none it has
nothing to close.

*The events.* `FeedStepIsSystemStep` drops the feed, so that what is proved of the two
contracts can be used of the watched ones. `Reconciled` is `FeedReconciles` entry by
entry plus the shape of the copy; one lemma per event says what it does to its entry
(`PaidOutEntry`, `CancelledEntry`, `RecordPublished`, `ClosePublished`, ...), one per group of entry points that state and copy
make the same move. Where a status is derived on both sides (Completed when the escrow is
used up) it is `TypeOK` and `ReserveExact` that make the derivations agree.

*The statements (`StatementsInv`).* Inductive with `MoneyInv`, `SystemInv` and
`Reconciled`. A step either moves nothing and publishes no amount (`NothingStated`) or is a
`Movement(token, k)`: each party gains of one token what the events credit it with, and the
treasuries and admins together with what no campaign accounts for gain the `k` that is
collected. `MovementMatches` carries the three sums over such a step once, one lemma per kind of
payment shows that it is one (`PaymentMoves`, `SweepMoves`, `DepositMatches`), for payees
that are the same account too, and the amounts published are those moved because the copy
they are computed beside agrees with the state (`Reconciled`).

*Checked only by TLC.* Liveness (`SubmittedWorkIsPaid`, `EscrowDrains`): it needs fairness,
which is outside TLAPS. The safety half of it is proved: a payout that is due can be claimed
(`DueIsClaimable`), a dispute whose window is over can be settled (`FrozenIsOpen`), and as
long as a campaign past its deadline holds anything some call that moves it is open or waits
for a window only (`AlwaysAWayOut`). Every invariant and every action property of the passing runs has
a theorem.

## 6. What the documentation says and the code does not

| Statement | Code |
|---|---|
| `campaign-escrow/src/lib.rs:199`: "The fee is read at claim time, so a fee change affects pending campaigns." | `claim_payment` and `resolve_dispute` use the fee snapshotted by `create_campaign` (`doc_fee_at_claim`) |
| `lib.rs:134`: pause freezes "all state-changing operations" | fee, treasury and admin change while paused, as their handlers check no pause (no run); `PauseHolds` shows that money, campaigns and applications do not |
| `lib.rs:861`: after cancellation the "creator can no longer submit proof" | `submit_proof` does not read the status: an approved creator submits, and is paid, until the deadline (`doc_proof_after_cancel`) |
| `README.md:294`: only dispute-resolution calls `freeze_for_dispute` | the admin can too, and then no dispute can be put on record (`doc_frozen_by_admin`) |
| `dispute-resolution/src/storage.rs:113`: the marker is cleared "so a fresh dispute can be raised over it later" | the settlement that clears it has marked the payout paid, and `freeze_for_dispute` refuses a paid one for ever (`doc_fresh_dispute`) |

The runs named are the ones that exhibit the disagreement. None of these breaks a property
of section 1. One more is about what is absent: `README.md:109` promises events "for every state transition", and
`approve_submission` (a status changes) and both `initialize` publish none. `FeedReconciles`
holds because the copy leaves that one status distinction out and the indexer is told the
first settings by whoever deploys.

## 7. Not modelled

- `upgrade` (and its event) replaces the WASM; what runs afterwards is not this code.
- TTL extension: an archived entry makes calls fail until it is restored and loses nothing.
- Error codes: a failing call changes nothing whatever its code, and tells nobody else.
- `resolve_dispute_payout` and dispute-resolution's `resolve_dispute` are `todo!()` and
  always trap.
- A contract at a wrong address. What it could do to these two is: as an escrow, name any
  business and accept any freeze (`RaiseElsewhere`), and close any dispute with any outcome
  at any moment (`CloseElsewhere`); as a dispute contract, freeze what a dispute contract may
  freeze (`FreezeDirectly`), and be told of a settlement, the answer to which the escrow
  ignores (`TryCloseDispute`). All of that is in the model; what goes on inside it is not.
- Read-only entry points, the deployment and smoke-test scripts.
- Tokens that charge on transfer, claw back or call back into the escrow. The first two
  would break the books by design, without any code of the repository being involved; the
  host forbids re-entering a contract that is already on the call stack.

## 8. State of the plan

Built: shared types, escrow, its properties and abstract specification, tokens that refuse
accounts, dispute contract and the abstract specification of a dispute, composition with
right and wrong wiring, events and indexer, liveness, and a theorem for every invariant and
action property. What is left:

1. A safety counterpart of `EscrowDrains` that can be proved: a measure of what is left to
   do about a campaign that every call `AlwaysAWayOut` speaks of brings down.
2. Liveness for tokens that bar the business or the treasury: the code gives no other way
   to their money, so nothing more than "unless they stay barred" can be promised.
3. A model of re-deployment: what an `upgrade` may assume of the storage it finds is
   `SystemInv`, and a new version could be checked to start from it.
