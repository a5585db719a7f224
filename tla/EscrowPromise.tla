----------------------------- MODULE EscrowPromise -----------------------------
(***************************************************************************)
(* What the escrow promises the parties of one campaign, with none of its  *)
(* mechanics: the budget is deposited once, creators are promised parts of *)
(* it, a promise may be contested, each promise is settled at most once    *)
(* and in full out of the vault, and only what is promised to nobody can   *)
(* be withdrawn.                                                           *)
(***************************************************************************)
EXTENDS Integers, Functions

CONSTANT Creators

VARIABLES
    vault,      \* what the campaign still holds
    promises    \* per creator: how it stands, and the amount

promiseVars == <<vault, promises>>

Standing == {"none", "promised", "contested", "settled"}

Outstanding(p) == p.standing \in {"promised", "contested"}
Reserve == SumFunction([r \in Creators |-> IF Outstanding(promises[r]) THEN promises[r].amount ELSE 0])

Init ==
    /\ vault = 0
    /\ promises = [r \in Creators |-> [standing |-> "none", amount |-> 0]]

Deposit ==
    /\ vault = 0
    /\ \A r \in Creators : promises[r].standing = "none"
    /\ vault' > 0
    /\ UNCHANGED promises

Promise(r) ==
    LET amount == promises'[r].amount IN
    /\ promises[r].standing = "none"
    /\ amount > 0
    /\ Reserve + amount <= vault
    /\ promises' = [promises EXCEPT ![r] = [standing |-> "promised", amount |-> amount]]
    /\ UNCHANGED vault

Contest(r) ==
    /\ promises[r].standing = "promised"
    /\ promises' = [promises EXCEPT ![r].standing = "contested"]
    /\ UNCHANGED vault

Settle(r) ==
    /\ Outstanding(promises[r])
    /\ vault' = vault - promises[r].amount
    /\ promises' = [promises EXCEPT ![r].standing = "settled"]

Withdraw ==
    /\ vault' = Reserve
    /\ UNCHANGED promises

Next ==
    \/ Deposit
    \/ \E r \in Creators : Promise(r) \/ Contest(r) \/ Settle(r)
    \/ Withdraw

Spec == Init /\ [][Next]_promiseVars
================================================================================
