------------------------------ MODULE TokenLedger ------------------------------
(***************************************************************************)
(* The SEP-41 token contracts, external to the repository, as campaign-    *)
(* escrow uses them through soroban_sdk::token::Client: transfer moves an  *)
(* amount between two accounts of one token, or traps.  A ledger is a      *)
(* function [token -> [account -> balance]].                               *)
(***************************************************************************)
EXTENDS Integers

\* A transfer the token contract accepts: the payer's balance covers it.
Covers(ledger, token, from, amount) == ledger[token][from] >= amount

\* ... and it holds neither account apart: an account without a trustline, or
\* whose authorization the issuer has withdrawn, can neither pay nor be paid,
\* whatever the amount.
Accepts(barred, token, from, to) == <<token, from>> \notin barred /\ <<token, to>> \notin barred

\* The ledger after the transfer.  Paying oneself leaves it as it was.
Transfer(ledger, token, from, to, amount) ==
    [ledger EXCEPT ![token] =
        [a \in DOMAIN ledger[token] |->
            ledger[token][a] + (IF a = to THEN amount ELSE 0)
                             - (IF a = from THEN amount ELSE 0)]]
================================================================================
