---------------------------- MODULE DisputePromise ----------------------------
(***************************************************************************)
(* What the two contracts promise the parties to one payout about disputes *)
(* over it, as if a single contract kept the money and the file: the       *)
(* payout is contested at most once, with a file opened in the same moment *)
(* or with none; while it is, the file is all that changes; and it is      *)
(* ruled on once, after the window, the ruling being on file from then on. *)
(***************************************************************************)
EXTENDS AdsBazaarShared

CONSTANTS Window, Arbiters, Rulings

VARIABLES
    standing,   \* "undisputed", "contested" or "settled"
    since,      \* when it was contested, while it is
    files,      \* the files ever opened over it: at most one
    clock

promiseVars == <<standing, since, files, clock>>

\* A file holds at least this; whose it is does not matter here.
OpenedNow(f) ==
    /\ f.status = "Raised" /\ f.arbiter = Null /\ f.outcome = Pending
    /\ f.raised_at = clock /\ f.resolved_at = Null

Init ==
    /\ standing = "undisputed"
    /\ since = Null
    /\ files = {}
    /\ clock = 0

Contest ==
    /\ standing = "undisputed" /\ files = {}
    /\ standing' = "contested"
    /\ since' = clock
    /\ files' = {} \/ \E f \in files' : files' = {f} /\ OpenedNow(f)
    /\ UNCHANGED clock

Assign ==
    /\ standing = "contested"
    /\ \E f \in files, arbiter \in Arbiters :
        /\ f.status = "Raised"
        /\ files' = {[f EXCEPT !.arbiter = arbiter, !.status = "UnderReview"]}
    /\ UNCHANGED <<standing, since, clock>>

Rule ==
    /\ standing = "contested" /\ clock >= since + Window
    /\ standing' = "settled"
    /\ since' = Null
    /\ \E ruling \in Rulings :
        files' = {[f EXCEPT !.status = "Resolved", !.outcome = ruling, !.resolved_at = clock] :
                    f \in files}
    /\ UNCHANGED clock

\* Nobody contested it, and its creator was paid.
Pay ==
    /\ standing = "undisputed" /\ files = {}
    /\ standing' = "settled"
    /\ UNCHANGED <<since, files, clock>>

Tick ==
    /\ clock' = clock + 1
    /\ UNCHANGED <<standing, since, files>>

Next == Contest \/ Assign \/ Rule \/ Pay \/ Tick

Spec == Init /\ [][Next]_promiseVars
================================================================================
