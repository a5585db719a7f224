----------------------------- MODULE MCActivityFeed -----------------------------
(***************************************************************************)
(* Both contracts and an indexer on small instances.                       *)
(***************************************************************************)
EXTENDS ActivityFeed, TLC

CreatorSymmetry == Permutations(Creators)
================================================================================
