---------------------------- MODULE MCCampaignEscrow ----------------------------
(***************************************************************************)
(* campaign-escrow on small instances.  Creators are interchangeable in    *)
(* the specification and in its properties, and so are businesses.         *)
(***************************************************************************)
EXTENDS CampaignEscrowProps, TLC

CreatorSymmetry == Permutations(Creators)
BusinessSymmetry == Permutations(Businesses)
================================================================================
