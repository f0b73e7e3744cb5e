----------------------------- MODULE MCCampaigns -----------------------------
(* Campaigns on a small instance. *)
EXTENDS Campaigns, TLC

\* Slots of the broker and web requests are interchangeable.
Symmetry == Permutations(Tasks) \cup Permutations(Pages)
=============================================================================
