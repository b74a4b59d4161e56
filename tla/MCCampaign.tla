----------------------------- MODULE MCCampaign -----------------------------
(***************************************************************************)
(* Instances of Campaign for TLC.                                          *)
(***************************************************************************)
EXTENDS Campaign

\* Two part files: one that takes several rounds, and a short one.
TwoParts == <<<<1, 2, 3, 4>>, <<5>>>>
=============================================================================
