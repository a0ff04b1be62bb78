------------------------------ MODULE MCChatCampaign ------------------------------
(***************************************************************************)
(* Two executions of one campaign that may overlap, and its child.         *)
(***************************************************************************)
EXTENDS ChatCampaign, TLC

CONSTANTS root, child, h1, h2

MCHandler == {h1, h2}
MCReuse == {"reusable", "one_time"}
MCResult == {"supported", "failed"}
MCSupported == {"supported"}
MCSymmetry == Permutations(MCHandler)
=====================================================================================
