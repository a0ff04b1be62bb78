------------------------------ MODULE MCToolDispatch ------------------------------
(***************************************************************************)
(* A consequential request whose handler ends in every way, and one that   *)
(* reads only and competes with it for the ledger and the boundary.        *)
(***************************************************************************)
EXTENDS ToolDispatch

CONSTANTS r1, r2

MCEnds == [r \in {r1, r2} |-> IF r = r1 THEN HandlerResult ELSE {"value"}]
===================================================================================
