------------------------------ MODULE MCGGUFWriter ------------------------------
(***************************************************************************)
(* Two surgery plans of one source whose outputs differ in their layout    *)
(* (gguf_writer), or do not (gguf_other_plan).                             *)
(***************************************************************************)
EXTENDS GGUFWriter

CONSTANTS p1, p2

MCDistinct == [p \in {p1, p2} |-> p]
MCSame == [p \in {p1, p2} |-> p1]
=================================================================================
