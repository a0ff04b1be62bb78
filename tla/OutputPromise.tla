------------------------------ MODULE OutputPromise ------------------------------
(***************************************************************************)
(* What docs/design/gguf-transactional-writer.md and                       *)
(* docs/design/gguf-resumable-writer.md promise of an output path: it is   *)
(* absent until a whole model appears at once, and that model stays.       *)
(***************************************************************************)
CONSTANTS Whole,   \* the contents that may be published
          Absent

VARIABLE output

Init == output = Absent
Publish == output = Absent /\ output' \in Whole
Spec == Init /\ [][Publish]_output
==================================================================================
