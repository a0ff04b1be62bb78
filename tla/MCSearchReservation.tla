--------------------------- MODULE MCSearchReservation ---------------------------
(***************************************************************************)
(* Two processes that reserve from three candidates, two at a time, with a *)
(* budget the second batch would overspend.                                *)
(***************************************************************************)
EXTENDS SearchReservation
==================================================================================
