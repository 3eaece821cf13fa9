----------------------------- MODULE MCKamiwaza -----------------------------
(* Instance of Kamiwaza for TLC. *)
EXTENDS Kamiwaza
============================================================================
