------------------------------ MODULE MCAudit ------------------------------
(* Model values of AuditLog for TLC; writers are interchangeable.  The     *)
(* days are 29 February and 1 March 2024; the formula is compared with the *)
(* calendar from 1600-01-01, 135140 days before the epoch, to 2400-12-31:  *)
(* the ends of three eras and both signs of the day count.                 *)
EXTENDS AuditLog, TLC

CONSTANTS w1, w2

Before == -135140

WriterSymmetry == Permutations(Writer)
============================================================================
