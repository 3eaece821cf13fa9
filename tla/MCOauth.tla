------------------------------ MODULE MCOauth ------------------------------
(* Model values of OauthSessions for TLC. *)
EXTENDS OauthInvariants

CONSTANTS codex, default, p1, o1
============================================================================
