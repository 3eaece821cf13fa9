---------------------------- MODULE MCShutdown ----------------------------
(* Values of Shutdown for TLC: the UDS and HTTPS listeners of a bearer     *)
(* deployment, and the agent listener of one with mTLS.                    *)
EXTENDS Shutdown, TLC

CONSTANTS agent, uds, https, r1, r2

BearerStyle == uds :> "graceful" @@ https :> "timed"
MtlsStyle == agent :> "loop"

RequestSymmetry == Permutations(Request)
============================================================================
