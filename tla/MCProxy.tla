------------------------------ MODULE MCProxy ------------------------------
(* Instance of ProxyRequest for TLC. *)
EXTENDS ProxyRequest

E(v, a, f, s, c, g) == [ver |-> v, auth |-> a, force |-> f, set |-> s, codex |-> c,
                        timeouts |-> 1, egress |-> g]
O(a, f, s) == [auth |-> a, force |-> f, set |-> s]
MCEntry == {E("v1", "header", TRUE, TRUE, FALSE, "direct"),
            E("v2", "oauth", FALSE, FALSE, TRUE, "proxied")}
MCOverride == {O("bearer", FALSE, TRUE), O("header", TRUE, FALSE),
               O("oauth", FALSE, FALSE)}
MCConfig ==
    {[tool |-> None, restricted |-> FALSE, kamiwaza |-> TRUE, cap |-> None,
      typed |-> FALSE, redact |-> FALSE, proxy |-> "url", frail |-> FALSE],
     [tool |-> [auth |-> "header", force |-> TRUE, set |-> FALSE, timeouts |-> 1,
                egress |-> "direct"], restricted |-> TRUE, kamiwaza |-> FALSE,
      cap |-> 2, typed |-> TRUE, redact |-> FALSE, proxy |-> "malformed", frail |-> FALSE],
     [tool |-> None, restricted |-> FALSE, kamiwaza |-> FALSE, cap |-> 1,
      typed |-> FALSE, redact |-> TRUE, proxy |-> None,
      frail |-> TRUE]}
B(r, s, w) == [responses |-> r, size |-> s, wrong |-> w]
MCBody == {B(TRUE, 1, {"store", "stream"}), B(TRUE, 0, None), B(TRUE, 2, {}),
           B(FALSE, 1, {"store"})}
R(st, t, s, h) == [status |-> st, typed |-> t, size |-> s, hits |-> h]
MCResponse == {R("2xx", TRUE, 0, 0), R("2xx", TRUE, 2, 0), R("2xx", TRUE, 4, 0),
               R("2xx", TRUE, 1, 2), R("5xx", TRUE, 1, 0), R("5xx", FALSE, 3, 0)}

(* Bounds: refreshes overlap in one of the configurations, between two     *)
(* requests or while a body is read, and a request is followed with a      *)
(* refresh under way until it has been sent or answered, after which it    *)
(* reads nothing that a refresh writes.                                    *)
Pending == {p \in Refresher : refresh[p] # None}
Settled == /\ Early \/ Pending = {}
           /\ (conf.kamiwaza /\ pc \in {"idle", "body"}) \/ Cardinality(Pending) <= 1
============================================================================
