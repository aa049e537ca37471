----------------------------- MODULE MCControl -----------------------------
EXTENDS Control

Conn(b1, b2, t, w, ok) ==
    [to |-> "diag", whole |-> ok,
     what |-> [op |-> "conn", addr1 |-> b1, addr2 |-> b2, type |-> t, wifi |-> w]]
Op(o)  == [to |-> "diag", whole |-> TRUE, what |-> [op |-> o]]
Ota(k) == [to |-> "ota", whole |-> TRUE, what |-> [host |-> k, port |-> k, res |-> k]]
Log    == [to |-> "ctrl", whole |-> TRUE, what |-> [op |-> "none"]]

MCCmds == {Conn(1, 1, 0, FALSE, TRUE), Conn(2, 2, 1, TRUE, TRUE), Conn(1, 2, 0, TRUE, FALSE),
           Op("disc"), Op("reboot"), Op("hang"),
           Ota("a"), Ota("b"), [Ota("b") EXCEPT !.whole = FALSE], Log}

\* Each property in the largest environments it can stand, and the others:
\* the link of the diagnostics with API links beside it.
\* With "race" or "lap" nothing is left of what the log command keeps.
MCEnvs == {{"api", "bad"}, {"again", "api", "beside", "stale"},
           {"hurry", "trickle"}, {"chat"}}
=============================================================================
