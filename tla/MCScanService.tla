----------------------------- MODULE MCScanService -----------------------------
(* Small instances of ScanService.                                              *)
EXTENDS ScanService, TLC

CONSTANTS s1, s2, w1, w2

MCScans == {s1, s2}
MCWriters == {w1, w2}
OneScan == {s1}
OneWriter == {w1}

\* The order is a setting too: a stage that may warn or fail, and the audit.
MCOrder == <<"privacy", "audit">>
MCPrompt(t) == "personal"

Setting(section, value) == [op |-> "put", set |-> [x \in {section} |-> value]]
Defaults == [op |-> "reset", set |-> [x \in {} |-> ""]]

\* A request turns the cloud off, sets something else, or goes back to the defaults.
MCOff == {Setting("cloud", "off")}
MCAsks == MCOff \union {Setting("privacy", "on"), Defaults}

MCAtStart == {[x \in {"cloud"} |-> "on"]}

\* Bound on the requests: one of them turns the cloud off.
OneTurnsOff == \E w \in MCWriters : ask[w] \in MCOff

Symmetry == Permutations(MCWriters)
=============================================================================
