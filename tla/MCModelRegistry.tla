---------------------------- MODULE MCModelRegistry ----------------------------
(* A small instance of ModelRegistry.                                           *)
EXTENDS ModelRegistry

MCNames == <<"a", "b">>
MCHashes == {"h1", "h2"}
MCAtStart == [n \in {"a", "b"} |-> "h1"]

\* p1 pins a hash from outside, p2 the hash of the moment; both requests of the
\* ejecters are about a.
MCModel(r) == IF r = "p2" THEN "b" ELSE "a"
MCSha(r) == IF r = "p1" THEN "h1" ELSE "current"
=============================================================================
