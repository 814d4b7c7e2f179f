--------------------------- MODULE MCProtectSessions ---------------------------
(* A small instance of ProtectSessions.                                         *)
EXTENDS ProtectSessions

MCUuids == <<"u1", "u2">>

W(w) == [word |-> w, free |-> TRUE]
In(w) == [word |-> w, free |-> FALSE]

\* Two secrets, the second inside a word too; two people and a secret; the name of a
\* person that also is part of another word.
MCPrompts == {[text |-> <<W("key1"), W("and"), W("key2"), In("key2")>>, found |-> {1, 3}],
              [text |-> <<W("ann"), W("bob"), W("key1")>>, found |-> {1, 2, 3}],
              [text |-> <<W("bob"), In("bob"), W("key2")>>, found |-> {1, 3}]}

\* The first surrogate of key2 is the first of key1, that of key1 may be key1 itself.
MCFakeSecret(k, w, n) ==
    CASE k = "empty" -> "x0"
      [] w = "key1" -> <<"key1", "x1", "x2">>[n + 1]
      [] OTHER -> <<"x1", "x2", "x3">>[n + 1]

\* Faker: ann's seed gives "bob" first.
MCFakeName(seed, n) ==
    IF seed[2] = "ann" THEN <<"bob", "cyd", "dan">>[((seed[3] + n) % 3) + 1]
    ELSE <<"cyd", "dan", "eve">>[((seed[3] + n) % 3) + 1]
=============================================================================
