------------------------------ MODULE MCSseStream ------------------------------
(* A small instance of SseStream: every way to cut some telling texts into deltas *)
(* and the raw answer into reads.                                               *)
EXTENDS SseStream

MCBody == {"A", "B"}
MCMapping == [s \in {<<"[", "_", "A", "A", "]">>} |-> <<"S">>]

\* A token of the request and one that is not; openings that turn out not to be a
\* token, one of them with a body that is too long; a bracket before a token; a
\* text that ends inside a token; newlines in the middle of one.
Texts == {<<"x", "[", "_", "A", "A", "]", "[", "_", "A", "B", "]">>,
          <<"[", "[", "_", "A", "[", "_", "A", "A", "]">>,
          <<"[", "_", "A", "A", "A", "]", "x">>,
          <<"]", "[", "_", "A", "A">>,
          <<"[", "_", "A", NewLine, "[", NewLine>>}

Cuts(t) == {<<SubSeq(t, 1, i), SubSeq(t, i + 1, j), SubSeq(t, j + 1, Len(t))>> :
               <<i, j>> \in {p \in (0..Len(t)) \X (0..Len(t)) : p[1] <= p[2]}}

OneChoice == UNION {{<<Delta(0, c[1]), Delta(0, c[2]), Delta(0, c[3]), Done>>,
                     <<Delta(0, c[1]), Delta(0, c[2]), Delta(0, c[3])>>,
                     <<Delta(0, c[1]), Delta(0, c[2]), Delta(0, c[3]), Other>>} :
                       c \in UNION {Cuts(t) : t \in Texts}}

MCEndings == {<<LF>>, <<CR, LF>>}
=============================================================================
