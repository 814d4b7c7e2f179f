------------------------------ MODULE MCLocalChat ------------------------------
(* A small instance of LocalChat.                                               *)
EXTENDS LocalChat, TLC

MCPrompts == {[spans |-> <<"v1", "v2">>, verdict |-> "redact", inject |-> FALSE],
              [spans |-> <<"v1">>, verdict |-> "redact", inject |-> FALSE],
              [spans |-> <<"v1">>, verdict |-> "redact", inject |-> TRUE],
              [spans |-> <<"v2">>, verdict |-> "block", inject |-> FALSE],
              [spans |-> <<>>, verdict |-> "allow", inject |-> FALSE]}

Symmetry == Permutations(Chatters)
=============================================================================
