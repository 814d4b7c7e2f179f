------------------------------- MODULE MCMcpShim -------------------------------
(* A small instance of McpShim.                                                 *)
EXTENDS McpShim

\* Two ids, so that one is in flight while the other one is answered and reused.
MCIds == {"1", "2"}

\* Text beside an image; an embedded text beside an item of an unknown type; a file.
MCContents == {<<"text", "media">>, <<"other", "resource">>, <<"blob">>}
=============================================================================
