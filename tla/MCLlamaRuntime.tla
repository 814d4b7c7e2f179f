---------------------------- MODULE MCLlamaRuntime ----------------------------
(* A small instance of LlamaRuntime.                                            *)
EXTENDS LlamaRuntime
=============================================================================
