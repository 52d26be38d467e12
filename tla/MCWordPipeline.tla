-------------------------- MODULE MCWordPipeline ----------------------------
(* Instance of WordPipeline for TLC: two letters in a table of 2 x 2, a    *)
(* generator of period 16 started everywhere, and pids for two children,   *)
(* so that three batches are one too many.                                 *)
EXTENDS WordPipeline

MCRequests == {1, 3, 4, 5}
MCPids == {101, 102}
MCSeeds == 0..15
=============================================================================
