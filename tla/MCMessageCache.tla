-------------------------- MODULE MCMessageCache ----------------------------
(* Instances of MessageCache for TLC.  A word left uninitialised is 0 or   *)
(* not; the top byte of content[508..512) makes an int far above, or far   *)
(* below, every count the cache reaches.                                   *)
EXTENDS MessageCache

MCJunk == {0, 1}
ZeroLastWord == {0}
MCIntMin == -1000
AnyLastWord == {-100, 0, 100}
=============================================================================
