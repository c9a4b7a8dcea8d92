---------------------------- MODULE MCTalkServer ----------------------------
(* The descriptors of the run of TalkServer: one more than there are places, so *)
(* that a server that lets in too many would find one.                          *)
EXTENDS TalkServer

ThreeFds == {11, 12, 13}
=============================================================================
