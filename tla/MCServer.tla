------------------------------- MODULE MCServer -------------------------------
(* The end of the input, for TLC; other instances are in MCStores and        *)
(* MCConversations.                                                          *)
EXTENDS Server

CONSTANTS r1, r2, r3

TwoIds == {r1, r2}
TwoJobs == [r \in Ids |-> {"isolated", "jit"}]
=============================================================================
