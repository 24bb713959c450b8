----------------------------- MODULE MCSelfUpdate -----------------------------
(* Two downloads of one release, for TLC; the other instance is in MCStores. *)
EXTENDS SelfUpdate

Old == [core |-> 1, pre |-> << >>]
New == [core |-> 2, pre |-> << >>]
TwoReleases == {Old, New}
=============================================================================
