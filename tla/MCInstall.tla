------------------------------ MODULE MCInstall ------------------------------
(* An App ID that is used again, for TLC; the other instance is in MCStores. *)
EXTENDS Install

CONSTANTS p, q, e, d1

TwoIpas == {p, q}
NoExtensions == [i \in Ipas |-> {}]
OneDevice == {d1}
OneChoice == {<<"chosen">>}
NothingChosen == [i \in Ipas |-> {}]
=============================================================================
