----------------------------- MODULE MCSyncNet -----------------------------
(* SyncNet for a client and a host beside the one with the low priority    *)
(* address.                                                                *)
EXTENDS SyncNet

CONSTANTS high, low, i1, m1

TwoHosts == {high, low}
OneIp == {i1}
OneMail == {m1}
None == {}
=============================================================================
