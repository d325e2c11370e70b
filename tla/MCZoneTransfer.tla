--------------------------- MODULE MCZoneTransfer ---------------------------
(* Instances of ZoneTransfer for TLC: one replica with one or two watchers. *)
EXTENDS ZoneTransfer

MCTransferHandler == {<<"r1", "dnsendpoint">>, <<"r1", "service">>}
MCOneHandler == {<<"r1", "dnsendpoint">>}
==============================================================================
