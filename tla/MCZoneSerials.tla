---------------------------- MODULE MCZoneSerials ----------------------------
(* Instances of ZoneSerials for TLC. *)
EXTENDS ZoneLedger

(* A busy replica with two watchers and a second replica with one. *)
MCHandler == {<<"r1", "dnsendpoint">>, <<"r1", "service">>, <<"r2", "dnsendpoint">>}

(* The smallest deployment: one replica, one watcher. *)
MCOneHandler == {<<"r1", "dnsendpoint">>}
==============================================================================
