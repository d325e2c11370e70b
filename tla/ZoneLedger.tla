----------------------------- MODULE ZoneLedger -----------------------------
(***************************************************************************)
(* ZoneSerials as an implementation of SerialLedger: the ledger is what    *)
(* the ConfigMap holds, and an announcement is what a goroutine that is    *)
(* about to send NOTIFY has saved.                                         *)
(***************************************************************************)
EXTENDS ZoneSerials

(* Entries that do not parse count for nothing.                            *)
Readable(data) == [k \in Key |-> IF data[k] \in Serial THEN data[k] ELSE None]

Announcing == {Readable(job[h].data) : h \in {h \in Handler : pc[h] = "notify"}}

Ledger == INSTANCE SerialLedger WITH
    stored <- Readable(configMap.data), announced <- Announcing

(* Whatever replicas, watchers and the network do to the ConfigMap, its    *)
(* serials only grow, and NOTIFY is sent for none but stored ones          *)
(* (saveZoneSerials, loadZoneSerials).                                     *)
ImplementsLedger == Ledger!Spec
==============================================================================
