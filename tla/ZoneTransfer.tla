---------------------------- MODULE ZoneTransfer ----------------------------
(***************************************************************************)
(* A secondary name server that follows one zone of the plugin: it asks    *)
(* for the SOA record now and then, compares serials, and transfers the    *)
(* zone when it sees a newer one.  The serials, and the steps in which a   *)
(* watcher changes records and then raises them, are those of ZoneSerials; *)
(* here these steps also leave their mark on the records of the zone.      *)
(*                                                                         *)
(* Restarts are left out: they empty the cache, and the watchers fill it   *)
(* again before the server answers anyone (module Watcher).                *)
(***************************************************************************)
EXTENDS ZoneSerials

CONSTANTS
    Followed,     \* the zone the secondary follows
    Incremental,  \* whether it asks for an incremental transfer once it has a serial
    MaxLost       \* bound: transfers whose connection breaks

ASSUME FollowedAssumption == Followed \in Zone \ {Root} /\ Incremental \in BOOLEAN
ASSUME LostAssumption     == MaxLost \in Nat

VARIABLES
    working,    \* working[h]: the event h handles; events are numbered as they come
    content,    \* content[r]: the events whose changes r's records of the zone show
    raised,     \* raised[r]: the events after which r has raised serials, or found them high enough
    secondary,  \* the secondary: what it does, the replica it talks to, its copy of the zone
    heard,      \* raised[r] when the secondary last decided to transfer
    stream,     \* what the goroutine of the transfer sends: an SOA serial and records
    lost        \* transfers that broke; the goroutine of each waits for its reader for ever

marks == <<working, content, raised>>
link  == <<secondary, heard, stream, lost>>
allVars == <<vars, marks, link>>

------------------------------------------------------------------------------
(* The primary.                                                            *)

(* processEndpoints changes the records first and raises the serials       *)
(* after.  In the variant the records come last.                           *)
RecordsChangeLate == "snapshot"
RecordsChange     == "records"

Mark(h, label) ==
    IF pc[h] = label /\ Followed \in job[h].zones THEN {working[h]} ELSE {}

HandleEvent(h) ==
    /\ HandlerStep(h)
    /\ working' = IF pc[h] = "idle" THEN [working EXCEPT ![h] = events'] ELSE working
    /\ content' = [content EXCEPT ![h[1]] = @ \cup Mark(h, RecordsChange)]
    /\ raised'  = [raised EXCEPT ![h[1]] = @ \cup Mark(h, "raise")]
    /\ UNCHANGED link

Persist ==
    /\ \/ \E p \in Process : LoadStep(p)
       \/ \E r \in Replica : StartReplica(r) \/ OnStartup(r)
       \/ LateUpdate
    /\ UNCHANGED <<marks, link>>

(* A zone that has no serial is said to have the time.                     *)
getZoneSerial(r) ==
    IF zoneSerials[r][Followed] = None THEN Time ELSE {zoneSerials[r][Followed]}

(* Transfer: the goroutine copies the records under the lock of the zone   *)
(* and sends them between two SOA records.  Their serial is the one in the *)
(* request.  The variants put in the serial of the zone; the second does   *)
(* not ask whether the zone has one.                                       *)
SOASerialOfZone(r, requested) == CHOOSE serial \in getZoneSerial(r) : TRUE
SOASerialUnset(r, requested)  == zoneSerials[r][Followed]
SOASerial(r, requested)       == requested

InCache(r) == cacheSerials[r][Followed] # None

------------------------------------------------------------------------------
(* The secondary, and the transfer plugin that calls Transfer for it with  *)
(* the serial of the request: none, which is 0, in a request for the whole *)
(* zone.  The secondary asks for an SOA record by and by, whether it was   *)
(* notified or not.                                                        *)

HasZone == secondary.serial # None
Requested == IF Incremental /\ HasZone THEN secondary.serial ELSE 0

SeeNewSerial(r) ==
    /\ secondary.at = "idle" /\ pc[Starter(r)] = "serving"
    /\ \E serial \in getZoneSerial(r) : HasZone => serial > secondary.serial
    /\ secondary' = [secondary EXCEPT !.at = "ask", !.primary = r]
    /\ heard' = raised[r]
    /\ UNCHANGED <<vars, marks, stream, lost>>

(* There is nothing to send for a zone that is not in the cache.           *)
StartTransfer(r) ==
    /\ secondary.at = "ask" /\ secondary.primary = r
    /\ IF InCache(r)
         THEN /\ stream' = [serial |-> SOASerial(r, Requested), records |-> content[r]]
              /\ secondary' = [secondary EXCEPT !.at = "receive"]
         ELSE /\ secondary' = [secondary EXCEPT !.at = "idle"]
              /\ UNCHANGED stream
    /\ UNCHANGED <<vars, marks, heard, lost>>

(* Who asked what is newer than a serial and is told that serial has got   *)
(* all there is.                                                           *)
EndTransfer ==
    /\ secondary.at = "receive"
    /\ IF Incremental /\ HasZone /\ stream.serial = secondary.serial
         THEN secondary' = [secondary EXCEPT !.at = "idle"]
         ELSE secondary' = [secondary EXCEPT !.at = "idle", !.serial = stream.serial,
                                             !.records = stream.records]
    /\ UNCHANGED <<vars, marks, heard, stream, lost>>

LoseTransfer ==
    /\ secondary.at = "receive" /\ lost < MaxLost
    /\ secondary' = [secondary EXCEPT !.at = "idle"]
    /\ lost' = lost + 1
    /\ UNCHANGED <<vars, marks, heard, stream>>

------------------------------------------------------------------------------

(* A first deployment: there is no ConfigMap.                              *)
TransferInit ==
    /\ Init /\ configMap.version = 0
    /\ working = [h \in Handler |-> 0]
    /\ content = [r \in Replica |-> {}] /\ raised = [r \in Replica |-> {}]
    /\ secondary = [at |-> "idle", primary |-> None, serial |-> None, records |-> {}]
    /\ heard = {} /\ stream = [serial |-> 0, records |-> {}]
    /\ lost = 0

Follow == EndTransfer \/ \E r \in Replica : SeeNewSerial(r) \/ StartTransfer(r)

TransferNext ==
    \/ \E h \in Handler : HandleEvent(h)
    \/ Persist
    \/ Follow \/ LoseTransfer

(* A secondary asks again and again, and a watcher goes on with the event  *)
(* it has.  Once the plugin is started, Caddy goes on to serve.            *)
TransferFairness ==
    /\ WF_allVars(Follow)
    /\ \A h \in Handler : WF_allVars(pc[h] # "idle" /\ HandleEvent(h))
    /\ \A r \in Replica : WF_allVars(OnStartup(r) /\ UNCHANGED <<marks, link>>)

TransferSpec     == TransferInit /\ [][TransferNext]_allVars
FairTransferSpec == TransferSpec /\ TransferFairness

------------------------------------------------------------------------------
(* Properties.                                                             *)

Event == 1 .. events

TransferTypeOK ==
    /\ TypeOK
    /\ \A h \in Handler : working[h] \in Event \cup {0}
    /\ \A r \in Replica : content[r] \subseteq Event /\ raised[r] \subseteq Event
    /\ secondary.at \in {"idle", "ask", "receive"}
    /\ secondary.serial \in Serial \cup {None} /\ stream.serial \in Serial
    /\ lost \in 0 .. MaxLost

(* A secondary that saw a serial and then asks for the zone gets at least  *)
(* the changes that serial stands for, though Transfer copies the records  *)
(* some time after the SOA record was answered (processEndpoints changes   *)
(* the records first, Transfer copies them last).                          *)
CopyHasWhatSerialTold ==
    secondary.at = "receive" => heard \subseteq stream.records

(* plugin.go:159 says that SOA answers let secondaries check serials       *)
(* "before IXFR/AXFR": a secondary that does so gets every change in the   *)
(* end, be it that the serial of the change was raised, rolled back or no  *)
(* larger than before, that the save failed, or that transfers broke.      *)
SecondaryCatchesUp ==
    \A r \in Replica : \A e \in 1 .. MaxEvents :
        e \in content[r] ~> e \in secondary.records
==============================================================================
