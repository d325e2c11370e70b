----------------------------- MODULE ZoneSerials -----------------------------
(***************************************************************************)
(* The SOA serials of the zones one or more replicas of the plugin serve,  *)
(* and the ConfigMap that is meant to carry them over a restart            *)
(* (plugin.go).                                                            *)
(*                                                                         *)
(* Every replica keeps the map zoneSerials and the resource version of the *)
(* ConfigMap it last loaded, both behind serialsMutex.  Each of its watch  *)
(* goroutines handles one event at a time: it picks a serial, edits the    *)
(* records, raises the serials of the zones the event touches, writes all  *)
(* serials to the ConfigMap and, when that succeeds, sends NOTIFY.  Every  *)
(* critical section of serialsMutex is one step, and so is every call of   *)
(* the Kubernetes API, which checks the resource version it is given.      *)
(***************************************************************************)
EXTENDS Integers

CONSTANTS
    Replica,        \* the running copies of the plugin that share the ConfigMap
    Handler,        \* <<replica, watcher>>: the watch goroutines that get events
    Zone,           \* the configured zones, and "." for names outside all of them
    MaxSerial,      \* the largest uint32
    Time,           \* what time.Now().Unix() and creation timestamps may read
    MaxGeneration,  \* bound: the largest metadata.generation of an object
    Invalid,        \* a ConfigMap entry strconv.ParseUint rejects
    None,           \* no entry
    MaxEvents,      \* bound: events delivered, over all handlers
    MaxCrashes      \* bound: crashes, over all replicas

Watcher == {"dnsendpoint", "service", "ingress"}
Serial  == 0 .. MaxSerial

ASSUME HandlerAssumption == Handler \subseteq Replica \X Watcher
ASSUME ZoneAssumption    == "ROOT" \notin Zone /\ Zone # {}
ASSUME SerialAssumption  == MaxSerial \in Nat /\ Time \subseteq Serial
ASSUME EntryAssumption   == None \notin Nat /\ Invalid \notin Nat /\ None # Invalid
ASSUME BoundAssumption   == MaxGeneration \in Nat /\ MaxEvents \in Nat /\ MaxCrashes \in Nat

VARIABLES
    zoneSerials,      \* zoneSerials[r][z]: the serial replica r answers SOA queries with
    cacheSerials,     \* cacheSerials[r][z]: Zone.Serial in r's cache, None if it has no such zone
    resourceVersion,  \* resourceVersion[r]: the ConfigMap version r believes is current
    configMap,        \* the stored object; version 0 if there is none
    pc,               \* where each goroutine is
    job,              \* the local variables of each goroutine
    abandoned,        \* update requests whose client is gone, still on the wire
    events, crashes   \* how much of MaxEvents and MaxCrashes is spent

serialVars == <<zoneSerials, cacheSerials, resourceVersion>>
counters   == <<events, crashes>>
vars == <<serialVars, configMap, pc, job, abandoned, counters>>

------------------------------------------------------------------------------
(* Names, keys and values.                                                 *)

Root == "."

zoneToConfigKey(zone) == IF zone = Root THEN "ROOT" ELSE zone
configKeyToZone(key)  == IF key = "ROOT" THEN Root ELSE key

Key == {zoneToConfigKey(z) : z \in Zone}
Entry == Serial \cup {None, Invalid}
NoData == [k \in Key |-> None]

(* The map saveZoneSerials writes, and the one loadZoneSerials builds.     *)
ToData(serials) == [k \in Key |-> serials[configKeyToZone(k)]]
FromData(data)  == [z \in Zone |-> IF data[zoneToConfigKey(z)] \in Serial
                                     THEN data[zoneToConfigKey(z)] ELSE None]

NoSerials == [z \in Zone |-> None]

(* Goroutines: one per handler, and the one that runs Start.               *)
Starter(r) == <<r, "start">>
Process    == Handler \cup {Starter(r) : r \in Replica}
Started(r) == pc[Starter(r)] \in {"loaded", "serving"}

NoJob == [zones |-> {}, serial |-> 0, version |-> 0, data |-> NoData]

Goto(p, label)     == pc' = [pc EXCEPT ![p] = label]
Finish(p, label)   == Goto(p, label) /\ job' = [job EXCEPT ![p] = NoJob]

------------------------------------------------------------------------------
(* Choosing the serial of an event.                                        *)

(* A variant that forgets to wrap.                                         *)
NextSerialsUnwrapped(r, Z) ==
    LET known == {zoneSerials[r][z] : z \in Z} \ {None}
    IN  IF known \subseteq {0} THEN Time
        ELSE {n + 1 : n \in {n \in known : \A m \in known : m <= n}}

(* getNextSerial: one more, modulo 2^32, than the largest serial known for *)
(* the zones, or the time when no zone has one (or all of them are 0).     *)
NextSerials(r, Z) ==
    LET known == {zoneSerials[r][z] : z \in Z} \ {None}
        top   == {n \in known : \A m \in known : m <= n}
    IN  IF known \subseteq {0} THEN Time
        ELSE {IF n = MaxSerial THEN 0 ELSE n + 1 : n \in top}

(* calculateResourceSerial: creation time plus generation, modulo 2^32; an *)
(* object without a creation time gets the present time.                   *)
ResourceSerials ==
    {(t + g) % (MaxSerial + 1) : t \in Time, g \in 0 .. MaxGeneration}

(* generateSerial for DNSEndpoints, getNextSerial for the other kinds.  An *)
(* added DNSEndpoint takes the serial of the object; every other event     *)
(* takes the next one of its zones.                                        *)
EventSerials(h, Z) ==
    NextSerials(h[1], Z) \cup (IF h[2] = "dnsendpoint" THEN ResourceSerials ELSE {})

------------------------------------------------------------------------------
(* Handling an event.                                                      *)

(* An event whose endpoints lie in the zones Z reaches OnAdd, OnUpdate,    *)
(* OnDelete or one of their Service and Ingress twins.                     *)
Receive(h) ==
    /\ pc[h] = "idle" /\ Started(h[1]) /\ events < MaxEvents
    /\ \E Z \in SUBSET Zone \ {{}} : \E serial \in EventSerials(h, Z) :
          job' = [job EXCEPT ![h] = [NoJob EXCEPT !.zones = Z, !.serial = serial]]
    /\ Goto(h, "records")
    /\ events' = events + 1
    /\ UNCHANGED <<serialVars, configMap, abandoned, crashes>>

(* GetOrCreateZone for the zones Z: those that are not there yet start     *)
(* with the time t as their serial.  The variant starts all of them.       *)
WithZonesAnew(serials, Z, t) == [z \in Zone |-> IF z \in Z THEN t ELSE serials[z]]

WithZones(serials, Z, t) ==
    [z \in Zone |-> IF z \in Z /\ serials[z] = None THEN t ELSE serials[z]]

(* processEndpoints, first part: the records.  AddRecord makes the zones   *)
(* that receive one.                                                       *)
EditRecords(h) ==
    /\ pc[h] = "records"
    /\ \E Z \in SUBSET job[h].zones, t \in Time :
          cacheSerials' = [cacheSerials EXCEPT ![h[1]] = WithZones(@, Z, t)]
    /\ Goto(h, "raise")
    /\ UNCHANGED <<zoneSerials, resourceVersion, configMap, job, abandoned, counters>>

(* The zones of the event whose serial the critical section replaces.  The *)
(* variant trusts the serial chosen before the lock was taken.             *)
ZonesToRaiseUnchecked(h) == job[h].zones \ {Root}

ZonesToRaise(h) ==
    {z \in job[h].zones \ {Root} : \/ zoneSerials[h[1]][z] = None
                                   \/ job[h].serial > zoneSerials[h[1]][z]}

(* processEndpoints, second part, under serialsMutex.                      *)
RaiseSerials(h) ==
    /\ pc[h] = "raise"
    /\ LET up == ZonesToRaise(h)
           Raise(serials) == [z \in Zone |-> IF z \in up THEN job[h].serial ELSE serials[z]]
       IN  /\ zoneSerials'  = [zoneSerials  EXCEPT ![h[1]] = Raise(@)]
           /\ cacheSerials' = [cacheSerials EXCEPT ![h[1]] = Raise(@)]
           /\ IF up = {} THEN Finish(h, "idle")
              ELSE Goto(h, "snapshot") /\ job' = [job EXCEPT ![h].zones = up]
    /\ UNCHANGED <<resourceVersion, configMap, abandoned, counters>>

(* saveZoneSerials copies all serials and the version under the read lock. *)
SnapshotSerials(h) ==
    /\ pc[h] = "snapshot"
    /\ job' = [job EXCEPT ![h].data = ToData(zoneSerials[h[1]]),
                          ![h].version = resourceVersion[h[1]]]
    /\ Goto(h, "update")
    /\ UNCHANGED <<serialVars, configMap, abandoned, counters>>

(* The API server accepts a request that names the current version.        *)
Accepts(version) == version = configMap.version

(* It moves the version on unless nothing changes.                         *)
ServerStores(data) ==
    configMap' = [version |-> IF data = configMap.data /\ configMap.version # 0
                                THEN configMap.version ELSE configMap.version + 1,
                  data    |-> data]

(* The request p has on the wire; one to create has version 0 and no data. *)
Request(p) == [version |-> job[p].version, data |-> job[p].data]

(* The update succeeds.  The object the API returns, with its new version, *)
(* is thrown away: resourceVersion[r] keeps the version of the last load.  *)
UpdateSucceeds(h) ==
    /\ pc[h] = "update" /\ Accepts(job[h].version)
    /\ ServerStores(job[h].data)
    /\ Goto(h, "notify")
    /\ UNCHANGED <<serialVars, job, abandoned, counters>>

(* A variant that adopts the version of the other writer, not its serials. *)
UpdateConflictsAdopts(h) ==
    /\ pc[h] = "update" /\ ~Accepts(job[h].version)
    /\ resourceVersion' = [resourceVersion EXCEPT ![h[1]] = configMap.version]
    /\ Goto(h, "snapshot")
    /\ UNCHANGED <<zoneSerials, cacheSerials, configMap, job, abandoned, counters>>

(* A variant that takes a conflict for a save: someone has stored serials. *)
UpdateConflictsGoesOn(h) ==
    /\ pc[h] = "update" /\ ~Accepts(job[h].version)
    /\ Goto(h, "notify")
    /\ UNCHANGED <<serialVars, configMap, job, abandoned, counters>>

(* Someone else has changed the ConfigMap: reload it.                      *)
UpdateConflicts(h) ==
    /\ pc[h] = "update" /\ ~Accepts(job[h].version)
    /\ Finish(h, "get")
    /\ UNCHANGED <<serialVars, configMap, abandoned, counters>>

(* A variant that logs the error and goes on.                              *)
UpdateFailsGoesOn(h) ==
    /\ pc[h] = "update"
    /\ Goto(h, "notify")
    /\ UNCHANGED <<serialVars, configMap, job, abandoned, counters>>

(* Any other error is logged.  The request may still be under way.         *)
UpdateFails(h) ==
    /\ pc[h] = "update"
    /\ abandoned' = abandoned \cup {Request(h)}
    /\ Finish(h, "idle")
    /\ UNCHANGED <<serialVars, configMap, counters>>

(* NOTIFY for each zone raised, if OnStartup has found the transfer plugin *)
(* by now.  Neither case changes the state of the plugin.                  *)
Notify(h) ==
    /\ pc[h] = "notify"
    /\ Finish(h, "idle")
    /\ UNCHANGED <<serialVars, configMap, abandoned, counters>>

------------------------------------------------------------------------------
(* loadZoneSerials, run by Start and by a handler after a conflict.        *)

(* The API answers with the object as it is after the call.                *)
Answer(object) ==
    [zones |-> {}, serial |-> 0, version |-> object.version, data |-> object.data]

Fetched(p) == Goto(p, "store") /\ job' = [job EXCEPT ![p] = Answer(configMap')]

LoadGet(p) ==
    /\ pc[p] = "get"
    /\ UNCHANGED configMap
    /\ IF configMap.version # 0 THEN Fetched(p) ELSE Goto(p, "create") /\ UNCHANGED job
    /\ UNCHANGED <<serialVars, abandoned, counters>>

LoadCreate(p) ==
    /\ pc[p] = "create"
    /\ IF configMap.version # 0
         THEN UNCHANGED configMap /\ Goto(p, "getagain") /\ UNCHANGED job
         ELSE ServerStores(NoData) /\ Fetched(p)
    /\ UNCHANGED <<serialVars, abandoned, counters>>

LoadGetAgain(p) ==
    /\ pc[p] = "getagain"
    /\ UNCHANGED configMap
    /\ Fetched(p)
    /\ UNCHANGED <<serialVars, abandoned, counters>>

(* An API call fails.  Start gives up, and with it the process; a handler  *)
(* logs the error and keeps the serials it has.                            *)
LoadFails(p) ==
    /\ pc[p] \in {"get", "create", "getagain"}
    /\ abandoned' = abandoned \cup (IF pc[p] = "create" THEN {Request(p)} ELSE {})
    /\ Finish(p, IF p \in Handler THEN "idle" ELSE "down")
    /\ UNCHANGED <<serialVars, configMap, counters>>

(* The map is replaced under serialsMutex; entries that do not parse are   *)
(* skipped, and the cache learns the serials of the zones that do.         *)
LoadStore(p) ==
    LET r == p[1]
        loaded == FromData(job[p].data)
    IN  /\ pc[p] = "store"
        /\ zoneSerials' = [zoneSerials EXCEPT ![r] = loaded]
        /\ cacheSerials' = [cacheSerials EXCEPT ![r] =
               [z \in Zone |-> IF loaded[z] # None THEN loaded[z] ELSE @[z]]]
        /\ resourceVersion' = [resourceVersion EXCEPT ![r] = job[p].version]
        /\ Finish(p, IF p \in Handler THEN "idle" ELSE "loaded")
        /\ UNCHANGED <<configMap, abandoned, counters>>

------------------------------------------------------------------------------
(* The life of a replica, and what the network may do.                     *)

StartReplica(r) ==
    /\ pc[Starter(r)] = "down"
    /\ Goto(Starter(r), "get")
    /\ UNCHANGED <<serialVars, configMap, job, abandoned, counters>>

(* Caddy runs OnStartup once Start has returned: only now has the plugin   *)
(* the transfer plugin to notify through.                                  *)
OnStartup(r) ==
    /\ pc[Starter(r)] = "loaded"
    /\ Goto(Starter(r), "serving")
    /\ UNCHANGED <<serialVars, configMap, job, abandoned, counters>>

(* The process dies with all it keeps in memory.                           *)
Crash(r) ==
    /\ pc[Starter(r)] # "down" /\ crashes < MaxCrashes
    /\ crashes' = crashes + 1
    /\ zoneSerials'     = [zoneSerials EXCEPT ![r] = NoSerials]
    /\ cacheSerials'    = [cacheSerials EXCEPT ![r] = NoSerials]
    /\ resourceVersion' = [resourceVersion EXCEPT ![r] = 0]
    /\ pc' = [p \in Process |-> IF p[1] # r THEN pc[p]
                                ELSE IF p \in Handler THEN "idle" ELSE "down"]
    /\ job' = [p \in Process |-> IF p[1] # r THEN job[p] ELSE NoJob]
    /\ abandoned' = abandoned \cup
           {Request(p) : p \in {p \in Process : p[1] = r /\ pc[p] \in {"update", "create"}}}
    /\ UNCHANGED <<configMap, events>>

(* A request whose sender gave up or died reaches the API server after     *)
(* all; it is stored only if its version is still the current one.         *)
LateUpdate ==
    \E q \in abandoned :
        /\ abandoned' = abandoned \ {q}
        /\ IF Accepts(q.version) THEN ServerStores(q.data)
           ELSE UNCHANGED configMap
        /\ UNCHANGED <<serialVars, pc, job, counters>>

------------------------------------------------------------------------------

(* The ConfigMap is absent, or left behind by an earlier deployment.       *)
Init ==
    /\ zoneSerials     = [r \in Replica |-> NoSerials]
    /\ cacheSerials    = [r \in Replica |-> NoSerials]
    /\ resourceVersion = [r \in Replica |-> 0]
    /\ \/ configMap = [version |-> 0, data |-> NoData]
       \/ configMap \in [version : {1}, data : [Key -> Entry]]
    /\ pc  = [p \in Process |-> IF p \in Handler THEN "idle" ELSE "down"]
    /\ job = [p \in Process |-> NoJob]
    /\ abandoned = {}
    /\ events = 0 /\ crashes = 0

HandlerStep(h) ==
    \/ Receive(h) \/ EditRecords(h) \/ RaiseSerials(h) \/ SnapshotSerials(h)
    \/ UpdateSucceeds(h) \/ UpdateConflicts(h) \/ UpdateFails(h) \/ Notify(h)

LoadStep(p) ==
    LoadGet(p) \/ LoadCreate(p) \/ LoadGetAgain(p) \/ LoadFails(p) \/ LoadStore(p)

ReplicaStep(r) == StartReplica(r) \/ OnStartup(r) \/ Crash(r)

Next ==
    \/ \E h \in Handler : HandlerStep(h)
    \/ \E p \in Process : LoadStep(p)
    \/ \E r \in Replica : ReplicaStep(r)
    \/ LateUpdate

Spec == Init /\ [][Next]_vars

------------------------------------------------------------------------------
(* Properties.                                                             *)

Job == [zones : SUBSET Zone, serial : Serial, version : Nat, data : [Key -> Entry]]

Stored == [version : Nat, data : [Key -> Entry]]

Label == {"idle", "records", "raise", "snapshot", "update", "notify", "get",
          "create", "getagain", "store", "down", "loaded", "serving"}

TypeOK ==
    /\ zoneSerials  \in [Replica -> [Zone -> Serial \cup {None}]]
    /\ cacheSerials \in [Replica -> [Zone -> Serial \cup {None}]]
    /\ resourceVersion \in [Replica -> Nat]
    /\ configMap \in Stored
    /\ pc  \in [Process -> Label]
    /\ job \in [Process -> Job]
    /\ abandoned \subseteq Stored
    /\ events \in Nat /\ crashes \in Nat

(* No serial of d is lost or larger than it is in e.                       *)
Behind(d, e) == \A k \in Key : d[k] \in Serial => e[k] \in Serial /\ d[k] <= e[k]

(* A zone with a serial has the same one in the cache: getZoneSerial       *)
(* (plugin.go) and Zone.Serial (cache.go) never tell two stories, though   *)
(* AddRecord makes zones in the cache without serialsMutex.                *)
CacheMirrorsSerials ==
    \A r \in Replica, z \in Zone :
        zoneSerials[r][z] # None => cacheSerials[r][z] = zoneSerials[r][z]

(* Nobody who holds the current version of the ConfigMap, be it a replica, *)
(* a save under way or one whose sender is gone, holds a serial older than *)
(* the stored one.  This is why the API's version check protects serials.  *)
Vouches(object, version, data) ==
    /\ version <= object.version
    /\ version = object.version => Behind(object.data, data)

VersionVouches ==
    /\ \A r \in Replica : Vouches(configMap, resourceVersion[r], ToData(zoneSerials[r]))
    /\ \A h \in Handler : pc[h] = "update" => Vouches(configMap, job[h].version, job[h].data)
    /\ \A q \in abandoned : Vouches(configMap, q.version, q.data)

(* The secondaries are told of a change only after the serials they will   *)
(* ask for are safe in the ConfigMap, and there they stay while another    *)
(* goroutine, another replica or a late request writes it: a restart can   *)
(* not lose a serial that was announced (saveZoneSerials).                 *)
SavedBeforeNotify ==
    \A h \in Handler : pc[h] = "notify" => Behind(job[h].data, configMap.data)

(* The serials in the ConfigMap never decrease and never disappear,        *)
(* whatever crashes, fails, conflicts or arrives late.                     *)
PersistedNeverBack == [][Behind(configMap.data, configMap'.data)]_vars

(* A serial in use goes back, or is forgotten, only when its replica dies  *)
(* or stores what it has loaded (loadZoneSerials); no event does it, even  *)
(* with a serial that was chosen before another handler raised the zone.   *)
OnlyLoadGoesBack ==
    [][\A r \in Replica :
          \/ Behind(ToData(zoneSerials[r]), ToData(zoneSerials'[r]))
          \/ \E p \in Process : p[1] = r /\ LoadStore(p)
          \/ Crash(r)]_vars

(* What plugin_test.go:257 says of serials: they "never go backwards" at   *)
(* the zone level while the plugin runs.                                   *)
SerialNeverGoesBack ==
    [][\A r \in Replica : Started(r) /\ Started(r)' =>
          Behind(ToData(zoneSerials[r]), ToData(zoneSerials'[r]))]_vars
==============================================================================
