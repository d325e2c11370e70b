-------------------------- MODULE ZoneSerials_proofs --------------------------
(***************************************************************************)
(* Theorems about ZoneSerials for any replicas, watchers, zones and        *)
(* bounds.                                                                 *)
(***************************************************************************)
EXTENDS ZoneSerials, TLAPS

USE DEF Starter

Data == [Key -> Entry]

LEMMA HandlerProcess ==
    /\ Handler \subseteq Process
    /\ \A h \in Handler : h[1] \in Replica
    /\ \A p \in Process : p[1] \in Replica
    /\ \A r \in Replica : Starter(r) \in Process /\ Starter(r)[1] = r
BY HandlerAssumption DEF Process, Starter

LEMMA KeyZone == \A z \in Zone : zoneToConfigKey(z) \in Key
BY DEF Key

LEMMA ZoneKey ==
    \A k \in Key : configKeyToZone(k) \in Zone /\ zoneToConfigKey(configKeyToZone(k)) = k
BY ZoneAssumption DEF Key, zoneToConfigKey, configKeyToZone, Root

LEMMA ToDataType ==
    ASSUME NEW s \in [Zone -> Serial \cup {None}]
    PROVE  ToData(s) \in Data
BY ZoneKey DEF ToData, Data, Entry

LEMMA FromDataType ==
    ASSUME NEW d \in Data
    PROVE  FromData(d) \in [Zone -> Serial \cup {None}]
BY DEF FromData, Data, Entry

LEMMA NoJobType ==
    /\ NoData \in Data
    /\ NoJob \in [zones : SUBSET Zone, serial : Serial, version : Nat, data : Data]
BY SerialAssumption DEF NoJob, NoData, Data, Entry, Serial

LEMMA EventSerialsType ==
    ASSUME TypeOK, NEW h \in Handler, NEW Z \in SUBSET Zone
    PROVE  EventSerials(h, Z) \subseteq Serial
<1>1. NextSerials(h[1], Z) \subseteq Serial
  <2> DEFINE known == {zoneSerials[h[1]][z] : z \in Z} \ {None}
             top   == {n \in known : \A m \in known : m <= n}
  <2>1. known \subseteq Serial
    BY HandlerProcess DEF TypeOK
  <2>2. \A n \in top : (IF n = MaxSerial THEN 0 ELSE n + 1) \in Serial
    BY <2>1, SerialAssumption DEF Serial
  <2>3. NextSerials(h[1], Z) =
          IF known \subseteq {0} THEN Time ELSE {IF n = MaxSerial THEN 0 ELSE n + 1 : n \in top}
    BY DEF NextSerials
  <2> HIDE DEF known, top
  <2> QED BY <2>2, <2>3, SerialAssumption
<1>2. ResourceSerials \subseteq Serial
  <2>1. ASSUME NEW t \in Nat, NEW g \in Nat
        PROVE  (t + g) % (MaxSerial + 1) \in 0 .. MaxSerial
    BY <2>1, SerialAssumption, SMTT(30)
  <2>2. \A t \in Time, g \in 0 .. MaxGeneration : (t + g) % (MaxSerial + 1) \in Serial
    <3>1. Time \subseteq Nat /\ 0 .. MaxGeneration \subseteq Nat
      BY SerialAssumption, BoundAssumption DEF Serial
    <3> QED BY <3>1, <2>1 DEF Serial
  <2>3. SUFFICES ASSUME NEW s \in ResourceSerials PROVE s \in Serial
    OBVIOUS
  <2>4. \E t \in Time, g \in 0 .. MaxGeneration : s = (t + g) % (MaxSerial + 1)
    BY DEF ResourceSerials
  <2> QED BY <2>2, <2>4
<1> QED BY <1>1, <1>2 DEF EventSerials

------------------------------------------------------------------------------
(* Type correctness.                                                       *)

LEMMA GotoType ==
    ASSUME TypeOK, NEW p \in Process, NEW l \in Label, Goto(p, l)
    PROVE  pc' \in [Process -> Label]
BY DEF Goto, TypeOK

LEMMA FinishType ==
    ASSUME TypeOK, NEW p \in Process, NEW l \in Label, Finish(p, l)
    PROVE  pc' \in [Process -> Label] /\ job' \in [Process -> Job]
BY NoJobType, GotoType DEF Finish, TypeOK, Job, Data

LEMMA StoreType ==
    ASSUME TypeOK, NEW d \in Data, ServerStores(d)
    PROVE  configMap' \in Stored
BY DEF ServerStores, TypeOK, Stored, Data

LEMMA RequestType ==
    ASSUME TypeOK, NEW p \in Process
    PROVE  Request(p) \in Stored
BY DEF Request, Stored, TypeOK, Job, Data

(* A handler's own steps.                                                  *)
LEMMA HandlerStepType ==
    ASSUME TypeOK, NEW h \in Handler, HandlerStep(h)
    PROVE  TypeOK'
<1> h \in Process /\ h[1] \in Replica
  BY HandlerProcess
<1>1. CASE Receive(h)
  <2>0. PICK Z \in SUBSET Zone \ {{}} : \E serial \in EventSerials(h, Z) :
             job' = [job EXCEPT ![h] = [NoJob EXCEPT !.zones = Z, !.serial = serial]]
    BY <1>1 DEF Receive
  <2>1. PICK serial \in EventSerials(h, Z) :
             job' = [job EXCEPT ![h] = [NoJob EXCEPT !.zones = Z, !.serial = serial]]
    BY <2>0
  <2>2. [NoJob EXCEPT !.zones = Z, !.serial = serial] \in Job
    BY NoJobType, EventSerialsType DEF Job, Data
  <2>3. job' \in [Process -> Job]
    BY <2>1, <2>2 DEF TypeOK
  <2>4. pc' \in [Process -> Label]
    BY <1>1, GotoType DEF Receive, Label
  <2> QED BY <1>1, <2>3, <2>4 DEF Receive, TypeOK, serialVars
<1>2. CASE EditRecords(h)
  <2>1. cacheSerials' \in [Replica -> [Zone -> Serial \cup {None}]]
    BY <1>2, SerialAssumption DEF EditRecords, WithZones, TypeOK
  <2>2. pc' \in [Process -> Label]
    BY <1>2, GotoType DEF EditRecords, Label
  <2> QED BY <1>2, <2>1, <2>2 DEF EditRecords, TypeOK, counters
<1>3. CASE RaiseSerials(h)
  <2> DEFINE up == ZonesToRaise(h)
             Raise(serials) == [z \in Zone |-> IF z \in up THEN job[h].serial ELSE serials[z]]
  <2>1. up \subseteq Zone
    BY DEF ZonesToRaise, TypeOK, Job
  <2>2. \A s \in [Zone -> Serial \cup {None}] : Raise(s) \in [Zone -> Serial \cup {None}]
    BY DEF TypeOK, Job
  <2>3. /\ zoneSerials'  = [zoneSerials  EXCEPT ![h[1]] = Raise(@)]
        /\ cacheSerials' = [cacheSerials EXCEPT ![h[1]] = Raise(@)]
    BY <1>3 DEF RaiseSerials
  <2>4. /\ zoneSerials'  \in [Replica -> [Zone -> Serial \cup {None}]]
        /\ cacheSerials' \in [Replica -> [Zone -> Serial \cup {None}]]
    <3> HIDE DEF Raise
    <3> QED BY <2>2, <2>3 DEF TypeOK
  <2>5. pc' \in [Process -> Label] /\ job' \in [Process -> Job]
    <3>1. CASE up = {}
      BY <1>3, <3>1, FinishType DEF RaiseSerials, Label
    <3>2. CASE up # {}
      <4>1. pc' \in [Process -> Label]
        BY <1>3, <3>2, GotoType DEF RaiseSerials, Label
      <4>2. job' = [job EXCEPT ![h].zones = up]
        BY <1>3, <3>2 DEF RaiseSerials
      <4> HIDE DEF up
      <4> QED BY <2>1, <4>1, <4>2 DEF TypeOK, Job
    <3> QED BY <3>1, <3>2
  <2> QED BY <1>3, <2>4, <2>5 DEF RaiseSerials, TypeOK, counters
<1>4. CASE SnapshotSerials(h)
  <2>1. job' \in [Process -> Job]
    BY <1>4, ToDataType DEF SnapshotSerials, TypeOK, Job, Data
  <2>2. pc' \in [Process -> Label]
    BY <1>4, GotoType DEF SnapshotSerials, Label
  <2> QED BY <1>4, <2>1, <2>2 DEF SnapshotSerials, TypeOK, serialVars, counters
<1>5. CASE UpdateSucceeds(h)
  <2>1. configMap' \in Stored
    BY <1>5, StoreType DEF UpdateSucceeds, TypeOK, Job, Data
  <2>2. pc' \in [Process -> Label]
    BY <1>5, GotoType DEF UpdateSucceeds, Label
  <2> QED BY <1>5, <2>1, <2>2 DEF UpdateSucceeds, TypeOK, serialVars, counters
<1>6. CASE UpdateConflicts(h)
  BY <1>6, FinishType DEF UpdateConflicts, TypeOK, serialVars, counters, Label
<1>7. CASE UpdateFails(h)
  BY <1>7, FinishType, RequestType DEF UpdateFails, TypeOK, serialVars, counters, Label
<1>8. CASE Notify(h)
  BY <1>8, FinishType DEF Notify, TypeOK, serialVars, counters, Label
<1> QED BY <1>1, <1>2, <1>3, <1>4, <1>5, <1>6, <1>7, <1>8 DEF HandlerStep

LEMMA FetchedType ==
    ASSUME TypeOK, NEW p \in Process, configMap' \in Stored, Fetched(p)
    PROVE  pc' \in [Process -> Label] /\ job' \in [Process -> Job]
<1>1. Answer(configMap') \in Job
  BY SerialAssumption DEF Answer, Stored, Job, Serial
<1> QED BY <1>1, GotoType DEF Fetched, Label, TypeOK

(* The steps of a load.                                                    *)
LEMMA LoadStepType ==
    ASSUME TypeOK, NEW p \in Process, LoadStep(p)
    PROVE  TypeOK'
<1>1. CASE LoadGet(p)
  BY <1>1, FetchedType, GotoType DEF LoadGet, TypeOK, serialVars, counters, Label
<1>2. CASE LoadCreate(p)
  <2>1. CASE configMap.version # 0
    BY <1>2, <2>1, GotoType DEF LoadCreate, TypeOK, serialVars, counters, Label
  <2>2. CASE configMap.version = 0
    <3>1. configMap' \in Stored
      BY <1>2, <2>2, NoJobType, StoreType DEF LoadCreate
    <3>2. pc' \in [Process -> Label] /\ job' \in [Process -> Job]
      BY <1>2, <2>2, <3>1, FetchedType DEF LoadCreate
    <3> QED BY <1>2, <2>2, <3>1, <3>2 DEF LoadCreate, TypeOK, serialVars, counters
  <2> QED BY <2>1, <2>2
<1>3. CASE LoadGetAgain(p)
  BY <1>3, FetchedType DEF LoadGetAgain, TypeOK, serialVars, counters
<1>4. CASE LoadFails(p)
  <2>1. pc' \in [Process -> Label] /\ job' \in [Process -> Job]
    BY <1>4, FinishType DEF LoadFails, Label
  <2> QED BY <1>4, <2>1, RequestType DEF LoadFails, TypeOK, serialVars, counters
<1>5. CASE LoadStore(p)
  <2>0. p[1] \in Replica /\ FromData(job[p].data) \in [Zone -> Serial \cup {None}]
    BY HandlerProcess, FromDataType DEF TypeOK, Job, Data
  <2>1. pc' \in [Process -> Label] /\ job' \in [Process -> Job]
    BY <1>5, FinishType DEF LoadStore, Label
  <2>2. /\ zoneSerials'  \in [Replica -> [Zone -> Serial \cup {None}]]
        /\ cacheSerials' \in [Replica -> [Zone -> Serial \cup {None}]]
    BY <1>5, <2>0 DEF LoadStore, TypeOK
  <2>3. resourceVersion' \in [Replica -> Nat]
    BY <1>5, <2>0 DEF LoadStore, TypeOK, Job
  <2> QED BY <1>5, <2>1, <2>2, <2>3 DEF LoadStore, TypeOK, counters
<1> QED BY <1>1, <1>2, <1>3, <1>4, <1>5 DEF LoadStep

LEMMA ReplicaStepType ==
    ASSUME TypeOK, NEW r \in Replica, ReplicaStep(r)
    PROVE  TypeOK'
<1> Starter(r) \in Process
  BY HandlerProcess
<1>1. CASE StartReplica(r)
  BY <1>1, GotoType DEF StartReplica, TypeOK, serialVars, counters, Label
<1>2. CASE OnStartup(r)
  BY <1>2, GotoType DEF OnStartup, TypeOK, serialVars, counters, Label
<1>3. CASE Crash(r)
  <2>1. /\ zoneSerials'  \in [Replica -> [Zone -> Serial \cup {None}]]
        /\ cacheSerials' \in [Replica -> [Zone -> Serial \cup {None}]]
        /\ resourceVersion' \in [Replica -> Nat]
    BY <1>3 DEF Crash, TypeOK, NoSerials
  <2>2. pc' \in [Process -> Label] /\ job' \in [Process -> Job]
    BY <1>3, NoJobType DEF Crash, TypeOK, Job, Data, Label
  <2>3. abandoned' \subseteq Stored
    BY <1>3, RequestType DEF Crash, TypeOK
  <2> QED BY <1>3, <2>1, <2>2, <2>3 DEF Crash, TypeOK
<1> QED BY <1>1, <1>2, <1>3 DEF ReplicaStep

LEMMA LateUpdateType == ASSUME TypeOK, LateUpdate PROVE TypeOK'
<1>1. PICK q \in abandoned :
          /\ abandoned' = abandoned \ {q}
          /\ IF Accepts(q.version) THEN ServerStores(q.data) ELSE UNCHANGED configMap
          /\ UNCHANGED <<serialVars, pc, job, counters>>
  BY DEF LateUpdate
<1>2. q.data \in Data
  BY DEF TypeOK, Stored, Data
<1>3. configMap' \in Stored
  BY <1>1, <1>2, StoreType DEF TypeOK
<1> QED BY <1>1, <1>3 DEF TypeOK, serialVars, counters

LEMMA StepType == ASSUME TypeOK, [Next]_vars PROVE TypeOK'
<1>1. CASE Next
  BY <1>1, HandlerStepType, LoadStepType, ReplicaStepType, LateUpdateType DEF Next
<1>2. CASE UNCHANGED vars
  BY <1>2 DEF vars, serialVars, counters, TypeOK
<1> QED BY <1>1, <1>2

LEMMA InitType == Init => TypeOK
<1> SUFFICES ASSUME Init PROVE TypeOK
  OBVIOUS
<1>1. configMap \in Stored
  BY NoJobType DEF Init, Stored, Data
<1>2. pc \in [Process -> Label] /\ job \in [Process -> Job]
  BY NoJobType DEF Init, Label, Job, Data
<1> QED BY <1>1, <1>2 DEF Init, TypeOK, NoSerials

(* Every variable keeps its type: in particular every serial a replica     *)
(* answers with, and every one it saves, fits in a uint32.                 *)
THEOREM TypeCorrect == Spec => []TypeOK
BY InitType, StepType, PTL DEF Spec

------------------------------------------------------------------------------
(* The inductive invariant: VersionVouches, extended to what a load has    *)
(* fetched and to a request to create the ConfigMap.                       *)

Loaded(object, version, data) ==
    /\ version <= object.version
    /\ version = object.version => data = object.data

Held(object, p) ==
    /\ pc[p] = "update" => Vouches(object, job[p].version, job[p].data)
    /\ pc[p] = "store"  => Loaded(object, job[p].version, job[p].data)
    /\ pc[p] \in {"down", "get", "create"} => job[p].version = 0 /\ job[p].data = NoData

Kept(object) ==
    /\ object.version = 0 => object.data = NoData
    /\ \A r \in Replica : Vouches(object, resourceVersion[r], ToData(zoneSerials[r]))
    /\ \A p \in Process : Held(object, p)
    /\ \A q \in abandoned : Vouches(object, q.version, q.data)

IInv == TypeOK /\ Kept(configMap)

LEMMA BehindItself == ASSUME NEW d \in Data PROVE Behind(d, d)
BY SerialAssumption DEF Behind, Data, Serial

LEMMA BehindTransitive ==
    ASSUME NEW d \in Data, NEW e \in Data, NEW f \in Data, Behind(d, e), Behind(e, f)
    PROVE  Behind(d, f)
BY SerialAssumption DEF Behind, Data, Serial

LEMMA NoDataBehind == ASSUME NEW d \in Data PROVE Behind(NoData, d)
BY SerialAssumption, EntryAssumption DEF Behind, NoData, Serial

(* Loading and saving again gives back every serial.                       *)
LEMMA LoadKeepsSerials == ASSUME NEW d \in Data PROVE Behind(d, ToData(FromData(d)))
BY ZoneKey, SerialAssumption DEF Behind, ToData, FromData, Data, Serial

(* What every step does to the ConfigMap.                                  *)
Grows ==
    /\ configMap.version <= configMap'.version
    /\ configMap'.version = configMap.version => configMap'.data = configMap.data
    /\ Behind(configMap.data, configMap'.data)
    /\ (configMap.version = 0 => configMap.data = NoData) =>
       (configMap'.version = 0 => configMap'.data = NoData)

LEMMA SameGrows == ASSUME TypeOK, UNCHANGED configMap PROVE Grows
BY BehindItself, SerialAssumption DEF Grows, TypeOK, Stored, Data

LEMMA StoreGrows ==
    ASSUME TypeOK, NEW d \in Data, ServerStores(d), Behind(configMap.data, d)
    PROVE  Grows /\ configMap'.data = d
BY DEF Grows, ServerStores, TypeOK, Stored

(* A ConfigMap that grows disturbs nobody.                                 *)
LEMMA KeptWhenGrows == ASSUME IInv, TypeOK', Grows PROVE Kept(configMap')
<1>1. configMap.version \in Nat /\ configMap'.version \in Nat
  BY DEF IInv, TypeOK, Stored
<1>2. ASSUME NEW v \in Nat, NEW d, Vouches(configMap, v, d)
      PROVE  Vouches(configMap', v, d)
  BY <1>1, <1>2 DEF Vouches, Grows
<1>3. ASSUME NEW v \in Nat, NEW d, Loaded(configMap, v, d)
      PROVE  Loaded(configMap', v, d)
  BY <1>1, <1>3 DEF Loaded, Grows
<1>4. \A r \in Replica : Vouches(configMap', resourceVersion[r], ToData(zoneSerials[r]))
  BY <1>2 DEF IInv, Kept, TypeOK
<1>5. \A q \in abandoned : Vouches(configMap', q.version, q.data)
  BY <1>2 DEF IInv, Kept, TypeOK, Stored
<1>6. ASSUME NEW p \in Process PROVE Held(configMap', p)
  <2>1. job[p].version \in Nat /\ Held(configMap, p)
    BY DEF IInv, Kept, TypeOK, Job
  <2> QED BY <2>1, <1>2, <1>3 DEF Held
<1> QED BY <1>4, <1>5, <1>6 DEF Kept, IInv, Grows

(* Only the goroutine that takes the step has anything new to show.        *)
LEMMA OneMoves ==
    ASSUME Kept(configMap'), NEW p \in Process,
           \A q \in Process \ {p} : pc'[q] = pc[q] /\ job'[q] = job[q],
           Held(configMap, p)'
    PROVE  \A q \in Process : Held(configMap, q)'
BY DEF Kept, Held

LEMMA NoJobIsEmpty == NoJob.version = 0 /\ NoJob.data = NoData
BY DEF NoJob

LEMMA GotoMoves ==
    ASSUME TypeOK, NEW p \in Process, NEW l, Goto(p, l)
    PROVE  /\ pc'[p] = l
           /\ \A q \in Process \ {p} : pc'[q] = pc[q]
BY DEF Goto, TypeOK

LEMMA FinishMoves ==
    ASSUME TypeOK, NEW p \in Process, NEW l, Finish(p, l)
    PROVE  /\ pc'[p] = l /\ job'[p].version = 0 /\ job'[p].data = NoData
           /\ \A q \in Process \ {p} : pc'[q] = pc[q] /\ job'[q] = job[q]
BY GotoMoves, NoJobIsEmpty DEF Finish, TypeOK

(* Raising the serials of some zones leaves none behind.                   *)
LEMMA RaiseIsAhead ==
    ASSUME TypeOK, NEW h \in Handler
    PROVE  LET s == zoneSerials[h[1]]
           IN  Behind(ToData(s), ToData([z \in Zone |->
                   IF z \in ZonesToRaise(h) THEN job[h].serial ELSE s[z]]))
<1> DEFINE s == zoneSerials[h[1]]
           t == [z \in Zone |-> IF z \in ZonesToRaise(h) THEN job[h].serial ELSE s[z]]
<1>1. job[h].serial \in Serial /\ s \in [Zone -> Serial \cup {None}]
  BY HandlerProcess DEF TypeOK, Job
<1>2. ASSUME NEW z \in Zone, s[z] \in Serial
      PROVE  t[z] \in Serial /\ s[z] <= t[z]
  BY <1>1, <1>2, SerialAssumption, EntryAssumption DEF ZonesToRaise, Serial
<1>3. \A z \in Zone : s[z] \in Serial => t[z] \in Serial /\ s[z] <= t[z]
  BY <1>2
<1> HIDE DEF s, t
<1>4. Behind(ToData(s), ToData(t))
  BY <1>3, ZoneKey DEF Behind, ToData
<1> QED BY <1>4 DEF s, t

(* A step that leaves the ConfigMap alone.                                 *)
LEMMA KeptWhenSame == ASSUME IInv, TypeOK', UNCHANGED configMap PROVE Kept(configMap')
BY SameGrows, KeptWhenGrows DEF IInv

LEMMA HandlerStepKeeps ==
    ASSUME IInv, TypeOK', NEW h \in Handler, HandlerStep(h)
    PROVE  Grows /\ IInv'
<1> h \in Process /\ h[1] \in Replica /\ TypeOK
  BY HandlerProcess DEF IInv
<1> USE DEF Kept, IInv
<1>1. CASE Receive(h)
  <2>1. Kept(configMap') /\ Grows
    BY <1>1, KeptWhenSame, SameGrows DEF Receive
  <2>2. Held(configMap, h)' /\ \A q \in Process \ {h} : pc'[q] = pc[q] /\ job'[q] = job[q]
    BY <1>1, GotoMoves DEF Receive, Held, TypeOK
  <2> QED BY <1>1, <2>1, <2>2, OneMoves DEF Receive, serialVars
<1>2. CASE EditRecords(h)
  <2>1. Kept(configMap') /\ Grows
    BY <1>2, KeptWhenSame, SameGrows DEF EditRecords
  <2>2. Held(configMap, h)' /\ \A q \in Process \ {h} : pc'[q] = pc[q] /\ job'[q] = job[q]
    BY <1>2, GotoMoves DEF EditRecords, Held
  <2> QED BY <1>2, <2>1, <2>2, OneMoves DEF EditRecords
<1>3. CASE RaiseSerials(h)
  <2> DEFINE up == ZonesToRaise(h)
             s  == zoneSerials[h[1]]
             t  == [z \in Zone |-> IF z \in up THEN job[h].serial ELSE s[z]]
  <2>1. Kept(configMap') /\ Grows /\ configMap' = configMap
    BY <1>3, KeptWhenSame, SameGrows DEF RaiseSerials
  <2>2. Held(configMap, h)' /\ \A q \in Process \ {h} : pc'[q] = pc[q] /\ job'[q] = job[q]
    <3>1. CASE up = {}
      BY <1>3, <3>1, FinishMoves DEF RaiseSerials, Held
    <3>2. CASE up # {}
      <4>1. Goto(h, "snapshot") /\ job' = [job EXCEPT ![h].zones = up]
        BY <1>3, <3>2 DEF RaiseSerials
      <4> HIDE DEF up
      <4> QED BY <4>1, GotoMoves DEF Held, TypeOK
    <3> QED BY <3>1, <3>2
  <2>3. \A q \in Process : Held(configMap, q)'
    BY <2>1, <2>2, OneMoves
  <2>4. zoneSerials' = [zoneSerials EXCEPT ![h[1]] = t] /\ UNCHANGED resourceVersion
    BY <1>3 DEF RaiseSerials, TypeOK
  <2>5. Behind(ToData(s), ToData(t))
    BY RaiseIsAhead
  <2>6. ToData(s) \in Data /\ ToData(t) \in Data /\ configMap.data \in Data
    <3>1. s \in [Zone -> Serial \cup {None}] /\ t \in [Zone -> Serial \cup {None}]
      BY DEF TypeOK, Job
    <3> HIDE DEF s, t
    <3> QED BY <3>1, ToDataType DEF TypeOK, Stored, Data
  <2>7. ASSUME NEW r \in Replica
        PROVE  Vouches(configMap', resourceVersion'[r], ToData(zoneSerials'[r]))
    <3> HIDE DEF t
    <3>1. CASE r = h[1]
      <4>1. zoneSerials'[r] = t /\ Vouches(configMap', resourceVersion'[r], ToData(s))
        BY <2>1, <2>4, <3>1 DEF TypeOK
      <4> HIDE DEF s
      <4> QED BY <4>1, <2>1, <2>5, <2>6, BehindTransitive DEF Vouches
    <3>2. CASE r # h[1]
      BY <2>1, <2>4, <3>2 DEF TypeOK
    <3> QED BY <3>1, <3>2
  <2> QED BY <1>3, <2>1, <2>3, <2>7 DEF RaiseSerials
<1>4. CASE SnapshotSerials(h)
  <2>1. Kept(configMap') /\ Grows /\ configMap' = configMap
    BY <1>4, KeptWhenSame, SameGrows DEF SnapshotSerials
  <2>2. /\ \A q \in Process \ {h} : pc'[q] = pc[q] /\ job'[q] = job[q]
        /\ pc'[h] = "update"
        /\ job'[h].version = resourceVersion[h[1]] /\ job'[h].data = ToData(zoneSerials[h[1]])
    BY <1>4, GotoMoves DEF SnapshotSerials, TypeOK, Job
  <2>3. Held(configMap, h)'
    BY <2>1, <2>2 DEF Held
  <2> QED BY <1>4, <2>1, <2>2, <2>3, OneMoves DEF SnapshotSerials, serialVars
<1>5. CASE UpdateSucceeds(h)
  <2>1. job[h].data \in Data /\ Behind(configMap.data, job[h].data)
    BY <1>5 DEF UpdateSucceeds, Accepts, Held, Vouches, TypeOK, Job, Data
  <2>2. Grows
    BY <1>5, <2>1, StoreGrows DEF UpdateSucceeds
  <2>3. Kept(configMap')
    BY <2>2, KeptWhenGrows
  <2>4. Held(configMap, h)' /\ \A q \in Process \ {h} : pc'[q] = pc[q] /\ job'[q] = job[q]
    BY <1>5, GotoMoves DEF UpdateSucceeds, Held
  <2> QED BY <1>5, <2>2, <2>3, <2>4, OneMoves DEF UpdateSucceeds, serialVars
<1>6. CASE UpdateConflicts(h)
  <2>1. Kept(configMap') /\ Grows
    BY <1>6, KeptWhenSame, SameGrows DEF UpdateConflicts
  <2>2. Held(configMap, h)' /\ \A q \in Process \ {h} : pc'[q] = pc[q] /\ job'[q] = job[q]
    BY <1>6, FinishMoves DEF UpdateConflicts, Held
  <2> QED BY <1>6, <2>1, <2>2, OneMoves DEF UpdateConflicts, serialVars
<1>7. CASE UpdateFails(h)
  <2>1. Kept(configMap') /\ Grows /\ configMap' = configMap
    BY <1>7, KeptWhenSame, SameGrows DEF UpdateFails
  <2>2. Held(configMap, h)' /\ \A q \in Process \ {h} : pc'[q] = pc[q] /\ job'[q] = job[q]
    BY <1>7, FinishMoves DEF UpdateFails, Held
  <2>3. Vouches(configMap', Request(h).version, Request(h).data)
    BY <1>7, <2>1 DEF UpdateFails, Request, Held
  <2> QED BY <1>7, <2>1, <2>2, <2>3, OneMoves DEF UpdateFails, serialVars
<1>8. CASE Notify(h)
  <2>1. Kept(configMap') /\ Grows
    BY <1>8, KeptWhenSame, SameGrows DEF Notify
  <2>2. Held(configMap, h)' /\ \A q \in Process \ {h} : pc'[q] = pc[q] /\ job'[q] = job[q]
    BY <1>8, FinishMoves DEF Notify, Held
  <2> QED BY <1>8, <2>1, <2>2, OneMoves DEF Notify, serialVars
<1> QED BY <1>1, <1>2, <1>3, <1>4, <1>5, <1>6, <1>7, <1>8 DEF HandlerStep

(* What a GET or a successful create leaves in the local variables.        *)
LEMMA FetchedHeld ==
    ASSUME TypeOK, NEW p \in Process, configMap'.version \in Nat, Fetched(p)
    PROVE  Held(configMap, p)' /\ \A q \in Process \ {p} : pc'[q] = pc[q] /\ job'[q] = job[q]
<1>1. job'[p].version = configMap'.version /\ job'[p].data = configMap'.data
  BY DEF Fetched, Answer, TypeOK
<1>2. \A q \in Process \ {p} : job'[q] = job[q]
  BY DEF Fetched, TypeOK
<1> QED BY <1>1, <1>2, GotoMoves DEF Fetched, Held, Loaded

LEMMA LoadStepKeeps ==
    ASSUME IInv, TypeOK', NEW p \in Process, LoadStep(p)
    PROVE  Grows /\ IInv'
<1> p[1] \in Replica /\ TypeOK
  BY HandlerProcess DEF IInv
<1> USE DEF Kept, IInv
<1>0. configMap.version \in Nat /\ configMap.data \in Data
  BY DEF TypeOK, Stored, Data
<1>1. CASE LoadGet(p)
  <2>1. UNCHANGED configMap
    BY <1>1 DEF LoadGet
  <2>2. Kept(configMap') /\ Grows
    BY <2>1, KeptWhenSame, SameGrows
  <2>3. Held(configMap, p)' /\ \A q \in Process \ {p} : pc'[q] = pc[q] /\ job'[q] = job[q]
    <3>1. CASE configMap.version # 0
      BY <1>0, <1>1, <2>1, <3>1, FetchedHeld DEF LoadGet
    <3>2. CASE configMap.version = 0
      BY <1>1, <3>2, GotoMoves DEF LoadGet, Held
    <3> QED BY <3>1, <3>2
  <2> QED BY <1>1, <2>2, <2>3, OneMoves DEF LoadGet, serialVars
<1>2. CASE LoadCreate(p)
  <2>1. CASE configMap.version # 0
    <3>1. Kept(configMap') /\ Grows
      BY <1>2, <2>1, KeptWhenSame, SameGrows DEF LoadCreate
    <3>2. Held(configMap, p)' /\ \A q \in Process \ {p} : pc'[q] = pc[q] /\ job'[q] = job[q]
      BY <1>2, <2>1, GotoMoves DEF LoadCreate, Held
    <3> QED BY <1>2, <3>1, <3>2, OneMoves DEF LoadCreate, serialVars
  <2>2. CASE configMap.version = 0
    <3>1. ServerStores(NoData) /\ Fetched(p)
      BY <1>2, <2>2 DEF LoadCreate
    <3>2. Grows /\ configMap' = [version |-> 1, data |-> NoData]
      <4>1. NoData \in Data /\ Behind(configMap.data, NoData)
        BY <2>2, NoJobType, NoDataBehind
      <4> QED BY <2>2, <3>1, <4>1, StoreGrows DEF ServerStores
    <3>3. Kept(configMap')
      BY <3>2, KeptWhenGrows
    <3>4. Held(configMap, p)' /\ \A q \in Process \ {p} : pc'[q] = pc[q] /\ job'[q] = job[q]
      BY <3>1, <3>2, FetchedHeld
    <3> QED BY <1>2, <3>2, <3>3, <3>4, OneMoves DEF LoadCreate, serialVars
  <2> QED BY <2>1, <2>2
<1>3. CASE LoadGetAgain(p)
  <2>1. UNCHANGED configMap
    BY <1>3 DEF LoadGetAgain
  <2>2. Kept(configMap') /\ Grows
    BY <2>1, KeptWhenSame, SameGrows
  <2>3. Held(configMap, p)' /\ \A q \in Process \ {p} : pc'[q] = pc[q] /\ job'[q] = job[q]
    BY <1>0, <1>3, <2>1, FetchedHeld DEF LoadGetAgain
  <2> QED BY <1>3, <2>2, <2>3, OneMoves DEF LoadGetAgain, serialVars
<1>4. CASE LoadFails(p)
  <2>1. Kept(configMap') /\ Grows /\ configMap' = configMap
    BY <1>4, KeptWhenSame, SameGrows DEF LoadFails
  <2>2. Held(configMap, p)' /\ \A q \in Process \ {p} : pc'[q] = pc[q] /\ job'[q] = job[q]
    BY <1>4, FinishMoves DEF LoadFails, Held
  <2>3. ASSUME pc[p] = "create" PROVE Vouches(configMap', Request(p).version, Request(p).data)
    BY <1>0, <2>1, <2>3, BehindItself DEF Request, Held, Vouches
  <2> QED BY <1>4, <2>1, <2>2, <2>3, OneMoves DEF LoadFails, serialVars
<1>5. CASE LoadStore(p)
  <2>1. Kept(configMap') /\ Grows /\ configMap' = configMap
    BY <1>5, KeptWhenSame, SameGrows DEF LoadStore
  <2>2. Held(configMap, p)' /\ \A q \in Process \ {p} : pc'[q] = pc[q] /\ job'[q] = job[q]
    BY <1>5, FinishMoves DEF LoadStore, Held
  <2>3. /\ job[p].data \in Data /\ job[p].version \in Nat
        /\ Loaded(configMap, job[p].version, job[p].data)
    BY <1>5 DEF LoadStore, Held, TypeOK, Job, Data
  <2>4. Vouches(configMap, job[p].version, ToData(FromData(job[p].data)))
    BY <2>3, LoadKeepsSerials DEF Loaded, Vouches
  <2>5. ASSUME NEW r \in Replica
        PROVE  Vouches(configMap', resourceVersion'[r], ToData(zoneSerials'[r]))
    <3>1. CASE r = p[1]
      BY <1>5, <2>1, <2>4, <3>1 DEF LoadStore, TypeOK
    <3>2. CASE r # p[1]
      BY <1>5, <2>1, <3>2 DEF LoadStore, TypeOK
    <3> QED BY <3>1, <3>2
  <2> QED BY <1>5, <2>1, <2>2, <2>5, OneMoves DEF LoadStore
<1> QED BY <1>1, <1>2, <1>3, <1>4, <1>5 DEF LoadStep

LEMMA ReplicaStepKeeps ==
    ASSUME IInv, TypeOK', NEW r \in Replica, ReplicaStep(r)
    PROVE  Grows /\ IInv'
<1> Starter(r) \in Process /\ TypeOK
  BY HandlerProcess DEF IInv
<1> USE DEF Kept, IInv
<1>1. CASE StartReplica(r)
  <2>1. Kept(configMap') /\ Grows /\ configMap' = configMap
    BY <1>1, KeptWhenSame, SameGrows DEF StartReplica
  <2>2. Held(configMap, Starter(r))' /\ \A q \in Process \ {Starter(r)} : pc'[q] = pc[q] /\ job'[q] = job[q]
    BY <1>1, GotoMoves DEF StartReplica, Held
  <2> QED BY <1>1, <2>1, <2>2, OneMoves DEF StartReplica, serialVars
<1>2. CASE OnStartup(r)
  <2>1. Kept(configMap') /\ Grows
    BY <1>2, KeptWhenSame, SameGrows DEF OnStartup
  <2>2. Held(configMap, Starter(r))' /\ \A q \in Process \ {Starter(r)} : pc'[q] = pc[q] /\ job'[q] = job[q]
    BY <1>2, GotoMoves DEF OnStartup, Held
  <2> QED BY <1>2, <2>1, <2>2, OneMoves DEF OnStartup, serialVars
<1>3. CASE Crash(r)
  <2>1. Kept(configMap') /\ Grows /\ UNCHANGED configMap
    BY <1>3, KeptWhenSame, SameGrows DEF Crash
  <2>2. configMap.version \in Nat /\ configMap.data \in Data
    BY DEF TypeOK, Stored, Data
  <2>3. ASSUME NEW q \in Process PROVE Held(configMap, q)'
    <3>1. CASE q[1] = r
      <4>1. pc'[q] \in {"idle", "down"} /\ job'[q] = NoJob
        BY <1>3, <3>1 DEF Crash
      <4> QED BY <4>1, NoJobIsEmpty DEF Held
    <3>2. CASE q[1] # r
      <4>1. pc'[q] = pc[q] /\ job'[q] = job[q]
        BY <1>3, <3>2 DEF Crash
      <4> QED BY <2>1, <4>1 DEF Held
    <3> QED BY <3>1, <3>2
  <2>4. ASSUME NEW s \in Replica
        PROVE  Vouches(configMap', resourceVersion'[s], ToData(zoneSerials'[s]))
    <3>1. CASE s = r
      <4>1. resourceVersion'[s] = 0 /\ zoneSerials'[s] = NoSerials
        BY <1>3, <3>1 DEF Crash, TypeOK
      <4>2. ToData(NoSerials) \in Data
        BY ToDataType DEF NoSerials
      <4>3. configMap.version = 0 => Behind(configMap.data, ToData(NoSerials))
        BY <4>2, NoDataBehind
      <4> QED BY <2>1, <2>2, <4>1, <4>3 DEF Vouches
    <3>2. CASE s # r
      BY <1>3, <2>1, <3>2 DEF Crash, TypeOK
    <3> QED BY <3>1, <3>2
  <2>5. ASSUME NEW p \in Process, pc[p] \in {"update", "create"}
        PROVE  Vouches(configMap, Request(p).version, Request(p).data)
    <3>1. Held(configMap, p)
      OBVIOUS
    <3>2. CASE pc[p] = "update"
      BY <3>1, <3>2 DEF Held, Request
    <3>3. CASE pc[p] = "create"
      BY <2>2, <3>1, <3>3, BehindItself DEF Held, Request, Vouches
    <3> QED BY <2>5, <3>2, <3>3
  <2>6. \A q \in abandoned' : Vouches(configMap', q.version, q.data)
    BY <1>3, <2>1, <2>5 DEF Crash
  <2> QED BY <2>1, <2>3, <2>4, <2>6
<1> QED BY <1>1, <1>2, <1>3 DEF ReplicaStep

LEMMA LateUpdateKeeps == ASSUME IInv, TypeOK', LateUpdate PROVE Grows /\ IInv'
<1> TypeOK
  BY DEF IInv
<1>1. PICK q \in abandoned :
          /\ abandoned' = abandoned \ {q}
          /\ IF Accepts(q.version) THEN ServerStores(q.data) ELSE UNCHANGED configMap
          /\ UNCHANGED <<serialVars, pc, job, counters>>
  BY DEF LateUpdate
<1>2. Grows
  <2>1. CASE Accepts(q.version)
    <3>1. q.data \in Data /\ Behind(configMap.data, q.data)
      BY <2>1 DEF IInv, Kept, Vouches, Accepts, TypeOK, Stored, Data
    <3> QED BY <1>1, <2>1, <3>1, StoreGrows
  <2>2. CASE ~Accepts(q.version)
    BY <1>1, <2>2, SameGrows
  <2> QED BY <2>1, <2>2
<1>3. Kept(configMap')
  BY <1>2, KeptWhenGrows
<1> QED BY <1>1, <1>2, <1>3 DEF IInv, Kept, Held, serialVars

LEMMA StepKeeps == ASSUME IInv, [Next]_vars PROVE Grows /\ IInv'
<1>1. TypeOK'
  BY StepType DEF IInv
<1>2. CASE Next
  BY <1>1, <1>2, HandlerStepKeeps, LoadStepKeeps, ReplicaStepKeeps, LateUpdateKeeps DEF Next
<1>3. CASE UNCHANGED vars
  BY <1>3, SameGrows DEF vars, serialVars, counters, IInv, TypeOK, Kept, Held, Vouches, Request
<1> QED BY <1>2, <1>3

LEMMA InitKeeps == Init => IInv
<1> SUFFICES ASSUME Init PROVE IInv
  OBVIOUS
<1>1. TypeOK
  BY InitType
<1>2. configMap.version \in Nat /\ configMap.data \in Data
  BY <1>1 DEF TypeOK, Stored, Data
<1>3. configMap.version = 0 => configMap.data = NoData
  BY DEF Init
<1>4. ASSUME NEW r \in Replica
      PROVE  Vouches(configMap, resourceVersion[r], ToData(zoneSerials[r]))
  <2>1. ToData(zoneSerials[r]) \in Data /\ resourceVersion[r] = 0
    BY <1>1, ToDataType DEF TypeOK, Init
  <2> QED BY <1>2, <1>3, <2>1, NoDataBehind DEF Vouches
<1>5. ASSUME NEW p \in Process PROVE Held(configMap, p)
  BY NoJobIsEmpty DEF Init, Held
<1> QED BY <1>1, <1>3, <1>4, <1>5 DEF IInv, Kept, Init

LEMMA InductiveInvariant == Spec => []IInv
BY InitKeeps, StepKeeps, PTL DEF Spec

(* Whoever names the current version of the ConfigMap in an update holds   *)
(* no serial older than the stored one (saveZoneSerials, loadZoneSerials). *)
THEOREM VersionsVouch == Spec => []VersionVouches
<1>1. IInv => VersionVouches
  BY HandlerProcess DEF IInv, Kept, Held, VersionVouches
<1> QED BY <1>1, InductiveInvariant, PTL

(* No serial in the ConfigMap ever decreases or is lost, however many      *)
(* replicas and watchers save it, crash, conflict or are overtaken by a    *)
(* request of their own that arrives late (saveZoneSerials).               *)
THEOREM PersistedMonotonic == Spec => PersistedNeverBack
<1>1. IInv /\ [Next]_vars => [Behind(configMap.data, configMap'.data)]_vars
  BY StepKeeps DEF Grows
<1> QED BY <1>1, InductiveInvariant, PTL DEF Spec, PersistedNeverBack

------------------------------------------------------------------------------
(* NOTIFY after the save.                                                  *)

(* A goroutine is about to send NOTIFY because it has just saved, or it    *)
(* was so before.                                                          *)
LEMMA WhoNotifies ==
    ASSUME TypeOK, TypeOK', [Next]_vars, NEW h \in Handler, pc'[h] = "notify"
    PROVE  UpdateSucceeds(h) \/ (pc[h] = "notify" /\ job'[h] = job[h])
<1>1. \A g \in Handler : g \in Process
  BY HandlerProcess
<1>2. CASE \E p \in Handler : HandlerStep(p)
  <2>1. PICK p \in Handler : HandlerStep(p)
    BY <1>2
  <2>2. p \in Process /\ h \in Process
    BY <1>1
  <2>3. CASE Receive(p)
    BY <1>1, <2>2, <2>3, GotoMoves DEF Receive, TypeOK
  <2>4. CASE EditRecords(p)
    BY <1>1, <2>2, <2>4, GotoMoves DEF EditRecords
  <2>5. CASE RaiseSerials(p)
    <3>1. \/ Finish(p, "idle")
          \/ Goto(p, "snapshot") /\ job' = [job EXCEPT ![p].zones = ZonesToRaise(p)]
      BY <2>5 DEF RaiseSerials
    <3> QED BY <1>1, <2>2, <3>1, GotoMoves, FinishMoves DEF TypeOK
  <2>6. CASE SnapshotSerials(p)
    BY <1>1, <2>2, <2>6, GotoMoves DEF SnapshotSerials, TypeOK
  <2>7. CASE UpdateSucceeds(p)
    BY <1>1, <2>2, <2>7, GotoMoves DEF UpdateSucceeds
  <2>8. CASE UpdateConflicts(p)
    BY <1>1, <2>2, <2>8, FinishMoves DEF UpdateConflicts
  <2>9. CASE UpdateFails(p)
    BY <1>1, <2>2, <2>9, FinishMoves DEF UpdateFails
  <2>10. CASE Notify(p)
    BY <1>1, <2>2, <2>10, FinishMoves DEF Notify
  <2> QED BY <2>1, <2>3, <2>4, <2>5, <2>6, <2>7, <2>8, <2>9, <2>10 DEF HandlerStep
<1>3. CASE \E p \in Process : LoadStep(p)
  <2>1. PICK p \in Process : LoadStep(p)
    BY <1>3
  <2>2. \/ \E l \in Label \ {"notify"} : Finish(p, l)
        \/ \E l \in Label \ {"notify"} : Goto(p, l) /\ UNCHANGED job
        \/ Fetched(p)
    BY <2>1 DEF LoadStep, LoadGet, LoadCreate, LoadGetAgain, LoadFails, LoadStore, Label
  <2>3. CASE Fetched(p)
    BY <1>1, <2>3, GotoMoves DEF Fetched, TypeOK
  <2> QED BY <1>1, <2>2, <2>3, GotoMoves, FinishMoves
<1>4. CASE \E r \in Replica : ReplicaStep(r)
  <2>1. PICK r \in Replica : ReplicaStep(r)
    BY <1>4
  <2>2. CASE Crash(r)
    BY <1>1, <2>2 DEF Crash
  <2>3. CASE StartReplica(r) \/ OnStartup(r)
    BY <1>1, <2>3, HandlerProcess, GotoMoves DEF StartReplica, OnStartup
  <2> QED BY <2>1, <2>2, <2>3 DEF ReplicaStep
<1>5. CASE LateUpdate
  BY <1>5 DEF LateUpdate
<1>6. CASE UNCHANGED vars
  BY <1>6 DEF vars
<1> QED BY <1>2, <1>3, <1>4, <1>5, <1>6 DEF Next

LEMMA StepSavedFirst ==
    ASSUME IInv, SavedBeforeNotify, [Next]_vars
    PROVE  SavedBeforeNotify'
<1>1. TypeOK /\ TypeOK' /\ Grows
  BY StepKeeps DEF IInv
<1>2. /\ configMap.data \in Data /\ configMap'.data \in Data
      /\ \A h \in Handler : h \in Process /\ job[h].data \in Data
  BY <1>1, HandlerProcess DEF TypeOK, Stored, Job, Data
<1>3. Behind(configMap.data, configMap'.data)
  BY <1>1 DEF Grows
<1>4. SUFFICES ASSUME NEW h \in Handler, pc'[h] = "notify"
               PROVE  Behind(job'[h].data, configMap'.data)
  BY DEF SavedBeforeNotify
<1>5. CASE UpdateSucceeds(h)
  <2>1. job' = job /\ configMap'.data = job[h].data
    BY <1>5 DEF UpdateSucceeds, ServerStores
  <2> QED BY <2>1, <1>2, BehindItself
<1>6. CASE pc[h] = "notify" /\ job'[h] = job[h]
  BY <1>2, <1>3, <1>6, BehindTransitive DEF SavedBeforeNotify
<1>7. UpdateSucceeds(h) \/ (pc[h] = "notify" /\ job'[h] = job[h])
  BY <1>1, <1>4, WhoNotifies
<1> QED BY <1>5, <1>6, <1>7

(* A zone change is announced only when the ConfigMap holds serials at     *)
(* least as large as those of the save that preceded it (saveZoneSerials). *)
THEOREM SavedFirst == Spec => []SavedBeforeNotify
<1>1. Init => SavedBeforeNotify
  BY DEF Init, SavedBeforeNotify, Process
<1> QED BY <1>1, StepSavedFirst, InductiveInvariant, PTL DEF Spec

------------------------------------------------------------------------------
(* The serials in memory.                                                  *)

(* Only three actions write zoneSerials.                                   *)
LEMMA WhoWritesSerials ==
    ASSUME [Next]_vars
    PROVE  \/ UNCHANGED zoneSerials
           \/ \E h \in Handler : RaiseSerials(h)
           \/ \E p \in Process : LoadStore(p)
           \/ \E r \in Replica : Crash(r)
BY DEF Next, HandlerStep, LoadStep, ReplicaStep, Receive, EditRecords, SnapshotSerials,
       UpdateSucceeds, UpdateConflicts, UpdateFails, Notify, LoadGet, LoadCreate,
       LoadGetAgain, LoadFails, StartReplica, OnStartup, LateUpdate, serialVars, vars

(* No event makes a serial in use go back or go away, whatever serial it   *)
(* brings and whoever raised the zone in the meantime: only a reload or    *)
(* the death of the replica does (processEndpoints, loadZoneSerials).      *)
THEOREM EventsNeverGoBack == Spec => OnlyLoadGoesBack
<1> DEFINE Step(r) == \/ Behind(ToData(zoneSerials[r]), ToData(zoneSerials'[r]))
                      \/ \E p \in Process : p[1] = r /\ LoadStore(p)
                      \/ Crash(r)
<1>1. ASSUME TypeOK, [Next]_vars, NEW r \in Replica PROVE Step(r)
  <2>1. Behind(ToData(zoneSerials[r]), ToData(zoneSerials[r]))
    BY <1>1, ToDataType, BehindItself DEF TypeOK
  <2>2. CASE zoneSerials'[r] = zoneSerials[r]
    BY <2>1, <2>2
  <2>3. ASSUME NEW h \in Handler, RaiseSerials(h) PROVE Step(r)
    <3>1. CASE r = h[1]
      BY <1>1, <2>3, <3>1, RaiseIsAhead DEF RaiseSerials, TypeOK
    <3>2. CASE r # h[1]
      BY <1>1, <2>2, <2>3, <3>2, HandlerProcess DEF RaiseSerials, TypeOK
    <3> QED BY <3>1, <3>2
  <2>4. ASSUME NEW p \in Process, LoadStore(p) PROVE Step(r)
    BY <1>1, <2>2, <2>4 DEF LoadStore, TypeOK
  <2>5. ASSUME NEW s \in Replica, Crash(s) PROVE Step(r)
    BY <1>1, <2>2, <2>5 DEF Crash, TypeOK
  <2> HIDE DEF Step
  <2> QED BY <1>1, WhoWritesSerials, <2>2, <2>3, <2>4, <2>5
<1>2. TypeOK /\ [Next]_vars => [\A r \in Replica : Step(r)]_vars
  BY <1>1
<1> QED BY <1>2, TypeCorrect, PTL DEF Spec, OnlyLoadGoesBack

LEMMA StepMirrors ==
    ASSUME TypeOK, CacheMirrorsSerials, [Next]_vars
    PROVE  CacheMirrorsSerials'
<1>1. SUFFICES ASSUME NEW r \in Replica, NEW z \in Zone, zoneSerials'[r][z] # None
               PROVE  cacheSerials'[r][z] = zoneSerials'[r][z]
  BY DEF CacheMirrorsSerials
<1>2. CASE zoneSerials'[r] = zoneSerials[r] /\ cacheSerials'[r] = cacheSerials[r]
  BY <1>1, <1>2 DEF CacheMirrorsSerials
<1>3. ASSUME NEW h \in Handler, EditRecords(h) PROVE cacheSerials'[r][z] = zoneSerials'[r][z]
  <2>1. CASE r = h[1]
    <3>1. PICK Z \in SUBSET job[h].zones, t \in Time :
            cacheSerials' = [cacheSerials EXCEPT ![h[1]] = WithZones(@, Z, t)]
      BY <1>3 DEF EditRecords
    <3>2. cacheSerials[r][z] # None /\ cacheSerials[r][z] = zoneSerials[r][z]
      BY <1>1, <1>3 DEF CacheMirrorsSerials, EditRecords
    <3>3. cacheSerials'[r][z] = cacheSerials[r][z]
      BY <2>1, <3>1, <3>2 DEF WithZones, TypeOK
    <3> QED BY <3>2, <3>3, <1>3 DEF EditRecords
  <2>2. CASE r # h[1]
    BY <1>2, <1>3, <2>2 DEF EditRecords, TypeOK
  <2> QED BY <2>1, <2>2
<1>4. ASSUME NEW h \in Handler, RaiseSerials(h) PROVE cacheSerials'[r][z] = zoneSerials'[r][z]
  <2>1. CASE r = h[1]
    BY <1>1, <1>4, <2>1 DEF RaiseSerials, TypeOK, CacheMirrorsSerials
  <2>2. CASE r # h[1]
    BY <1>2, <1>4, <2>2 DEF RaiseSerials, TypeOK
  <2> QED BY <2>1, <2>2
<1>5. ASSUME NEW p \in Process, LoadStore(p) PROVE cacheSerials'[r][z] = zoneSerials'[r][z]
  <2>1. CASE r = p[1]
    BY <1>1, <1>5, <2>1 DEF LoadStore, TypeOK
  <2>2. CASE r # p[1]
    BY <1>2, <1>5, <2>2 DEF LoadStore, TypeOK
  <2> QED BY <2>1, <2>2
<1>6. ASSUME NEW s \in Replica, Crash(s) PROVE cacheSerials'[r][z] = zoneSerials'[r][z]
  BY <1>2, <1>6 DEF Crash, TypeOK
<1>7. \/ UNCHANGED <<zoneSerials, cacheSerials>>
      \/ \E h \in Handler : EditRecords(h) \/ RaiseSerials(h)
      \/ \E p \in Process : LoadStore(p)
      \/ \E s \in Replica : Crash(s)
  BY DEF Next, HandlerStep, LoadStep, ReplicaStep, Receive, SnapshotSerials,
         UpdateSucceeds, UpdateConflicts, UpdateFails, Notify, LoadGet, LoadCreate,
         LoadGetAgain, LoadFails, StartReplica, OnStartup, LateUpdate, serialVars, vars
<1> QED BY <1>2, <1>3, <1>4, <1>5, <1>6, <1>7

(* A zone that has a serial has the same one in the cache, although the    *)
(* cache makes zones without serialsMutex (AddRecord, SetZoneSerial).      *)
THEOREM CacheMirrors == Spec => []CacheMirrorsSerials
<1>1. Init => CacheMirrorsSerials
  BY DEF Init, CacheMirrorsSerials, NoSerials
<1> QED BY <1>1, StepMirrors, TypeCorrect, PTL DEF Spec
==============================================================================
