----------------------------- MODULE EndpointSync -----------------------------
(***************************************************************************)
(* How the records in the cache follow the Kubernetes objects.             *)
(*                                                                         *)
(* Each of the three watchers handles the events of its kind of object in  *)
(* order, one at a time, and turns each into calls of the cache            *)
(* (processEndpoints in plugin.go).  A call is atomic: it works under the  *)
(* lock of one zone (module CacheLocks).  Between two calls the other      *)
(* watchers go on, and queries look at what is there.                      *)
(***************************************************************************)
EXTENDS Records

CONSTANTS
    Object,     \* Kubernetes objects
    KindOf,     \* KindOf[o]: "dnsendpoint", "service" or "ingress"
    SpecsOf,    \* SpecsOf[o]: the contents o may have
    MaxChanges  \* bound: changes made to objects

Kind == {"dnsendpoint", "service", "ingress"}

ASSUME ObjectAssumption ==
    /\ KindOf \in [Object -> Kind] /\ MaxChanges \in Nat
    /\ \A o \in Object : SpecsOf[o] \subseteq ContentOf(KindOf[o]) /\ None \notin SpecsOf[o]

VARIABLES
    spec,     \* spec[o]: what the API server has for o, None if nothing
    queue,    \* queue[k]: the events the watch of kind k has yet to deliver
    work,     \* work[k]: the object the watcher handles, and the calls left for it
    records,  \* records[key]: the record sets of the cache
    changes   \* how much of MaxChanges is spent

vars == <<spec, queue, work, records, changes>>

Key == [zone : Zone, name : Name, type : Type]
KeyOf(name, type) == [zone |-> ZoneOf[name], name |-> name, type |-> type]

------------------------------------------------------------------------------
(* The cache (internal/cache/cache.go).  An absent entry is an empty one:  *)
(* entries are removed with their last record.                             *)

AddRecordTwice(recs, key, rr) == [recs EXCEPT ![key] = Append(@, rr)]

AddRecord(recs, key, rr) ==
    IF Contains(recs[key], rr) THEN recs ELSE [recs EXCEPT ![key] = Append(@, rr)]

(* The first match makes room for the last record.  The variant truncates  *)
(* without the swap.                                                       *)
RemoveRecordUnswapped(recs, key, text) ==
    IF \A i \in DOMAIN recs[key] : ~recordMatches(recs[key][i], text) THEN recs
    ELSE [recs EXCEPT ![key] = Front(@)]

RemoveRecord(recs, key, text) ==
    LET set   == recs[key]
        match == {i \in DOMAIN set : recordMatches(set[i], text)}
        first == CHOOSE i \in match : \A j \in match : i <= j
    IN  IF match = {} THEN recs
        ELSE [recs EXCEPT ![key] = Front([set EXCEPT ![first] = Last(set)])]

RemoveAllRecords(recs, key) == [recs EXCEPT ![key] = <<>>]

(* In one zone.  The variant removes the reverse names altogether.         *)
RemoveAllPTRRecordsOfZone(recs, zone, name) ==
    [key \in Key |-> IF key.zone = zone /\ key.type = "PTR" THEN <<>> ELSE recs[key]]

RemoveAllPTRRecordsForName(recs, zone, name) ==
    [key \in Key |->
        IF key.zone = zone /\ key.type = "PTR"
          THEN Kept(recs[key], LAMBDA rr : rr.data # Host(name)) ELSE recs[key]]

------------------------------------------------------------------------------
(* processEndpoints: the calls an event stands for.                        *)

AddCall(key, rr)          == <<[call |-> "add", key |-> key, rr |-> rr]>>
RemoveCall(key, text)     == <<[call |-> "remove", key |-> key, text |-> text]>>
RemoveAllCall(key)        == <<[call |-> "removeall", key |-> key]>>
RemovePTRCall(zone, name) == <<[call |-> "removeptr", zone |-> zone, name |-> name]>>

Run(recs, c) ==
    CASE c.call = "add"       -> AddRecord(recs, c.key, c.rr)
      [] c.call = "remove"    -> RemoveRecord(recs, c.key, c.text)
      [] c.call = "removeall" -> RemoveAllRecords(recs, c.key)
      [] c.call = "removeptr" -> RemoveAllPTRRecordsForName(recs, c.zone, c.name)

HasPTR(ep, ptr) == ptr /\ ep.type \in {"A", "AAAA"}

(* The PTR record goes to the zone of the name, not of the reverse name.   *)
(* The variant files it under the name, too.                               *)
PTRKeyOfName(ep, reverse) == KeyOf(ep.name, "PTR")

PTRKey(ep, reverse) == [zone |-> ZoneOf[ep.name], name |-> reverse.name, type |-> "PTR"]

(* Targets no record can be made of are skipped.                           *)
addEndpointRecord(ep, ptr) ==
    LET OfTarget(text) ==
            LET rr == CreateRecord(ep.name, ep.type, ep.ttl, text)
                reverse == CreatePTRRecord(text, ep.name, ep.ttl)
            IN  IF rr = None THEN <<>>
                ELSE AddCall(KeyOf(ep.name, ep.type), rr) \o
                     IF ~HasPTR(ep, ptr) THEN <<>>
                     ELSE AddCall(PTRKey(ep, reverse), reverse)
    IN  IF ep.type \notin Type THEN <<>> ELSE ForEach(ep.targets, OfTarget)

(* Here the PTR record is looked for in the zone of the reverse name.      *)
removeEndpointRecord(ep, ptr) ==
    LET OfTarget(text) ==
            RemoveCall(KeyOf(ep.name, ep.type), text) \o
            IF HasPTR(ep, ptr) /\ IsAddress(text)
              THEN RemoveCall(KeyOf(ReverseOf[text.value], "PTR"), Host(ep.name)) ELSE <<>>
    IN  IF ep.type \notin Type THEN <<>> ELSE ForEach(ep.targets, OfTarget)

(* What a modification removes before it adds; zones are the zones of the  *)
(* cache in the order the map yields them.                                 *)
clearEndpoint(ep, ptr, zones) ==
    IF ep.type \notin Type THEN <<>>
    ELSE RemoveAllCall(KeyOf(ep.name, ep.type)) \o
         IF ~HasPTR(ep, ptr) THEN <<>>
         ELSE ForEach(zones, LAMBDA zone : RemovePTRCall(zone, ep.name))

(* All endpoints are cleared before the first is added again: several may  *)
(* share their name and type.  The variant goes through them once.         *)
processEndpointsOneByOne(endpoints, ptr, event, zones) ==
    ForEach(endpoints, LAMBDA ep :
        CASE event = "Deleted"  -> removeEndpointRecord(ep, ptr)
          [] event = "Modified" -> clearEndpoint(ep, ptr, zones) \o addEndpointRecord(ep, ptr)
          [] event = "Added"    -> addEndpointRecord(ep, ptr))

processEndpoints(endpoints, ptr, event, zones) ==
    LET Cleared(ep) == clearEndpoint(ep, ptr, zones)
        Added(ep)   == addEndpointRecord(ep, ptr)
        Removed(ep) == removeEndpointRecord(ep, ptr)
    IN  CASE event = "Deleted"  -> ForEach(endpoints, Removed)
          [] event = "Modified" -> ForEach(endpoints, Cleared) \o ForEach(endpoints, Added)
          [] event = "Added"    -> ForEach(endpoints, Added)

------------------------------------------------------------------------------
(* The API server.                                                         *)

Emit(o, event, content) ==
    /\ queue' = [queue EXCEPT ![KindOf[o]] =
                    Append(@, [object |-> o, event |-> event, content |-> content])]
    /\ changes < MaxChanges /\ changes' = changes + 1
    /\ UNCHANGED <<work, records>>

Create(o) ==
    /\ spec[o] = None
    /\ \E s \in SpecsOf[o] : spec' = [spec EXCEPT ![o] = s] /\ Emit(o, "Added", s)

Modify(o) ==
    /\ spec[o] # None
    /\ \E s \in SpecsOf[o] :
          spec' = [spec EXCEPT ![o] = s] /\ Emit(o, "Modified", s)

Delete(o) ==
    /\ spec[o] # None
    /\ spec' = [spec EXCEPT ![o] = None] /\ Emit(o, "Deleted", spec[o])

(* The watchers.  An object without endpoints causes no calls.             *)
Receive(k) ==
    /\ queue[k] # <<>> /\ work[k].calls = <<>>
    /\ LET e == Head(queue[k])
       IN  \E zones \in SetToSeqs(Zone) :
              work' = [work EXCEPT ![k] = [object |-> e.object,
                  calls |-> processEndpoints(EndpointsOf(k, e.content), e.content.ptr,
                                             e.event, zones)]]
    /\ queue' = [queue EXCEPT ![k] = Tail(@)]
    /\ UNCHANGED <<spec, records, changes>>

CallCache(k) ==
    /\ work[k].calls # <<>>
    /\ records' = Run(records, Head(work[k].calls))
    /\ work' = [work EXCEPT ![k].calls = Tail(@)]
    /\ UNCHANGED <<spec, queue, changes>>

------------------------------------------------------------------------------

Init ==
    /\ spec    = [o \in Object |-> None]
    /\ queue   = [k \in Kind |-> <<>>]
    /\ work    = [k \in Kind |-> [object |-> None, calls |-> <<>>]]
    /\ records = [key \in Key |-> <<>>]
    /\ changes = 0

Next ==
    \/ \E o \in Object : Create(o) \/ Modify(o) \/ Delete(o)
    \/ \E k \in Kind : Receive(k) \/ CallCache(k)

Spec == Init /\ [][Next]_vars

------------------------------------------------------------------------------
(* Properties.                                                             *)

Pairs(recs) == UNION {{<<key, rr>> : rr \in ToSet(recs[key])} : key \in Key}

(* The records an object with the content s is meant to have.              *)
Meant(o, s) ==
    {<<c.key, c.rr>> : c \in ToSet(processEndpoints(EndpointsOf(KindOf[o], s), s.ptr, "Added", <<>>))}

KeysOf(o, s) ==
    {KeyOf(ep.name, ep.type) :
        ep \in {ep \in ToSet(EndpointsOf(KindOf[o], s)) : ep.type \in Type}}

NamesOf(o) == {key.name : key \in UNION {KeysOf(o, s) : s \in SpecsOf[o]}}

OwnedBy(o, rr) ==
    \/ rr.name \in NamesOf(o)
    \/ rr.type = "PTR" /\ \E n \in NamesOf(o) : rr.data = Host(n)

(* No record an object is meant to have is another object's to remove.     *)
Apart ==
    \A o, u \in Object : o # u =>
        \A s \in SpecsOf[o] : \A x \in Meant(o, s) : ~OwnedBy(u, x[2])

(* Every event of o has been handled.                                      *)
Settled(o) ==
    LET k == KindOf[o] IN
    /\ \A i \in DOMAIN queue[k] : queue[k][i].object # o
    /\ work[k].calls # <<>> => work[k].object # o

TypeOK ==
    /\ \A o \in Object : spec[o] \in SpecsOf[o] \cup {None}
    /\ \A k \in Kind : \A i \in DOMAIN queue[k] : KindOf[queue[k][i].object] = k
    /\ \A key \in Key : \A i \in DOMAIN records[key] :
          records[key][i].name = key.name /\ records[key][i].type = key.type
    /\ changes \in 0 .. MaxChanges

(* A record set holds no record twice, so no answer and no transfer does   *)
(* (AddRecord, RemoveRecord).                                              *)
NoDuplicates == \A key \in Key : IsInjective(records[key])

(* Every record of an object whose events are handled is in the cache,     *)
(* whatever is going on for others: among them names with the same         *)
(* address, whose PTR records share an entry (processEndpoints).           *)
NothingMissing ==
    \A o \in Object : Settled(o) /\ spec[o] # None => Meant(o, spec[o]) \subseteq Pairs(records)

(* The record was made of a target by which it is found again.             *)
Recognisable(o, rr) ==
    \E s \in SpecsOf[o] : \E ep \in ToSet(EndpointsOf(KindOf[o], s)) :
        \E text \in ToSet(ep.targets) :
            CreateRecord(ep.name, ep.type, ep.ttl, text) = rr /\ recordMatches(rr, text)

(* The calls that handle the deletion of o with the content s, and what    *)
(* such a call finds.                                                      *)
Removals(o, s) ==
    ToSet(processEndpoints(EndpointsOf(KindOf[o], s), s.ptr, "Deleted", <<>>))

Finds(c, x) == c.call = "remove" /\ x[1] = c.key /\ recordMatches(x[2], c.text)

(* A record is found by the deletion of every content that means it, or by *)
(* none: targets are spelt the same throughout.  And one target finds one  *)
(* record: no content has a target twice, with different TTLs.             *)
Unmistakable(o) ==
    \A s \in SpecsOf[o] : \A x \in Meant(o, s) :
        /\ (\E t \in SpecsOf[o] : \E c \in Removals(o, t) : Finds(c, x))
              => \E c \in Removals(o, s) : Finds(c, x)
        /\ \A y \in Meant(o, s) : \A c \in Removals(o, s) : Finds(c, x) /\ Finds(c, y) => x = y

(* An object that keeps its names and types leaves no record behind when   *)
(* it is modified or deleted, but for those recordMatches cannot know: MX, *)
(* SRV and SOA records, and addresses spelt unlike they print              *)
(* (removeEndpointRecord).  PTR records are another matter.                *)
Steady(o) == \A s, t \in SpecsOf[o] : KeysOf(o, s) = KeysOf(o, t)

OnlyKnownLeftovers ==
    \A o \in Object : Settled(o) /\ Steady(o) =>
        \A x \in Pairs(records) :
            /\ x[1] \in UNION {KeysOf(o, s) : s \in SpecsOf[o]}
            /\ spec[o] = None \/ x \notin Meant(o, spec[o])
            => ~Recognisable(o, x[2])

(* A record vanishes only while an event of the object that owns its name  *)
(* (or, for a PTR record, the name it points to) is handled: no watcher    *)
(* removes what another has added (RemoveAllPTRRecordsForName and the      *)
(* rest of the cache).                                                     *)
OnlyOwnerRemoves ==
    [][\A x \in Pairs(records) \ Pairs(records') :
          \E k \in Kind : work[k].calls # <<>> /\ OwnedBy(work[k].object, x[2])]_vars

(* README.md:211 and plugin.go:723: the supported types are managed, and   *)
(* removeEndpointRecord "removes a single endpoint record from the cache"; *)
(* plugin.go:736: "Remove PTR record if it was created".                   *)
DeletedLeavesNothing ==
    \A o \in Object : Settled(o) /\ spec[o] = None =>
        /\ \A s \in SpecsOf[o] : \A key \in KeysOf(o, s) : records[key] = <<>>
        /\ \A x \in Pairs(records) :
              x[1].type = "PTR" => \A n \in NamesOf(o) : x[2].data # Host(n)
==============================================================================
