------------------------- MODULE EndpointSync_proofs -------------------------
(***************************************************************************)
(* What holds of the records of any objects, whatever the calls of the     *)
(* watchers interleave to.                                                 *)
(***************************************************************************)
EXTENDS EndpointSync, SequenceLemmas

AddCalls ==
    {c \in [call : {"add"}, key : Key, rr : Record] :
        c.rr.name = c.key.name /\ c.rr.type = c.key.type}

(* The calls that remove what is owned by o.                               *)
RemoveCalls(o) ==
    {c \in [call : {"remove"}, key : Key, text : Datum] :
        \/ c.key.name \in NamesOf(o)
        \/ c.key.type = "PTR" /\ \E n \in NamesOf(o) : c.text = Host(n)}
    \cup [call : {"removeall"}, key : {key \in Key : key.name \in NamesOf(o)}]
    \cup [call : {"removeptr"}, zone : Zone, name : NamesOf(o)]

CallsOf(o) == AddCalls \cup RemoveCalls(o)

------------------------------------------------------------------------------
(* The endpoints of an object.                                             *)

LEMMA ServiceEndpoints ==
    ASSUME NEW svc \in ContentOf("service")
    PROVE  getEndpointsFromService(svc) \in Seq(Endpoints)
<1> DEFINE EndpointOf(host, point) ==
               Endpoint(host, IF IsAddress(point) THEN "A" ELSE "CNAME", <<point>>, svc.ttl)
           OfHost(host) == [i \in DOMAIN svc.points |-> EndpointOf(host, svc.points[i])]
           f == [h \in DOMAIN svc.hosts |-> OfHost(svc.hosts[h])]
<1>1. svc.hosts \in Seq(Name) /\ svc.points \in Seq(Target) /\ svc.ttl \in Int
    BY DEF ContentOf
<1>2. ASSUME NEW host \in Name, NEW point \in Target
      PROVE  EndpointOf(host, point) \in Endpoints
  <2>1. <<point>> \in Seq(Target)
    OBVIOUS
  <2> QED BY <1>1, <2>1 DEF Endpoints, Endpoint, Type
<1> HIDE DEF EndpointOf
<1>3. ASSUME NEW host \in Name
      PROVE  OfHost(host) \in Seq(Endpoints)
    BY <1>1, <1>2
<1> HIDE DEF OfHost
<1>4. f \in [DOMAIN svc.hosts -> Seq(Endpoints)]
    BY <1>1, <1>3
<1> HIDE DEF f
<1>5. FlattenSeq(f) \in Seq(Endpoints)
    BY <1>1, <1>4, FlattenFunctionType
<1>6. <<>> \in Seq(Endpoints)
    OBVIOUS
<1> QED BY <1>5, <1>6 DEF getEndpointsFromService, ForEach, f, OfHost, EndpointOf

LEMMA IngressEndpoints ==
    ASSUME NEW ing \in ContentOf("ingress")
    PROVE  getEndpointsFromIngress(ing) \in Seq(Endpoints)
<1> DEFINE asked == ing.hosts \o (IF ing.fromRules THEN ing.ruleHosts ELSE <<>>)
           First(i) == asked[i] \notin {asked[j] : j \in 1 .. i - 1}
           addresses == Kept(ing.points, IsAddress)
           names     == Kept(ing.points, LAMBDA point : ~IsAddress(point))
           OfType(host, type, targets) ==
               IF targets = <<>> THEN <<>> ELSE <<Endpoint(host, type, targets, ing.ttl)>>
           OfHost(host) == OfType(host, "A", addresses) \o OfType(host, "CNAME", names)
           f == [i \in DOMAIN asked |-> IF First(i) THEN OfHost(asked[i]) ELSE <<>>]
<1>1. /\ ing.hosts \in Seq(Name) /\ ing.ruleHosts \in Seq(Name) /\ ing.points \in Seq(Target)
      /\ ing.ttl \in Int
    BY DEF ContentOf
<1>2. asked \in Seq(Name)
    BY <1>1
<1>3. addresses \in Seq(Target) /\ names \in Seq(Target)
  <2>1. \A x \in Target : <<x>> \in Seq(Target)
    OBVIOUS
  <2>2. <<>> \in Seq(Target) /\ \A i \in DOMAIN ing.points : ing.points[i] \in Target
    BY <1>1
  <2>3. [i \in DOMAIN ing.points |-> IF IsAddress(ing.points[i]) THEN <<ing.points[i]>> ELSE <<>>]
            \in [DOMAIN ing.points -> Seq(Target)]
    BY <2>1, <2>2
  <2>4. [i \in DOMAIN ing.points |-> IF ~IsAddress(ing.points[i]) THEN <<ing.points[i]>> ELSE <<>>]
            \in [DOMAIN ing.points -> Seq(Target)]
    BY <2>1, <2>2
  <2>5. FlattenSeq([i \in DOMAIN ing.points |->
                IF IsAddress(ing.points[i]) THEN <<ing.points[i]>> ELSE <<>>]) \in Seq(Target)
    BY <1>1, <2>3, FlattenFunctionType
  <2>6. FlattenSeq([i \in DOMAIN ing.points |->
                IF ~IsAddress(ing.points[i]) THEN <<ing.points[i]>> ELSE <<>>]) \in Seq(Target)
    BY <1>1, <2>4, FlattenFunctionType
  <2> QED BY <2>5, <2>6 DEF Kept, ForEach
<1> HIDE DEF asked, addresses, names
<1>4. ASSUME NEW host \in Name
      PROVE  OfHost(host) \in Seq(Endpoints)
  <2>1. /\ Endpoint(host, "A", addresses, ing.ttl) \in Endpoints
        /\ Endpoint(host, "CNAME", names, ing.ttl) \in Endpoints
    BY <1>1, <1>3 DEF Endpoints, Endpoint, Type
  <2>2. OfType(host, "A", addresses) \in Seq(Endpoints) /\ OfType(host, "CNAME", names) \in Seq(Endpoints)
    BY <2>1
  <2> HIDE DEF OfType
  <2> QED BY <2>2
<1> HIDE DEF OfHost, First
<1>5. f \in [DOMAIN asked -> Seq(Endpoints)]
  <2>1. <<>> \in Seq(Endpoints)
    OBVIOUS
  <2> QED BY <1>2, <1>4, <2>1
<1> HIDE DEF f
<1>6. FlattenSeq(f) \in Seq(Endpoints)
    BY <1>2, <1>5, FlattenFunctionType
<1> QED BY <1>6 DEF getEndpointsFromIngress, f, OfHost, First, asked, addresses, names

LEMMA EndpointsType ==
    ASSUME NEW k \in Kind, NEW s \in ContentOf(k)
    PROVE  EndpointsOf(k, s) \in Seq(Endpoints)
<1>1. CASE k = "dnsendpoint"
    BY <1>1 DEF EndpointsOf, ContentOf
<1>2. CASE k = "service"
    BY <1>2, ServiceEndpoints DEF EndpointsOf
<1>3. CASE k = "ingress"
    BY <1>3, IngressEndpoints DEF EndpointsOf
<1> QED BY <1>1, <1>2, <1>3 DEF Kind

LEMMA OwnName ==
    ASSUME NEW o \in Object, NEW s \in SpecsOf[o],
           NEW ep \in ToSet(EndpointsOf(KindOf[o], s)), ep.type \in Type
    PROVE  ep.name \in NamesOf(o)
<1>1. KeyOf(ep.name, ep.type) \in KeysOf(o, s)
    BY DEF KeysOf
<1>2. KeyOf(ep.name, ep.type).name = ep.name
    BY DEF KeyOf
<1> QED BY <1>1, <1>2 DEF NamesOf

------------------------------------------------------------------------------
(* The records that are made, and the calls.                               *)

LEMMA ParsedType ==
    ASSUME NEW text \in Target
    PROVE  Parsed(text) \in Target /\ Dotted(text) \in Target
    BY DEF Parsed, Dotted, Target, IsAddress

LEMMA DataType ==
    ASSUME NEW name \in Name, NEW type \in Type, NEW text \in Target
    PROVE  DataOf(name, type, text) \in Datum \cup {None}
<1>1. text \in Datum /\ Parsed(text) \in Datum /\ Dotted(text) \in Datum /\ Text("soa", name) \in Datum
    BY ParsedType DEF Datum
<1> QED BY <1>1 DEF DataOf, Type

LEMMA RecordMade ==
    ASSUME NEW name \in Name, NEW type \in Type, NEW ttl \in Int, NEW text \in Target,
           CreateRecord(name, type, ttl, text) # None
    PROVE  /\ CreateRecord(name, type, ttl, text) \in Record
           /\ CreateRecord(name, type, ttl, text).name = name
           /\ CreateRecord(name, type, ttl, text).type = type
           /\ type \in {"A", "AAAA"} => IsAddress(text)
<1>1. PICK data : data = DataOf(name, type, text)
    OBVIOUS
<1>2. data # None
    BY <1>1 DEF CreateRecord
<1>3. data \in Datum
    BY <1>1, <1>2, DataType
<1>4. CreateRecord(name, type, ttl, text) = [name |-> name, type |-> type, ttl |-> ttl, data |-> data]
    BY <1>1, <1>2 DEF CreateRecord
<1>5. type \in {"A", "AAAA"} => IsAddress(text)
    BY <1>1, <1>2 DEF DataOf, IsAddress
<1> QED BY <1>3, <1>4, <1>5 DEF Record

LEMMA PTRMade ==
    ASSUME NEW text \in Target, IsAddress(text), NEW target \in Name, NEW ttl \in Int
    PROVE  /\ CreatePTRRecord(text, target, ttl) \in Record
           /\ CreatePTRRecord(text, target, ttl).name = ReverseOf[text.value]
           /\ CreatePTRRecord(text, target, ttl).type = "PTR"
           /\ CreatePTRRecord(text, target, ttl).data = Host(target)
<1>1. ReverseOf[text.value] \in Name /\ Host(target) # None
    BY NameAssumption DEF Target, Datum
<1>2. Dotted(Host(target)) = Host(target)
    BY DEF Dotted, Host, Text, Parsed
<1>3. DataOf(ReverseOf[text.value], "PTR", Host(target)) = Host(target)
    BY <1>2 DEF DataOf
<1>4. CreatePTRRecord(text, target, ttl) =
        [name |-> ReverseOf[text.value], type |-> "PTR", ttl |-> ttl, data |-> Host(target)]
    BY <1>1, <1>3 DEF CreatePTRRecord, CreateRecord
<1>5. Host(target) \in Datum
    BY DEF Datum
<1> QED BY <1>1, <1>4, <1>5 DEF Record, Type

LEMMA KeyType ==
    ASSUME NEW name \in Name, NEW type \in Type
    PROVE  /\ KeyOf(name, type) \in Key
           /\ KeyOf(name, type).name = name /\ KeyOf(name, type).type = type
    BY NameAssumption DEF KeyOf, Key

LEMMA AddedCalls ==
    ASSUME NEW ep \in Endpoints, NEW ptr
    PROVE  addEndpointRecord(ep, ptr) \in Seq(AddCalls)
<1> DEFINE OfTarget(text) ==
               LET rr == CreateRecord(ep.name, ep.type, ep.ttl, text)
                   reverse == CreatePTRRecord(text, ep.name, ep.ttl)
               IN  IF rr = None THEN <<>>
                   ELSE AddCall(KeyOf(ep.name, ep.type), rr) \o
                        IF ~HasPTR(ep, ptr) THEN <<>>
                        ELSE AddCall(PTRKey(ep, reverse), reverse)
           f == [i \in DOMAIN ep.targets |-> OfTarget(ep.targets[i])]
<1>1. <<>> \in Seq(AddCalls) /\ \A c \in AddCalls : <<c>> \in Seq(AddCalls)
    OBVIOUS
<1>2. CASE ep.type \notin Type
    BY <1>1, <1>2 DEF addEndpointRecord
<1>3. CASE ep.type \in Type
  <2>1. ep.name \in Name /\ ep.ttl \in Int /\ ep.targets \in Seq(Target)
    BY DEF Endpoints
  <2>2. ASSUME NEW text \in Target
        PROVE  OfTarget(text) \in Seq(AddCalls)
    <3>1. PICK rr, reverse, key, back :
              /\ rr = CreateRecord(ep.name, ep.type, ep.ttl, text)
              /\ reverse = CreatePTRRecord(text, ep.name, ep.ttl)
              /\ key = KeyOf(ep.name, ep.type) /\ back = PTRKey(ep, reverse)
      OBVIOUS
    <3>2. CASE rr = None
      BY <1>1, <3>1, <3>2
    <3>3. CASE rr # None
      <4>1. rr \in Record /\ rr.name = ep.name /\ rr.type = ep.type
        BY <1>3, <2>1, <3>1, <3>3, RecordMade
      <4>2. key \in Key /\ key.name = ep.name /\ key.type = ep.type
        BY <1>3, <2>1, <3>1, KeyType
      <4>3. AddCall(key, rr) \in Seq(AddCalls)
        <5>1. [call |-> "add", key |-> key, rr |-> rr] \in AddCalls
          BY <4>1, <4>2 DEF AddCalls
        <5> QED BY <1>1, <5>1 DEF AddCall
      <4>4. CASE HasPTR(ep, ptr)
        <5>1. IsAddress(text)
          BY <1>3, <2>1, <3>1, <3>3, <4>4, RecordMade DEF HasPTR
        <5>2. reverse \in Record /\ reverse.type = "PTR"
          BY <2>1, <3>1, <5>1, PTRMade
        <5>3. back \in Key /\ back.name = reverse.name /\ back.type = "PTR"
          BY <2>1, <3>1, <5>2, NameAssumption DEF PTRKey, Key, Record, Type
        <5>4. [call |-> "add", key |-> back, rr |-> reverse] \in AddCalls
          BY <5>2, <5>3 DEF AddCalls
        <5>5. AddCall(back, reverse) \in Seq(AddCalls)
          BY <1>1, <5>4 DEF AddCall
        <5>6. OfTarget(text) = AddCall(key, rr) \o AddCall(back, reverse)
          BY <3>1, <3>3, <4>4
        <5> HIDE DEF OfTarget
        <5> QED BY <4>3, <5>5, <5>6
      <4>5. CASE ~HasPTR(ep, ptr)
        <5>1. OfTarget(text) = AddCall(key, rr) \o <<>>
          BY <3>1, <3>3, <4>5
        <5> HIDE DEF OfTarget
        <5> QED BY <1>1, <4>3, <5>1
      <4> QED BY <4>4, <4>5
    <3> QED BY <3>2, <3>3
  <2> HIDE DEF OfTarget
  <2>3. f \in [DOMAIN ep.targets -> Seq(AddCalls)]
    BY <2>1, <2>2
  <2> HIDE DEF f
  <2>4. FlattenSeq(f) \in Seq(AddCalls)
    BY <2>1, <2>3, FlattenFunctionType
  <2> QED BY <1>3, <2>4 DEF addEndpointRecord, ForEach, f, OfTarget
<1> QED BY <1>2, <1>3

LEMMA RemovedCalls ==
    ASSUME NEW o \in Object, NEW ep \in Endpoints, NEW ptr,
           ep.type \in Type => ep.name \in NamesOf(o)
    PROVE  removeEndpointRecord(ep, ptr) \in Seq(RemoveCalls(o))
<1> DEFINE OfTarget(text) ==
               RemoveCall(KeyOf(ep.name, ep.type), text) \o
               IF HasPTR(ep, ptr) /\ IsAddress(text)
                 THEN RemoveCall(KeyOf(ReverseOf[text.value], "PTR"), Host(ep.name)) ELSE <<>>
           f == [i \in DOMAIN ep.targets |-> OfTarget(ep.targets[i])]
<1>1. <<>> \in Seq(RemoveCalls(o)) /\ \A c \in RemoveCalls(o) : <<c>> \in Seq(RemoveCalls(o))
    OBVIOUS
<1>2. CASE ep.type \notin Type
    BY <1>1, <1>2 DEF removeEndpointRecord
<1>3. CASE ep.type \in Type
  <2>1. ep.name \in Name /\ ep.targets \in Seq(Target) /\ ep.name \in NamesOf(o)
    BY <1>3 DEF Endpoints
  <2>2. ASSUME NEW text \in Target
        PROVE  OfTarget(text) \in Seq(RemoveCalls(o))
    <3>1. PICK key : key = KeyOf(ep.name, ep.type)
      OBVIOUS
    <3>2. key \in Key /\ key.name = ep.name
      BY <1>3, <2>1, <3>1, KeyType
    <3>3. RemoveCall(key, text) \in Seq(RemoveCalls(o))
      <4>1. [call |-> "remove", key |-> key, text |-> text] \in RemoveCalls(o)
        BY <2>1, <3>2 DEF RemoveCalls, Datum
      <4> QED BY <1>1, <4>1 DEF RemoveCall
    <3>4. CASE HasPTR(ep, ptr) /\ IsAddress(text)
      <4>1. PICK back, host : back = KeyOf(ReverseOf[text.value], "PTR") /\ host = Host(ep.name)
        OBVIOUS
      <4>2. ReverseOf[text.value] \in Name /\ "PTR" \in Type
        BY <3>4, NameAssumption DEF Target, Type
      <4>3. back \in Key /\ back.type = "PTR" /\ host \in Datum
        BY <2>1, <4>1, <4>2, KeyType DEF Datum
      <4>4. [call |-> "remove", key |-> back, text |-> host] \in RemoveCalls(o)
        BY <2>1, <4>1, <4>3 DEF RemoveCalls
      <4>5. RemoveCall(back, host) \in Seq(RemoveCalls(o))
        BY <1>1, <4>4 DEF RemoveCall
      <4>6. OfTarget(text) = RemoveCall(key, text) \o RemoveCall(back, host)
        BY <3>1, <3>4, <4>1
      <4> HIDE DEF OfTarget
      <4> QED BY <3>3, <4>5, <4>6
    <3>5. CASE ~ (HasPTR(ep, ptr) /\ IsAddress(text))
      <4>1. OfTarget(text) = RemoveCall(key, text) \o <<>>
        BY <3>1, <3>5
      <4> HIDE DEF OfTarget
      <4> QED BY <1>1, <3>3, <4>1
    <3> QED BY <3>4, <3>5
  <2> HIDE DEF OfTarget
  <2>3. f \in [DOMAIN ep.targets -> Seq(RemoveCalls(o))]
    BY <2>1, <2>2
  <2> HIDE DEF f
  <2>4. FlattenSeq(f) \in Seq(RemoveCalls(o))
    BY <2>1, <2>3, FlattenFunctionType
  <2> QED BY <1>3, <2>4 DEF removeEndpointRecord, ForEach, f, OfTarget
<1> QED BY <1>2, <1>3

LEMMA ClearedCalls ==
    ASSUME NEW o \in Object, NEW ep \in Endpoints, NEW ptr, NEW zones \in Seq(Zone),
           ep.type \in Type => ep.name \in NamesOf(o)
    PROVE  clearEndpoint(ep, ptr, zones) \in Seq(RemoveCalls(o))
<1> DEFINE f == [i \in DOMAIN zones |-> RemovePTRCall(zones[i], ep.name)]
<1>1. <<>> \in Seq(RemoveCalls(o)) /\ \A c \in RemoveCalls(o) : <<c>> \in Seq(RemoveCalls(o))
    OBVIOUS
<1>2. CASE ep.type \notin Type
    BY <1>1, <1>2 DEF clearEndpoint
<1>3. CASE ep.type \in Type
  <2>1. ep.name \in Name /\ ep.name \in NamesOf(o)
    BY <1>3 DEF Endpoints
  <2>2. PICK key : key = KeyOf(ep.name, ep.type)
    OBVIOUS
  <2>3. key \in Key /\ key.name = ep.name
    BY <1>3, <2>1, <2>2, KeyType
  <2>4. [call |-> "removeall", key |-> key] \in RemoveCalls(o)
    BY <2>1, <2>3 DEF RemoveCalls
  <2>5. RemoveAllCall(key) \in Seq(RemoveCalls(o))
    BY <1>1, <2>4 DEF RemoveAllCall
  <2>6. ASSUME NEW zone \in Zone
        PROVE  RemovePTRCall(zone, ep.name) \in Seq(RemoveCalls(o))
    <3>1. [call |-> "removeptr", zone |-> zone, name |-> ep.name] \in RemoveCalls(o)
      BY <2>1 DEF RemoveCalls
    <3> QED BY <1>1, <3>1 DEF RemovePTRCall
  <2>7. f \in [DOMAIN zones -> Seq(RemoveCalls(o))]
    BY <2>6
  <2> HIDE DEF f
  <2>8. FlattenSeq(f) \in Seq(RemoveCalls(o))
    BY <2>7, FlattenFunctionType
  <2>9. clearEndpoint(ep, ptr, zones) =
            RemoveAllCall(key) \o (IF ~HasPTR(ep, ptr) THEN <<>> ELSE FlattenSeq(f))
    BY <1>3, <2>2 DEF clearEndpoint, ForEach, f
  <2> QED BY <1>1, <2>5, <2>8, <2>9
<1> QED BY <1>2, <1>3

(* The calls of the events of one object.                                  *)
Additions(o, s) == processEndpoints(EndpointsOf(KindOf[o], s), s.ptr, "Added", <<>>)

LEMMA EventCalls ==
    ASSUME NEW o \in Object, NEW s \in SpecsOf[o], NEW zones \in Seq(Zone)
    PROVE  /\ Additions(o, s) \in Seq(AddCalls)
           /\ processEndpoints(EndpointsOf(KindOf[o], s), s.ptr, "Added", zones) = Additions(o, s)
           /\ processEndpoints(EndpointsOf(KindOf[o], s), s.ptr, "Deleted", zones)
                 \in Seq(RemoveCalls(o))
           /\ \E clear \in Seq(RemoveCalls(o)) :
                 processEndpoints(EndpointsOf(KindOf[o], s), s.ptr, "Modified", zones)
                     = clear \o Additions(o, s)
<1>1. PICK eps, ptr : eps = EndpointsOf(KindOf[o], s) /\ ptr = s.ptr
    OBVIOUS
<1> DEFINE added   == [i \in DOMAIN eps |-> addEndpointRecord(eps[i], ptr)]
           removed == [i \in DOMAIN eps |-> removeEndpointRecord(eps[i], ptr)]
           cleared == [i \in DOMAIN eps |-> clearEndpoint(eps[i], ptr, zones)]
<1>2. eps \in Seq(Endpoints)
    BY <1>1, EndpointsType, ObjectAssumption
<1>3. ASSUME NEW i \in DOMAIN eps
      PROVE  eps[i] \in Endpoints /\ (eps[i].type \in Type => eps[i].name \in NamesOf(o))
  <2>1. eps[i] \in ToSet(eps)
    BY DEF ToSet
  <2> QED BY <1>1, <1>2, <2>1, OwnName
<1>4. added \in [DOMAIN eps -> Seq(AddCalls)]
    BY <1>3, AddedCalls
<1>5. removed \in [DOMAIN eps -> Seq(RemoveCalls(o))]
    BY <1>3, RemovedCalls
<1>6. cleared \in [DOMAIN eps -> Seq(RemoveCalls(o))]
    BY <1>3, ClearedCalls
<1>7. /\ Additions(o, s) = FlattenSeq(added)
      /\ processEndpoints(eps, ptr, "Added", zones) = FlattenSeq(added)
      /\ processEndpoints(eps, ptr, "Deleted", zones) = FlattenSeq(removed)
      /\ processEndpoints(eps, ptr, "Modified", zones) = FlattenSeq(cleared) \o FlattenSeq(added)
    BY <1>1 DEF Additions, processEndpoints, ForEach
<1> HIDE DEF added, removed, cleared
<1>8. FlattenSeq(added) \in Seq(AddCalls)
    BY <1>2, <1>4, FlattenFunctionType
<1>9. FlattenSeq(removed) \in Seq(RemoveCalls(o)) /\ FlattenSeq(cleared) \in Seq(RemoveCalls(o))
    BY <1>2, <1>5, <1>6, FlattenFunctionType
<1> QED BY <1>1, <1>7, <1>8, <1>9

------------------------------------------------------------------------------
(* What a call does to the records.                                        *)

Orderly(recs) ==
    /\ recs \in [Key -> Seq(Record)]
    /\ \A key \in Key :
          /\ IsInjective(recs[key])
          /\ \A rr \in ToSet(recs[key]) : rr.name = key.name /\ rr.type = key.type

LEMMA InPairs ==
    ASSUME NEW recs, NEW x
    PROVE  x \in Pairs(recs) <=> \E key \in Key : \E rr \in ToSet(recs[key]) : x = <<key, rr>>
    BY DEF Pairs

LEMMA SameElements ==
    ASSUME NEW S, NEW s \in Seq(S), NEW rr
    PROVE  Contains(s, rr) <=> rr \in ToSet(s)
    BY DEF Contains, ToSet

LEMMA AddRuns ==
    ASSUME NEW recs, Orderly(recs), NEW c \in AddCalls
    PROVE  /\ Orderly(Run(recs, c))
           /\ Pairs(Run(recs, c)) = Pairs(recs) \cup {<<c.key, c.rr>>}
<1>1. PICK key \in Key, rr \in Record :
          c.key = key /\ c.rr = rr /\ c.call = "add" /\ rr.name = key.name /\ rr.type = key.type
    BY DEF AddCalls
<1>2. PICK new : new = Run(recs, c)
    OBVIOUS
<1>3. new = AddRecord(recs, key, rr)
    BY <1>1, <1>2 DEF Run
<1>4. recs \in [Key -> Seq(Record)] /\ recs[key] \in Seq(Record) /\ IsInjective(recs[key])
    BY DEF Orderly
<1>5. CASE Contains(recs[key], rr)
  <2>1. rr \in ToSet(recs[key])
    BY <1>4, <1>5, SameElements
  <2>2. new = recs
    BY <1>3, <1>5 DEF AddRecord
  <2>3. <<key, rr>> \in Pairs(recs)
    BY <2>1, InPairs
  <2> QED BY <1>1, <1>2, <2>2, <2>3
<1>6. CASE ~Contains(recs[key], rr)
  <2>1. rr \notin ToSet(recs[key])
    BY <1>4, <1>6, SameElements
  <2>2. PICK s \in Seq(Record) : s = recs[key]
    BY <1>4
  <2>3. /\ Append(s, rr) \in Seq(Record) /\ IsInjective(Append(s, rr))
        /\ ToSet(Append(s, rr)) = ToSet(s) \cup {rr}
    <3>1. IsInjective(s) /\ rr \notin ToSet(s)
      BY <1>4, <2>1, <2>2
    <3> QED BY <3>1, AppendKeepsInjective
  <2>4. new = [recs EXCEPT ![key] = Append(s, rr)]
    BY <1>3, <1>6, <2>2 DEF AddRecord
  <2>5. PICK t : t = Append(s, rr)
    OBVIOUS
  <2>6. new \in [Key -> Seq(Record)] /\ new[key] = t /\ \A k \in Key : k # key => new[k] = recs[k]
    BY <1>4, <2>3, <2>4, <2>5
  <2>7. Orderly(new)
    <3>1. ASSUME NEW k \in Key
          PROVE  /\ IsInjective(new[k])
                 /\ \A r \in ToSet(new[k]) : r.name = k.name /\ r.type = k.type
      <4>1. CASE k = key
        <5>1. \A r \in ToSet(t) : r = rr \/ r \in ToSet(recs[key])
          BY <2>2, <2>3, <2>5
        <5>2. \A r \in ToSet(t) : r.name = key.name /\ r.type = key.type
          BY <1>1, <5>1 DEF Orderly
        <5> QED BY <2>3, <2>5, <2>6, <4>1, <5>2, Zenon
      <4>2. CASE k # key
        BY <2>6, <4>2, Zenon DEF Orderly
      <4> QED BY <4>1, <4>2
    <3> QED BY <2>6, <3>1 DEF Orderly
  <2>8. ASSUME NEW x
        PROVE  x \in Pairs(new) <=> x \in Pairs(recs) \/ x = <<key, rr>>
    <3>1. \A k \in Key : \A r : r \in ToSet(new[k]) <=> r \in ToSet(recs[k]) \/ (k = key /\ r = rr)
      <4>1. TAKE k \in Key
      <4>2. CASE k = key
        BY <2>2, <2>3, <2>5, <2>6, <4>2
      <4>3. CASE k # key
        BY <2>6, <4>3
      <4> QED BY <4>2, <4>3
    <3>2. x \in Pairs(new) <=> \E k \in Key : \E r \in ToSet(new[k]) : x = <<k, r>>
      BY InPairs
    <3>3. x \in Pairs(recs) <=> \E k \in Key : \E r \in ToSet(recs[k]) : x = <<k, r>>
      BY InPairs
    <3> QED BY <3>1, <3>2, <3>3
  <2>9. Pairs(new) = Pairs(recs) \cup {<<key, rr>>}
    BY <2>8
  <2> QED BY <1>1, <1>2, <2>7, <2>9
<1> QED BY <1>5, <1>6

(* In new nothing is added, and only what is o's is gone.                  *)
Shrinks(recs, new, o) ==
    /\ new \in [Key -> Seq(Record)]
    /\ \A key \in Key :
          /\ IsInjective(new[key]) /\ ToSet(new[key]) \subseteq ToSet(recs[key])
          /\ \A rr \in ToSet(recs[key]) \ ToSet(new[key]) : OwnedBy(o, rr)

LEMMA ShrunkRecords ==
    ASSUME NEW recs, Orderly(recs), NEW new, NEW o, Shrinks(recs, new, o)
    PROVE  /\ Orderly(new) /\ Pairs(new) \subseteq Pairs(recs)
           /\ \A x \in Pairs(recs) \ Pairs(new) : OwnedBy(o, x[2])
<1>1. Orderly(new)
    BY DEF Orderly, Shrinks
<1>2. Pairs(new) \subseteq Pairs(recs)
    BY InPairs DEF Shrinks
<1>3. ASSUME NEW x \in Pairs(recs), x \notin Pairs(new)
      PROVE  OwnedBy(o, x[2])
  <2>1. PICK key \in Key : \E rr \in ToSet(recs[key]) : x = <<key, rr>>
    BY <1>3, InPairs
  <2>2. PICK rr \in ToSet(recs[key]) : x = <<key, rr>>
    BY <2>1
  <2>3. rr \notin ToSet(new[key])
    BY <1>3, <2>2, InPairs
  <2>4. x[2] = rr
    BY <2>2
  <2> QED BY <2>3, <2>4 DEF Shrinks
<1> QED BY <1>1, <1>2, <1>3

LEMMA SetShrinks ==
    ASSUME NEW recs, Orderly(recs), NEW o, NEW key \in Key, NEW t \in Seq(Record),
           IsInjective(t), ToSet(t) \subseteq ToSet(recs[key]),
           \A rr \in ToSet(recs[key]) \ ToSet(t) : OwnedBy(o, rr)
    PROVE  Shrinks(recs, [recs EXCEPT ![key] = t], o)
<1>1. PICK new : new = [recs EXCEPT ![key] = t]
    OBVIOUS
<1>2. new \in [Key -> Seq(Record)] /\ new[key] = t /\ \A k \in Key : k # key => new[k] = recs[k]
    BY <1>1 DEF Orderly
<1>3. ASSUME NEW k \in Key
      PROVE  /\ IsInjective(new[k]) /\ ToSet(new[k]) \subseteq ToSet(recs[k])
             /\ \A rr \in ToSet(recs[k]) \ ToSet(new[k]) : OwnedBy(o, rr)
  <2>1. CASE k = key
    BY <1>2, <2>1, Zenon
  <2>2. CASE k # key
    <3>1. new[k] = recs[k] /\ IsInjective(recs[k])
      BY <1>2, <2>2 DEF Orderly
    <3> QED BY <3>1, Zenon
  <2> QED BY <2>1, <2>2
<1>4. Shrinks(recs, new, o)
    BY <1>2, <1>3 DEF Shrinks
<1> QED BY <1>1, <1>4

LEMMA NothingShrinks ==
    ASSUME NEW recs, Orderly(recs), NEW o
    PROVE  Shrinks(recs, recs, o)
    BY DEF Orderly, Shrinks

LEMMA RemoveRecordShrinks ==
    ASSUME NEW recs, Orderly(recs), NEW o, NEW key \in Key, NEW text,
           \/ key.name \in NamesOf(o)
           \/ key.type = "PTR" /\ \E n \in NamesOf(o) : text = Host(n)
    PROVE  Shrinks(recs, RemoveRecord(recs, key, text), o)
<1>1. PICK set \in Seq(Record) : set = recs[key]
    BY DEF Orderly
<1> DEFINE match == {i \in DOMAIN set : recordMatches(set[i], text)}
           first == CHOOSE i \in match : \A j \in match : i <= j
<1>2. CASE match = {}
  <2>1. RemoveRecord(recs, key, text) = recs
    BY <1>1, <1>2 DEF RemoveRecord
  <2> QED BY <2>1, NothingShrinks
<1>3. CASE match # {}
  <2>1. match \in SUBSET Nat
    OBVIOUS
  <2>2. PICK m : m = match
    OBVIOUS
  <2>3. \E i \in m : \A j \in m : ~ (j < i)
    BY <1>3, <2>1, <2>2, LeastElement
  <2>4. \E i \in match : \A j \in match : i <= j
    BY <2>1, <2>2, <2>3
  <2>5. first \in match
    BY <2>4
  <2>6. PICK i \in DOMAIN set : i = first /\ recordMatches(set[i], text)
    BY <2>5
  <2>7. RemoveRecord(recs, key, text) = [recs EXCEPT ![key] = Dropped(set, i)]
    BY <1>1, <1>3, <2>6 DEF RemoveRecord, Dropped
  <2> HIDE DEF match, first
  <2>8. IsInjective(set)
    BY <1>1 DEF Orderly
  <2>9. PICK t : t = Dropped(set, i)
    OBVIOUS
  <2>10. t \in Seq(Record) /\ IsInjective(t) /\ ToSet(t) = ToSet(set) \ {set[i]}
    BY <2>8, <2>9, DroppedIs
  <2>11. OwnedBy(o, set[i])
    <3>1. set[i] \in ToSet(recs[key])
      BY <1>1 DEF ToSet
    <3>2. set[i].name = key.name /\ set[i].type = key.type
      BY <3>1 DEF Orderly
    <3>3. CASE key.name \in NamesOf(o)
      BY <3>2, <3>3 DEF OwnedBy
    <3>4. CASE key.type = "PTR" /\ \E n \in NamesOf(o) : text = Host(n)
      <4>1. PICK n \in NamesOf(o) : text = Host(n)
        BY <3>4
      <4>2. Dotted(text) = Host(n)
        BY <4>1 DEF Dotted, Host, Text, Parsed
      <4>3. set[i].data = Host(n)
        BY <2>6, <3>2, <3>4, <4>2 DEF recordMatches
      <4> QED BY <3>2, <3>4, <4>3 DEF OwnedBy
    <3> QED BY <3>3, <3>4
  <2>12. /\ ToSet(t) \subseteq ToSet(recs[key])
         /\ \A rr \in ToSet(recs[key]) \ ToSet(t) : OwnedBy(o, rr)
    BY <1>1, <2>10, <2>11
  <2>13. Shrinks(recs, [recs EXCEPT ![key] = t], o)
    BY <2>10, <2>12, SetShrinks
  <2> QED BY <2>7, <2>9, <2>13
<1> QED BY <1>2, <1>3

LEMMA RemovePTRShrinks ==
    ASSUME NEW recs, Orderly(recs), NEW o, NEW zone, NEW name \in NamesOf(o)
    PROVE  Shrinks(recs, RemoveAllPTRRecordsForName(recs, zone, name), o)
<1> DEFINE T == {rr \in Record : rr.data # Host(name)}
           Cleared(key) == key.zone = zone /\ key.type = "PTR"
<1>1. PICK new : new = RemoveAllPTRRecordsForName(recs, zone, name)
    OBVIOUS
<1>2. ASSUME NEW key \in Key
      PROVE  new[key] = IF Cleared(key) THEN Picked(recs[key], T) ELSE recs[key]
  <2>1. recs[key] \in Seq(Record)
    BY DEF Orderly
  <2>2. \A i \in DOMAIN recs[key] : recs[key][i] \in T <=> recs[key][i].data # Host(name)
    BY <2>1
  <2>3. [i \in DOMAIN recs[key] |-> IF recs[key][i].data # Host(name) THEN <<recs[key][i]>> ELSE <<>>]
          = [i \in DOMAIN recs[key] |-> IF recs[key][i] \in T THEN <<recs[key][i]>> ELSE <<>>]
    BY <2>2
  <2>4. FlattenSeq([i \in DOMAIN recs[key] |->
                       IF recs[key][i].data # Host(name) THEN <<recs[key][i]>> ELSE <<>>])
          = Picked(recs[key], T)
    BY <2>3 DEF Picked
  <2> HIDE DEF T
  <2> QED BY <1>1, <2>4 DEF RemoveAllPTRRecordsForName, Kept, ForEach
<1>3. ASSUME NEW key \in Key
      PROVE  /\ new[key] \in Seq(Record)
             /\ IsInjective(new[key]) /\ ToSet(new[key]) \subseteq ToSet(recs[key])
             /\ \A rr \in ToSet(recs[key]) \ ToSet(new[key]) : OwnedBy(o, rr)
  <2>1. PICK s \in Seq(Record) : s = recs[key]
    BY DEF Orderly
  <2>2. IsInjective(s) /\ \A rr \in ToSet(s) : rr \in Record /\ rr.type = key.type
    BY <2>1 DEF Orderly, ToSet
  <2>3. CASE ~Cleared(key)
    <3>1. new[key] = s
      BY <1>2, <2>1, <2>3
    <3> QED BY <2>1, <2>2, <3>1
  <2>4. CASE Cleared(key)
    <3>1. PICK t : t = Picked(s, T)
      OBVIOUS
    <3>2. t \in Seq(Record) /\ ToSet(t) = ToSet(s) \cap T /\ IsInjective(t)
      <4>1. PICK U : U = T
        OBVIOUS
      <4>2. /\ Picked(s, U) \in Seq(Record) /\ ToSet(Picked(s, U)) = ToSet(s) \cap U
            /\ IsInjective(s) => IsInjective(Picked(s, U))
        BY PickedIs
      <4> HIDE DEF T
      <4> QED BY <2>2, <3>1, <4>1, <4>2
    <3>3. new[key] = t
      BY <1>2, <2>1, <2>4, <3>1
    <3>4. \A rr \in ToSet(s) \ ToSet(t) : OwnedBy(o, rr)
      BY <2>2, <2>4, <3>2 DEF OwnedBy
    <3> HIDE DEF T
    <3> QED BY <2>1, <3>2, <3>3, <3>4
  <2> QED BY <2>3, <2>4
<1>4. new = [key \in Key |-> new[key]]
    BY <1>1 DEF RemoveAllPTRRecordsForName
<1>5. new \in [Key -> Seq(Record)]
    BY <1>3, <1>4
<1> QED BY <1>1, <1>3, <1>5 DEF Shrinks

(* A removal takes only what belongs to the object it is made for.         *)
LEMMA RemoveRuns ==
    ASSUME NEW recs, Orderly(recs), NEW o, NEW c \in RemoveCalls(o)
    PROVE  Shrinks(recs, Run(recs, c), o)
<1>1. CASE c \in [call : {"remove"}, key : Key, text : Datum]
  <2>1. PICK key \in Key, text \in Datum : c.call = "remove" /\ c.key = key /\ c.text = text
    BY <1>1
  <2>2. \/ key.name \in NamesOf(o)
        \/ key.type = "PTR" /\ \E n \in NamesOf(o) : text = Host(n)
    BY <2>1 DEF RemoveCalls
  <2>3. Run(recs, c) = RemoveRecord(recs, key, text)
    BY <2>1 DEF Run
  <2> QED BY <2>2, <2>3, RemoveRecordShrinks
<1>2. CASE c \in [call : {"removeall"}, key : {key \in Key : key.name \in NamesOf(o)}]
  <2>1. PICK key \in Key : c.call = "removeall" /\ c.key = key /\ key.name \in NamesOf(o)
    BY <1>2
  <2>2. PICK t : t = <<>>
    OBVIOUS
  <2>3. Run(recs, c) = [recs EXCEPT ![key] = t]
    BY <2>1, <2>2 DEF Run, RemoveAllRecords
  <2>4. t \in Seq(Record) /\ IsInjective(t) /\ ToSet(t) = {}
    <3>1. t \in Seq(Record) /\ DOMAIN t = {}
      BY <2>2
    <3> QED BY <3>1 DEF IsInjective, ToSet
  <2>5. \A rr \in ToSet(recs[key]) : OwnedBy(o, rr)
    BY <2>1 DEF Orderly, OwnedBy
  <2>6. /\ ToSet(t) \subseteq ToSet(recs[key])
        /\ \A rr \in ToSet(recs[key]) \ ToSet(t) : OwnedBy(o, rr)
    BY <2>4, <2>5
  <2>7. Shrinks(recs, [recs EXCEPT ![key] = t], o)
    BY <2>4, <2>6, SetShrinks
  <2> QED BY <2>3, <2>7
<1>3. CASE c \in [call : {"removeptr"}, zone : Zone, name : NamesOf(o)]
  <2>1. PICK zone \in Zone, name \in NamesOf(o) : c.call = "removeptr" /\ c.zone = zone /\ c.name = name
    BY <1>3
  <2>2. Run(recs, c) = RemoveAllPTRRecordsForName(recs, zone, name)
    BY <2>1 DEF Run
  <2>3. Shrinks(recs, RemoveAllPTRRecordsForName(recs, zone, name), o)
    BY RemovePTRShrinks
  <2> QED BY <2>2, <2>3
<1> QED BY <1>1, <1>2, <1>3 DEF RemoveCalls

------------------------------------------------------------------------------
(* The inductive invariant.                                                *)

Event ==
    {e \in [object : Object, event : {"Added", "Modified", "Deleted"},
            content : UNION {SpecsOf[o] : o \in Object}] : e.content \in SpecsOf[e.object]}

Work ==
    [object : Object \cup {None}, calls : Seq(AddCalls \cup UNION {RemoveCalls(o) : o \in Object})]

(* The calls of a watcher are those of an object of its kind.              *)
Handles(k, w) ==
    w.object \in Object /\ KindOf[w.object] = k /\ w.calls \in Seq(CallsOf(w.object))

IType ==
    /\ spec \in [Object -> (UNION {SpecsOf[o] : o \in Object}) \cup {None}]
    /\ \A o \in Object : spec[o] \in SpecsOf[o] \cup {None}
    /\ queue \in [Kind -> Seq(Event)]
    /\ \A k \in Kind : \A i \in DOMAIN queue[k] : KindOf[queue[k][i].object] = k
    /\ work \in [Kind -> Work]
    /\ \A k \in Kind : work[k].calls # <<>> => Handles(k, work[k])
    /\ Orderly(records)
    /\ changes \in 0 .. MaxChanges

(* The last of an object's events that wait tells what there is of it.     *)
Told(e) == IF e.event = "Deleted" THEN None ELSE e.content

LastOf(q, i, o) == q[i].object = o /\ \A j \in DOMAIN q : j > i => q[j].object # o

LastTells ==
    \A o \in Object : \A i \in DOMAIN queue[KindOf[o]] :
        LastOf(queue[KindOf[o]], i, o) => spec[o] = Told(queue[KindOf[o]][i])

(* x is in recs and no removal is ahead, or it will be added after the     *)
(* last of the removals.                                                   *)
OnlyAdds(calls, i) == \A j \in DOMAIN calls : j >= i => calls[j].call = "add"

Due(x, recs, calls) ==
    \/ x \in Pairs(recs) /\ OnlyAdds(calls, 1)
    \/ \E i \in DOMAIN calls : OnlyAdds(calls, i) /\ x = <<calls[i].key, calls[i].rr>>

(* The calls made for o that remain.                                       *)
CallsFor(o) == IF work[KindOf[o]].object = o THEN work[KindOf[o]].calls ELSE <<>>

Waits(o) == \E i \in DOMAIN queue[KindOf[o]] : queue[KindOf[o]][i].object = o

Restored ==
    \A o \in Object : ~Waits(o) /\ spec[o] # None =>
        \A x \in Meant(o, spec[o]) : Due(x, records, CallsFor(o))

(* An event of the content s comes after the content c.                    *)
Follows(event, s, c) == (event = "Deleted" => s = c) /\ (event = "Added" => c = None)

(* A change by the API server is told by one event.                        *)
Changes(o) ==
    \E e \in Event :
        /\ e.object = o /\ Follows(e.event, e.content, spec[o])
        /\ spec' = [spec EXCEPT ![o] = Told(e)]
        /\ queue' = [queue EXCEPT ![KindOf[o]] = Append(@, e)]
        /\ changes < MaxChanges /\ changes' = changes + 1
        /\ UNCHANGED <<work, records>>

LEMMA ServerChanges ==
    ASSUME IType, NEW o \in Object, Create(o) \/ Modify(o) \/ Delete(o)
    PROVE  Changes(o)
<1>1. \A s \in SpecsOf[o] : \A event \in {"Added", "Modified", "Deleted"} :
          [object |-> o, event |-> event, content |-> s] \in Event
    BY DEF Event
<1>2. CASE Create(o)
  <2>1. PICK s \in SpecsOf[o] : spec' = [spec EXCEPT ![o] = s] /\ Emit(o, "Added", s)
    BY <1>2 DEF Create
  <2>2. PICK e \in Event : e = [object |-> o, event |-> "Added", content |-> s]
    BY <1>1
  <2>3. Told(e) = s /\ e.object = o
    BY <2>2 DEF Told
  <2>4. Follows(e.event, e.content, spec[o])
    BY <1>2, <2>2 DEF Create, Follows
  <2> QED BY <2>1, <2>2, <2>3, <2>4 DEF Changes, Emit
<1>3. CASE Modify(o)
  <2>1. PICK s \in SpecsOf[o] : spec' = [spec EXCEPT ![o] = s] /\ Emit(o, "Modified", s)
    BY <1>3 DEF Modify
  <2>2. PICK e \in Event : e = [object |-> o, event |-> "Modified", content |-> s]
    BY <1>1
  <2>3. Told(e) = s /\ e.object = o
    BY <2>2 DEF Told
  <2>4. Follows(e.event, e.content, spec[o])
    BY <2>2 DEF Follows
  <2> QED BY <2>1, <2>2, <2>3, <2>4 DEF Changes, Emit
<1>4. CASE Delete(o)
  <2>1. spec[o] \in SpecsOf[o]
    BY <1>4 DEF Delete, IType
  <2>2. PICK s \in SpecsOf[o] : s = spec[o]
    BY <2>1
  <2>3. PICK e \in Event : e = [object |-> o, event |-> "Deleted", content |-> s]
    BY <1>1
  <2>4. Told(e) = None /\ e.object = o
    BY <2>3 DEF Told
  <2>5. Follows(e.event, e.content, spec[o])
    BY <2>2, <2>3 DEF Follows
  <2> QED BY <1>4, <2>2, <2>3, <2>4, <2>5 DEF Changes, Emit, Delete
<1> QED BY <1>2, <1>3, <1>4

LEMMA ToldType ==
    ASSUME NEW e \in Event
    PROVE  e.object \in Object /\ e.content \in SpecsOf[e.object]
           /\ Told(e) \in SpecsOf[e.object] \cup {None}
    BY DEF Event, Told

LEMMA ChangesType ==
    ASSUME IType, NEW o \in Object, Changes(o)
    PROVE  IType'
<1>1. PICK e \in Event :
          /\ e.object = o
          /\ spec' = [spec EXCEPT ![o] = Told(e)]
          /\ queue' = [queue EXCEPT ![KindOf[o]] = Append(@, e)]
          /\ changes < MaxChanges /\ changes' = changes + 1
          /\ UNCHANGED <<work, records>>
    BY DEF Changes
<1>2. KindOf[o] \in Kind /\ MaxChanges \in Nat
    BY ObjectAssumption
<1>3. PICK v : v = Told(e)
    OBVIOUS
<1>4. v \in SpecsOf[o] \cup {None}
    BY <1>1, <1>3, ToldType
<1>5. /\ spec' \in [Object -> (UNION {SpecsOf[u] : u \in Object}) \cup {None}]
      /\ \A u \in Object : spec'[u] \in SpecsOf[u] \cup {None}
    BY <1>1, <1>3, <1>4 DEF IType
<1>6. PICK q \in Seq(Event) : q = queue[KindOf[o]]
    BY <1>2 DEF IType
<1>7. Append(q, e) \in Seq(Event)
    OBVIOUS
<1>8. queue' = [queue EXCEPT ![KindOf[o]] = Append(q, e)]
    BY <1>1, <1>6
<1>9. /\ queue' \in [Kind -> Seq(Event)] /\ queue'[KindOf[o]] = Append(q, e)
      /\ \A k \in Kind : k # KindOf[o] => queue'[k] = queue[k]
    BY <1>2, <1>7, <1>8 DEF IType
<1>10. \A k \in Kind : \A i \in DOMAIN queue'[k] : KindOf[queue'[k][i].object] = k
  <2> TAKE k \in Kind
  <2>1. CASE k # KindOf[o]
    BY <1>9, <2>1 DEF IType
  <2>2. CASE k = KindOf[o]
    <3>1. \A i \in DOMAIN q : KindOf[q[i].object] = k
      BY <1>6, <2>2 DEF IType
    <3>2. \A i \in DOMAIN Append(q, e) : (i \in DOMAIN q /\ Append(q, e)[i] = q[i]) \/ Append(q, e)[i] = e
      OBVIOUS
    <3> QED BY <1>1, <1>9, <2>2, <3>1, <3>2
  <2> QED BY <2>1, <2>2
<1>11. work' = work /\ records' = records /\ changes' \in 0 .. MaxChanges
    BY <1>1, <1>2 DEF IType
<1> QED BY <1>5, <1>9, <1>10, <1>11 DEF IType, Handles

(* What a watcher makes of an event, and the queue it leaves.              *)
LEMMA Received ==
    ASSUME IType, NEW k \in Kind, Receive(k)
    PROVE  \E e \in Event : \E calls \in Seq(CallsOf(e.object)) :
               /\ queue[k] \in Seq(Event) /\ queue[k] # <<>> /\ e = Head(queue[k])
               /\ queue' = [queue EXCEPT ![k] = Tail(queue[k])]
               /\ KindOf[e.object] = k /\ work[k].calls = <<>>
               /\ work' = [work EXCEPT ![k] = [object |-> e.object, calls |-> calls]]
               /\ e.event # "Deleted" =>
                     \E clear \in Seq(RemoveCalls(e.object)) :
                         calls = clear \o Additions(e.object, e.content)
               /\ UNCHANGED <<spec, records, changes>>
<1>1. PICK q \in Seq(Event) : q = queue[k]
    BY DEF IType
<1>2. q # <<>>
    BY <1>1 DEF Receive
<1>3. PICK e \in Event : e = Head(q)
    BY <1>2
<1>4. 1 \in DOMAIN q /\ e = q[1]
    BY <1>2, <1>3
<1>5. KindOf[e.object] = k
    BY <1>1, <1>4 DEF IType
<1>6. PICK o \in Object : e.object = o
    BY ToldType
<1>7. PICK s \in SpecsOf[o] : e.content = s
    BY <1>6, ToldType
<1>8. PICK zones \in SetToSeqs(Zone) :
          work' = [work EXCEPT ![k] = [object |-> e.object,
              calls |-> processEndpoints(EndpointsOf(k, e.content), e.content.ptr, e.event, zones)]]
    BY <1>1, <1>3 DEF Receive
<1>9. PICK calls :
          calls = processEndpoints(EndpointsOf(k, e.content), e.content.ptr, e.event, zones)
    OBVIOUS
<1>10. zones \in Seq(Zone)
    BY NameAssumption, SetToSeqsType
<1>11. /\ Additions(o, s) \in Seq(AddCalls)
       /\ processEndpoints(EndpointsOf(KindOf[o], s), s.ptr, "Added", zones) = Additions(o, s)
       /\ processEndpoints(EndpointsOf(KindOf[o], s), s.ptr, "Deleted", zones)
             \in Seq(RemoveCalls(o))
       /\ \E clear \in Seq(RemoveCalls(o)) :
             processEndpoints(EndpointsOf(KindOf[o], s), s.ptr, "Modified", zones)
                 = clear \o Additions(o, s)
    BY <1>10, EventCalls
<1>12. calls = processEndpoints(EndpointsOf(KindOf[o], s), s.ptr, e.event, zones)
    BY <1>5, <1>6, <1>7, <1>9
<1>13. e.event \in {"Added", "Modified", "Deleted"}
    BY DEF Event
<1>14. ASSUME e.event # "Deleted"
       PROVE  \E clear \in Seq(RemoveCalls(o)) : calls = clear \o Additions(o, s)
  <2>1. <<>> \in Seq(RemoveCalls(o)) /\ <<>> \o Additions(o, s) = Additions(o, s)
    BY <1>11
  <2>2. CASE e.event = "Added"
    BY <1>11, <1>12, <2>1, <2>2
  <2>3. CASE e.event = "Modified"
    BY <1>11, <1>12, <2>3
  <2> QED BY <1>13, <1>14, <2>2, <2>3
<1>15. AddCalls \subseteq CallsOf(o) /\ RemoveCalls(o) \subseteq CallsOf(o)
    BY DEF CallsOf
<1>16. /\ \A a \in Seq(AddCalls) : a \in Seq(CallsOf(o))
       /\ \A a \in Seq(RemoveCalls(o)) : a \in Seq(CallsOf(o))
    BY <1>15
<1>17. calls \in Seq(CallsOf(o))
  <2>1. CASE e.event = "Deleted"
    BY <1>11, <1>12, <1>16, <2>1
  <2>2. CASE e.event # "Deleted"
    <3>1. PICK clear \in Seq(RemoveCalls(o)) : calls = clear \o Additions(o, s)
      BY <1>14, <2>2
    <3>2. PICK a, b : a = clear /\ b = Additions(o, s)
      OBVIOUS
    <3>3. a \in Seq(CallsOf(o)) /\ b \in Seq(CallsOf(o))
      BY <1>11, <1>16, <3>2
    <3>4. a \o b \in Seq(CallsOf(o))
      BY <3>3
    <3> QED BY <3>1, <3>2, <3>4
  <2> QED BY <2>1, <2>2
<1>18. /\ queue' = [queue EXCEPT ![k] = Tail(queue[k])] /\ work[k].calls = <<>>
       /\ UNCHANGED <<spec, records, changes>>
    BY DEF Receive
<1>19. work' = [work EXCEPT ![k] = [object |-> e.object, calls |-> calls]]
    BY <1>8, <1>9
<1> QED BY <1>1, <1>2, <1>3, <1>5, <1>6, <1>7, <1>14, <1>17, <1>18, <1>19

LEMMA Called ==
    ASSUME IType, NEW k \in Kind, CallCache(k)
    PROVE  \E o \in Object : \E calls \in Seq(CallsOf(o)) :
               /\ work[k] = [object |-> o, calls |-> calls] /\ calls # <<>> /\ KindOf[o] = k
               /\ records' = Run(records, Head(calls))
               /\ work' = [work EXCEPT ![k] = [object |-> o, calls |-> Tail(calls)]]
               /\ UNCHANGED <<spec, queue, changes>>
<1>1. work \in [Kind -> Work] /\ work[k].calls # <<>> /\ Handles(k, work[k])
    BY DEF CallCache, IType
<1>2. PICK o \in Object : work[k].object = o /\ KindOf[o] = k
    BY <1>1 DEF Handles
<1>3. PICK calls \in Seq(CallsOf(o)) : work[k].calls = calls
    BY <1>1, <1>2 DEF Handles
<1>4. work[k] = [object |-> o, calls |-> calls]
    BY <1>1, <1>2, <1>3 DEF Work
<1>5. records' = Run(records, Head(calls)) /\ UNCHANGED <<spec, queue, changes>>
    BY <1>3 DEF CallCache
<1>6. work' = [work EXCEPT ![k] = [object |-> o, calls |-> Tail(calls)]]
  <2>1. PICK t : t = Tail(calls)
    OBVIOUS
  <2>2. work' = [work EXCEPT ![k].calls = t]
    BY <1>3, <2>1 DEF CallCache
  <2>3. [work[k] EXCEPT !.calls = t] = [object |-> o, calls |-> t]
    BY <1>4
  <2>4. work' = [work EXCEPT ![k] = [work[k] EXCEPT !.calls = t]]
    BY <2>2
  <2> QED BY <2>1, <2>3, <2>4
<1> QED BY <1>1, <1>2, <1>3, <1>4, <1>5, <1>6

LEMMA RunIs ==
    ASSUME NEW recs, Orderly(recs), NEW o, NEW c \in CallsOf(o)
    PROVE  Orderly(Run(recs, c)) /\ \A x \in Pairs(recs) \ Pairs(Run(recs, c)) : OwnedBy(o, x[2])
<1>1. CASE c \in AddCalls
    BY <1>1, AddRuns
<1>2. CASE c \in RemoveCalls(o)
  <2>1. PICK new : new = Run(recs, c)
    OBVIOUS
  <2>2. Shrinks(recs, new, o)
    BY <1>2, <2>1, RemoveRuns
  <2>3. Orderly(new) /\ \A x \in Pairs(recs) \ Pairs(new) : OwnedBy(o, x[2])
    BY <2>2, ShrunkRecords
  <2> QED BY <2>1, <2>3
<1> QED BY <1>1, <1>2 DEF CallsOf

LEMMA WorkSet ==
    ASSUME IType, NEW k \in Kind, NEW o \in Object, KindOf[o] = k, NEW calls \in Seq(CallsOf(o)),
           work' = [work EXCEPT ![k] = [object |-> o, calls |-> calls]]
    PROVE  work' \in [Kind -> Work] /\ \A j \in Kind : work'[j].calls # <<>> => Handles(j, work'[j])
<1>1. PICK w : w = [object |-> o, calls |-> calls]
    OBVIOUS
<1>2. PICK All : All = AddCalls \cup UNION {RemoveCalls(u) : u \in Object}
    OBVIOUS
<1>3. CallsOf(o) \subseteq All
    BY <1>2 DEF CallsOf
<1>4. calls \in Seq(All)
    BY <1>3
<1>5. w \in Work
    BY <1>1, <1>2, <1>4 DEF Work
<1>6. Handles(k, w)
    BY <1>1 DEF Handles
<1>7. work' \in [Kind -> Work] /\ work'[k] = w /\ \A j \in Kind : j # k => work'[j] = work[j]
    BY <1>1, <1>5 DEF IType
<1>8. ASSUME NEW j \in Kind, work'[j].calls # <<>>
      PROVE  Handles(j, work'[j])
  <2>1. CASE j = k
    BY <1>6, <1>7, <2>1
  <2>2. CASE j # k
    BY <1>7, <1>8, <2>2 DEF IType
  <2> QED BY <2>1, <2>2
<1> QED BY <1>7, <1>8

LEMMA ReceiveType ==
    ASSUME IType, NEW k \in Kind, Receive(k)
    PROVE  IType'
<1>1. PICK e \in Event : \E calls \in Seq(CallsOf(e.object)) :
          /\ queue[k] \in Seq(Event) /\ queue[k] # <<>>
          /\ queue' = [queue EXCEPT ![k] = Tail(queue[k])]
          /\ KindOf[e.object] = k
          /\ work' = [work EXCEPT ![k] = [object |-> e.object, calls |-> calls]]
          /\ UNCHANGED <<spec, records, changes>>
    BY Received
<1>2. PICK o \in Object : o = e.object
    BY ToldType
<1>3. PICK calls \in Seq(CallsOf(o)) : work' = [work EXCEPT ![k] = [object |-> o, calls |-> calls]]
    BY <1>1, <1>2
<1>4. work' \in [Kind -> Work] /\ \A j \in Kind : work'[j].calls # <<>> => Handles(j, work'[j])
    BY <1>1, <1>2, <1>3, WorkSet
<1>5. PICK q \in Seq(Event) : q = queue[k] /\ q # <<>>
    BY <1>1
<1>6. Tail(q) \in Seq(Event) /\ \A i \in DOMAIN Tail(q) : i + 1 \in DOMAIN q /\ Tail(q)[i] = q[i + 1]
    BY <1>5
<1>7. /\ queue' \in [Kind -> Seq(Event)] /\ queue'[k] = Tail(q)
      /\ \A j \in Kind : j # k => queue'[j] = queue[j]
    BY <1>1, <1>5, <1>6 DEF IType
<1>8. \A j \in Kind : \A i \in DOMAIN queue'[j] : KindOf[queue'[j][i].object] = j
  <2> TAKE j \in Kind
  <2>1. CASE j # k
    BY <1>7, <2>1 DEF IType
  <2>2. CASE j = k
    <3>1. \A i \in DOMAIN q : KindOf[q[i].object] = k
      BY <1>5 DEF IType
    <3> QED BY <1>6, <1>7, <2>2, <3>1
  <2> QED BY <2>1, <2>2
<1> QED BY <1>1, <1>4, <1>7, <1>8 DEF IType

LEMMA CallType ==
    ASSUME IType, NEW k \in Kind, CallCache(k)
    PROVE  IType'
<1>1. PICK o \in Object : \E calls \in Seq(CallsOf(o)) :
          /\ calls # <<>> /\ KindOf[o] = k
          /\ records' = Run(records, Head(calls))
          /\ work' = [work EXCEPT ![k] = [object |-> o, calls |-> Tail(calls)]]
          /\ UNCHANGED <<spec, queue, changes>>
    BY Called
<1>2. PICK calls \in Seq(CallsOf(o)) :
          /\ calls # <<>> /\ KindOf[o] = k
          /\ records' = Run(records, Head(calls))
          /\ work' = [work EXCEPT ![k] = [object |-> o, calls |-> Tail(calls)]]
    BY <1>1
<1>3. PICK left \in Seq(CallsOf(o)), c \in CallsOf(o) : left = Tail(calls) /\ c = Head(calls)
  <2>1. Tail(calls) \in Seq(CallsOf(o)) /\ Head(calls) \in CallsOf(o)
    BY <1>2
  <2> QED BY <2>1
<1>4. work' = [work EXCEPT ![k] = [object |-> o, calls |-> left]] /\ KindOf[o] = k
    BY <1>2, <1>3
<1>5. work' \in [Kind -> Work] /\ \A j \in Kind : work'[j].calls # <<>> => Handles(j, work'[j])
    BY <1>4, WorkSet
<1>6. PICK recs : recs = records /\ Orderly(recs)
    BY DEF IType
<1>7. Orderly(Run(recs, c))
    BY <1>6, RunIs
<1>8. Orderly(records')
    BY <1>2, <1>3, <1>6, <1>7
<1>9. Orderly(records)'
    BY <1>8 DEF Orderly
<1> QED BY <1>1, <1>5, <1>9 DEF IType

LEMMA InitType == Init => IType
<1> SUFFICES ASSUME Init PROVE IType
    OBVIOUS
<1>1. None \in Object \cup {None}
    OBVIOUS
<1>2. <<>> \in Seq(AddCalls \cup UNION {RemoveCalls(o) : o \in Object}) /\ <<>> \in Seq(Event)
      /\ <<>> \in Seq(Record) /\ DOMAIN <<>> = {}
    OBVIOUS
<1>3. /\ spec \in [Object -> (UNION {SpecsOf[o] : o \in Object}) \cup {None}]
      /\ \A o \in Object : spec[o] \in SpecsOf[o] \cup {None}
    BY DEF Init
<1>4. /\ queue \in [Kind -> Seq(Event)]
      /\ \A k \in Kind : \A i \in DOMAIN queue[k] : KindOf[queue[k][i].object] = k
    BY <1>2 DEF Init
<1>5. work \in [Kind -> Work] /\ \A k \in Kind : work[k].calls # <<>> => Handles(k, work[k])
  <2>1. [object |-> None, calls |-> <<>>] \in Work
    BY <1>2 DEF Work
  <2> QED BY <2>1 DEF Init
<1>6. Orderly(records)
  <2>1. IsInjective(<<>>) /\ ToSet(<<>>) = {}
    BY <1>2 DEF IsInjective, ToSet
  <2>2. records \in [Key -> Seq(Record)] /\ \A key \in Key : records[key] = <<>>
    BY <1>2 DEF Init
  <2> QED BY <2>1, <2>2 DEF Orderly
<1>7. changes \in 0 .. MaxChanges
    BY ObjectAssumption DEF Init
<1> QED BY <1>3, <1>4, <1>5, <1>6, <1>7 DEF IType

LEMMA TypeStep == IType /\ [Next]_vars => IType'
<1> SUFFICES ASSUME IType, [Next]_vars PROVE IType'
    OBVIOUS
<1>1. ASSUME NEW o \in Object, Create(o) \/ Modify(o) \/ Delete(o)
      PROVE  IType'
    BY <1>1, ServerChanges, ChangesType
<1>2. ASSUME NEW k \in Kind, Receive(k)
      PROVE  IType'
    BY <1>2, ReceiveType
<1>3. ASSUME NEW k \in Kind, CallCache(k)
      PROVE  IType'
    BY <1>3, CallType
<1>4. CASE UNCHANGED vars
  <2>1. spec' = spec /\ queue' = queue /\ work' = work /\ records' = records /\ changes' = changes
    BY <1>4 DEF vars
  <2> QED BY <2>1 DEF IType
<1> QED BY <1>1, <1>2, <1>3, <1>4 DEF Next

LEMMA TypeAlways == Spec => []IType
    BY InitType, TypeStep, PTL DEF Spec

(* Every object, every event that waits and every record stays what it may *)
(* be: a record is always filed under its own name and type, that of PTR   *)
(* records among them (addEndpointRecord, RemoveRecord and the others).    *)
THEOREM TypeCorrect == Spec => []TypeOK
<1>1. IType => TypeOK
  <2> SUFFICES ASSUME IType PROVE TypeOK
    OBVIOUS
  <2>1. ASSUME NEW key \in Key, NEW i \in DOMAIN records[key]
        PROVE  records[key][i].name = key.name /\ records[key][i].type = key.type
    <3>1. records[key][i] \in ToSet(records[key])
      BY DEF ToSet
    <3> QED BY <3>1 DEF IType, Orderly
  <2> QED BY <2>1 DEF IType, TypeOK
<1> QED BY TypeAlways, <1>1, PTL

(* However the calls of the three watchers mix, no record set holds a      *)
(* record twice: AddRecord looks for what it adds, and RemoveRecord and    *)
(* RemoveAllPTRRecordsForName never copy one.                              *)
THEOREM RecordsDiffer == Spec => []NoDuplicates
<1>1. IType => NoDuplicates
    BY DEF IType, Orderly, NoDuplicates
<1> QED BY TypeAlways, <1>1, PTL

LEMMA OwnerStep ==
    ASSUME IType, [Next]_vars, NEW x \in Pairs(records) \ Pairs(records')
    PROVE  \E k \in Kind : work[k].calls # <<>> /\ OwnedBy(work[k].object, x[2])
<1>1. records' # records
    OBVIOUS
<1>2. ASSUME NEW o \in Object, Create(o) \/ Modify(o) \/ Delete(o)
      PROVE  FALSE
    BY <1>1, <1>2 DEF Create, Modify, Delete, Emit
<1>3. ASSUME NEW k \in Kind, Receive(k)
      PROVE  FALSE
    BY <1>1, <1>3 DEF Receive
<1>4. PICK k \in Kind : CallCache(k)
    BY <1>1, <1>2, <1>3 DEF Next, vars
<1>5. PICK o \in Object : \E calls \in Seq(CallsOf(o)) :
          /\ work[k] = [object |-> o, calls |-> calls] /\ calls # <<>>
          /\ records' = Run(records, Head(calls))
    BY <1>4, Called
<1>6. PICK calls \in Seq(CallsOf(o)) :
          /\ work[k] = [object |-> o, calls |-> calls] /\ calls # <<>>
          /\ records' = Run(records, Head(calls))
    BY <1>5
<1>7. PICK c \in CallsOf(o) : c = Head(calls)
    BY <1>6
<1>8. PICK recs : recs = records /\ Orderly(recs)
    BY DEF IType
<1>9. \A y \in Pairs(recs) \ Pairs(Run(recs, c)) : OwnedBy(o, y[2])
    BY <1>8, RunIs
<1>10. x \in Pairs(recs) \ Pairs(Run(recs, c))
    BY <1>6, <1>7, <1>8
<1> QED BY <1>6, <1>9, <1>10

(* No watcher removes what another has added: what vanishes from the cache *)
(* belongs to the object whose event is being handled, by its name or, for *)
(* a PTR record, by the name it points to.  RemoveAllPTRRecordsForName     *)
(* goes through all zones and the reverse names of all objects.            *)
THEOREM OwnersRemove == Spec => OnlyOwnerRemoves
<1>1. IType /\ [Next]_vars =>
          [\A x \in Pairs(records) \ Pairs(records') :
              \E k \in Kind : work[k].calls # <<>> /\ OwnedBy(work[k].object, x[2])]_vars
    BY OwnerStep
<1> QED BY TypeAlways, <1>1, PTL DEF Spec, OnlyOwnerRemoves

------------------------------------------------------------------------------
(* Nothing is missing.                                                     *)

LEMMA TellsStep == IType /\ LastTells /\ [Next]_vars => LastTells'
<1> SUFFICES ASSUME IType, LastTells, [Next]_vars PROVE LastTells'
    OBVIOUS
<1>1. ASSUME NEW u \in Object, Changes(u)
      PROVE  LastTells'
  <2>1. PICK e \in Event :
            /\ e.object = u
            /\ spec' = [spec EXCEPT ![u] = Told(e)]
            /\ queue' = [queue EXCEPT ![KindOf[u]] = Append(@, e)]
    BY <1>1 DEF Changes
  <2>2. KindOf[u] \in Kind
    BY ObjectAssumption
  <2>3. PICK q \in Seq(Event) : q = queue[KindOf[u]]
    BY <2>2 DEF IType
  <2>4. PICK new \in Seq(Event) : new = Append(q, e)
    <3>1. Append(q, e) \in Seq(Event)
      OBVIOUS
    <3> QED BY <3>1
  <2>5. /\ DOMAIN q = 1 .. Len(q) /\ DOMAIN new = 1 .. Len(q) + 1 /\ Len(q) \in Nat
        /\ new[Len(q) + 1] = e /\ \A i \in 1 .. Len(q) : new[i] = q[i]
    BY <2>4
  <2>6. queue'[KindOf[u]] = new /\ \A k \in Kind : k # KindOf[u] => queue'[k] = queue[k]
    BY <2>1, <2>2, <2>3, <2>4 DEF IType
  <2>7. spec'[u] = Told(e) /\ \A o \in Object : o # u => spec'[o] = spec[o]
    BY <2>1 DEF IType
  <2>8. ASSUME NEW o \in Object, NEW i \in DOMAIN queue'[KindOf[o]], LastOf(queue'[KindOf[o]], i, o)
        PROVE  spec'[o] = Told(queue'[KindOf[o]][i])
    <3>1. KindOf[o] \in Kind
      BY ObjectAssumption
    <3>2. CASE KindOf[o] # KindOf[u]
      BY <2>6, <2>7, <2>8, <3>1, <3>2 DEF LastTells
    <3>3. CASE KindOf[o] = KindOf[u]
      <4>1. i \in 1 .. Len(q) + 1 /\ LastOf(new, i, o)
        BY <2>5, <2>6, <2>8, <3>3
      <4>2. CASE i = Len(q) + 1
        <5>1. o = u
          BY <2>1, <2>5, <4>1, <4>2 DEF LastOf
        <5> QED BY <2>5, <2>6, <2>7, <4>2, <5>1
      <4>3. CASE i # Len(q) + 1
        <5>1. i \in 1 .. Len(q) /\ Len(q) + 1 > i
          BY <2>5, <4>1, <4>3
        <5>2. o # u
          BY <2>1, <2>5, <4>1, <5>1 DEF LastOf
        <5>3. LastOf(q, i, o)
          BY <2>5, <4>1, <5>1 DEF LastOf
        <5>4. spec[o] = Told(q[i])
          BY <2>3, <2>5, <3>3, <5>1, <5>3 DEF LastTells
        <5> QED BY <2>5, <2>6, <2>7, <3>3, <5>1, <5>2, <5>4
      <4> QED BY <4>2, <4>3
    <3> QED BY <3>2, <3>3
  <2> QED BY <2>8 DEF LastTells
<1>2. ASSUME NEW k \in Kind, Receive(k)
      PROVE  LastTells'
  <2>1. PICK q \in Seq(Event) : q = queue[k] /\ q # <<>>
    BY <1>2 DEF IType, Receive
  <2>2. PICK new \in Seq(Event) : new = Tail(q)
    <3>1. Tail(q) \in Seq(Event)
      BY <2>1
    <3> QED BY <3>1
  <2>3. /\ \A i \in DOMAIN new : i \in Nat /\ i + 1 \in DOMAIN q /\ new[i] = q[i + 1]
        /\ \A j \in DOMAIN q : j \in Nat /\ (j > 1 => j - 1 \in DOMAIN new)
    BY <2>1, <2>2
  <2>4. /\ queue'[k] = new /\ \A j \in Kind : j # k => queue'[j] = queue[j]
        /\ spec' = spec
    BY <1>2, <2>1, <2>2 DEF IType, Receive
  <2>5. ASSUME NEW o \in Object, NEW i \in DOMAIN queue'[KindOf[o]], LastOf(queue'[KindOf[o]], i, o)
        PROVE  spec'[o] = Told(queue'[KindOf[o]][i])
    <3>1. KindOf[o] \in Kind
      BY ObjectAssumption
    <3>2. CASE KindOf[o] # k
      BY <2>4, <2>5, <3>1, <3>2 DEF LastTells
    <3>3. CASE KindOf[o] = k
      <4>1. i \in DOMAIN new /\ LastOf(new, i, o)
        BY <2>4, <2>5, <3>3
      <4>2. i \in Nat /\ i + 1 \in DOMAIN q /\ new[i] = q[i + 1]
        BY <2>3, <4>1
      <4>3. ASSUME NEW j \in DOMAIN q, j > i + 1
            PROVE  q[j].object # o
        <5>1. j \in Nat /\ j > 1
          BY <2>3, <4>2, <4>3
        <5>2. j - 1 \in DOMAIN new /\ j - 1 > i /\ (j - 1) + 1 = j
          BY <2>3, <4>2, <4>3, <5>1
        <5> QED BY <2>3, <4>1, <5>2 DEF LastOf
      <4>4. LastOf(q, i + 1, o)
        BY <4>1, <4>2, <4>3 DEF LastOf
      <4>5. spec[o] = Told(q[i + 1])
        BY <2>1, <3>3, <4>2, <4>4 DEF LastTells
      <4> QED BY <2>4, <3>3, <4>2, <4>5
    <3> QED BY <3>2, <3>3
  <2> QED BY <2>5 DEF LastTells
<1>3. ASSUME NEW k \in Kind, CallCache(k)
      PROVE  LastTells'
    BY <1>3 DEF CallCache, LastTells
<1>4. CASE UNCHANGED vars
    BY <1>4 DEF vars, LastTells
<1> QED BY <1>1, <1>2, <1>3, <1>4, ServerChanges DEF Next

LEMMA CallKinds ==
    ASSUME NEW o
    PROVE  /\ \A c \in AddCalls : c.call = "add"
           /\ \A c \in RemoveCalls(o) : c.call # "add"
    BY DEF AddCalls, RemoveCalls

(* What the handling of an event adds is due once it begins.               *)
LEMMA DueAtOnce ==
    ASSUME NEW o \in Object, NEW s \in SpecsOf[o], NEW clear \in Seq(RemoveCalls(o)),
           NEW recs, NEW x \in Meant(o, s)
    PROVE  Due(x, recs, clear \o Additions(o, s))
<1>1. <<>> \in Seq(Zone)
    OBVIOUS
<1>2. Additions(o, s) \in Seq(AddCalls)
    BY <1>1, EventCalls
<1>3. PICK a \in Seq(AddCalls) : a = Additions(o, s)
    BY <1>2
<1>4. PICK m \in DOMAIN a : x = <<a[m].key, a[m].rr>>
    BY <1>3 DEF Meant, Additions, ToSet
<1>5. PICK All : All = CallsOf(o)
    OBVIOUS
<1>6. a \in Seq(All) /\ clear \in Seq(All)
  <2>1. AddCalls \subseteq All /\ RemoveCalls(o) \subseteq All
    BY <1>5 DEF CallsOf
  <2> QED BY <2>1
<1>7. PICK calls : calls = clear \o a
    OBVIOUS
<1>8. /\ Len(clear) \in Nat /\ Len(a) \in Nat /\ DOMAIN a = 1 .. Len(a)
      /\ DOMAIN calls = 1 .. Len(clear) + Len(a)
      /\ \A j \in 1 .. Len(a) : calls[Len(clear) + j] = a[j]
    BY <1>6, <1>7
<1>9. PICK n \in Nat : n = Len(clear)
    BY <1>8
<1>10. n + m \in DOMAIN calls /\ calls[n + m] = a[m]
  <2>1. PICK l \in Nat : l = Len(a)
    BY <1>8
  <2>2. m \in 1 .. l
    BY <1>8, <2>1
  <2>3. n + m \in 1 .. n + l
    BY <2>2
  <2> QED BY <1>8, <1>9, <2>1, <2>2, <2>3
<1>11. ASSUME NEW j \in DOMAIN calls, j >= n + m
       PROVE  calls[j].call = "add"
  <2>1. j - n \in 1 .. Len(a) /\ n + (j - n) = j
    BY <1>4, <1>8, <1>9, <1>11
  <2>2. a[j - n] \in AddCalls
    BY <2>1
  <2>3. calls[n + (j - n)] = a[j - n]
    BY <1>8, <1>9, <2>1
  <2> QED BY <2>1, <2>2, <2>3, CallKinds
<1>12. OnlyAdds(calls, n + m)
    BY <1>11 DEF OnlyAdds
<1>13. Due(x, recs, calls)
    BY <1>4, <1>10, <1>12 DEF Due
<1> QED BY <1>3, <1>7, <1>13

(* It stays due as the calls are made.                                     *)
LEMMA DueStays ==
    ASSUME NEW o, NEW calls \in Seq(CallsOf(o)), calls # <<>>,
           NEW recs, Orderly(recs), NEW x, Due(x, recs, calls)
    PROVE  Due(x, Run(recs, Head(calls)), Tail(calls))
<1>1. PICK c \in CallsOf(o) : c = Head(calls)
    OBVIOUS
<1>2. PICK left : left = Tail(calls)
    OBVIOUS
<1>3. PICK new : new = Run(recs, c)
    OBVIOUS
<1>4. /\ DOMAIN calls = 1 .. Len(calls) /\ Len(calls) \in Nat /\ 1 \in DOMAIN calls /\ calls[1] = c
      /\ DOMAIN left = 1 .. Len(calls) - 1
      /\ \A i \in DOMAIN left : i \in Nat /\ left[i] = calls[i + 1]
    BY <1>1, <1>2
<1>5. c.call = "add" => c \in AddCalls
    BY CallKinds DEF CallsOf
<1>6. c.call = "add" => Pairs(new) = Pairs(recs) \cup {<<c.key, c.rr>>}
    BY <1>3, <1>5, AddRuns
<1>7. ASSUME NEW i \in DOMAIN calls, OnlyAdds(calls, i)
      PROVE  \A j \in DOMAIN left : j + 1 >= i => left[j].call = "add"
  <2> SUFFICES ASSUME NEW j \in DOMAIN left, j + 1 >= i
               PROVE  left[j].call = "add"
    OBVIOUS
  <2>1. j + 1 \in DOMAIN calls /\ left[j] = calls[j + 1]
    BY <1>4
  <2> QED BY <1>7, <2>1 DEF OnlyAdds
<1>8. ASSUME OnlyAdds(calls, 1)
      PROVE  c.call = "add" /\ OnlyAdds(left, 1)
  <2>1. c.call = "add"
    BY <1>4, <1>8 DEF OnlyAdds
  <2>2. \A j \in DOMAIN left : j \in Nat /\ j + 1 >= 1
    BY <1>4
  <2> QED BY <1>4, <1>7, <1>8, <2>1, <2>2 DEF OnlyAdds
<1>9. CASE x \in Pairs(recs) /\ OnlyAdds(calls, 1)
    BY <1>1, <1>2, <1>3, <1>6, <1>8, <1>9 DEF Due
<1>10. CASE \E i \in DOMAIN calls : OnlyAdds(calls, i) /\ x = <<calls[i].key, calls[i].rr>>
  <2>1. PICK i \in DOMAIN calls : OnlyAdds(calls, i) /\ x = <<calls[i].key, calls[i].rr>>
    BY <1>10
  <2>2. CASE i = 1
    <3>1. x = <<c.key, c.rr>> /\ c.call = "add" /\ OnlyAdds(left, 1)
      BY <1>4, <1>8, <2>1, <2>2
    <3>2. x \in Pairs(new)
      BY <1>6, <3>1
    <3> QED BY <1>1, <1>2, <1>3, <3>1, <3>2 DEF Due
  <2>3. CASE i # 1
    <3>1. i - 1 \in DOMAIN left /\ left[i - 1] = calls[i]
      BY <1>4, <2>3
    <3>2. \A j \in DOMAIN left : j >= i - 1 => j + 1 >= i
      BY <1>4
    <3>3. OnlyAdds(left, i - 1)
      BY <1>7, <2>1, <3>2 DEF OnlyAdds
    <3>4. Due(x, new, left)
      BY <2>1, <3>1, <3>3 DEF Due
    <3> QED BY <1>1, <1>2, <1>3, <3>4
  <2> QED BY <2>2, <2>3
<1> QED BY <1>9, <1>10 DEF Due

LEMMA DueElsewhere ==
    ASSUME Apart, NEW o \in Object, NEW u \in Object, u # o, NEW s \in SpecsOf[o],
           NEW x \in Meant(o, s), NEW c \in CallsOf(u), NEW recs, Orderly(recs),
           NEW calls, Due(x, recs, calls)
    PROVE  Due(x, Run(recs, c), calls)
<1>1. PICK new : new = Run(recs, c)
    OBVIOUS
<1>2. ~OwnedBy(u, x[2])
    BY DEF Apart
<1>3. \A y \in Pairs(recs) \ Pairs(new) : OwnedBy(u, y[2])
    BY <1>1, RunIs
<1>4. x \in Pairs(recs) => x \in Pairs(new)
    BY <1>2, <1>3
<1>5. Due(x, new, calls)
    BY <1>4 DEF Due
<1> QED BY <1>1, <1>5

LEMMA RestoredChange ==
    ASSUME IType, Restored, NEW u \in Object, Changes(u)
    PROVE  Restored'
<1>1. PICK e \in Event :
          /\ e.object = u
          /\ spec' = [spec EXCEPT ![u] = Told(e)]
          /\ queue' = [queue EXCEPT ![KindOf[u]] = Append(@, e)]
          /\ UNCHANGED <<work, records>>
    BY DEF Changes
<1>2. PICK q \in Seq(Event) : q = queue[KindOf[u]]
    BY ObjectAssumption DEF IType
<1>3. /\ \A i \in DOMAIN q : i \in DOMAIN Append(q, e) /\ Append(q, e)[i] = q[i]
      /\ \E i \in DOMAIN Append(q, e) : Append(q, e)[i] = e
  <2>1. Len(q) + 1 \in DOMAIN Append(q, e) /\ Append(q, e)[Len(q) + 1] = e
    OBVIOUS
  <2>2. \A i \in DOMAIN q : i \in DOMAIN Append(q, e) /\ Append(q, e)[i] = q[i]
    OBVIOUS
  <2> QED BY <2>1, <2>2
<1>4. PICK new : new = Append(q, e)
    OBVIOUS
<1>5. queue'[KindOf[u]] = new /\ \A k \in Kind : k # KindOf[u] => queue'[k] = queue[k]
    BY <1>1, <1>2, <1>4, ObjectAssumption DEF IType
<1>6. ASSUME NEW o \in Object, ~Waits(o)', spec'[o] # None
      PROVE  o # u /\ ~Waits(o) /\ spec'[o] = spec[o] /\ CallsFor(o)' = CallsFor(o)
  <2>1. o # u
    BY <1>1, <1>3, <1>4, <1>5, <1>6 DEF Waits
  <2>2. ~Waits(o)
    <3>1. KindOf[o] \in Kind
      BY ObjectAssumption
    <3>2. CASE KindOf[o] = KindOf[u]
      <4>1. \A i \in DOMAIN new : new[i].object # o
        BY <1>5, <1>6, <3>2 DEF Waits
      <4>2. \A i \in DOMAIN q : q[i].object # o
        BY <1>3, <1>4, <4>1
      <4> QED BY <1>2, <3>2, <4>2 DEF Waits
    <3>3. CASE KindOf[o] # KindOf[u]
      BY <1>5, <1>6, <3>1, <3>3 DEF Waits
    <3> QED BY <3>2, <3>3
  <2>3. spec'[o] = spec[o]
    BY <1>1, <2>1 DEF IType
  <2>4. CallsFor(o)' = CallsFor(o)
    BY <1>1 DEF CallsFor
  <2> QED BY <2>1, <2>2, <2>3, <2>4
<1>7. ASSUME NEW o \in Object, ~Waits(o)', spec'[o] # None, NEW x \in Meant(o, spec'[o])
      PROVE  Due(x, records', CallsFor(o)')
  <2>1. ~Waits(o) /\ spec'[o] = spec[o] /\ CallsFor(o)' = CallsFor(o)
    BY <1>6, <1>7
  <2>2. Due(x, records, CallsFor(o))
    BY <1>7, <2>1 DEF Restored
  <2> QED BY <1>1, <2>1, <2>2
<1> QED BY <1>7 DEF Restored, Meant

LEMMA RestoredReceive ==
    ASSUME IType, LastTells, Restored, NEW k \in Kind, Receive(k)
    PROVE  Restored'
<1>1. PICK e \in Event : \E calls \in Seq(CallsOf(e.object)) :
          /\ queue[k] \in Seq(Event) /\ queue[k] # <<>> /\ e = Head(queue[k])
          /\ queue' = [queue EXCEPT ![k] = Tail(queue[k])]
          /\ KindOf[e.object] = k /\ work[k].calls = <<>>
          /\ work' = [work EXCEPT ![k] = [object |-> e.object, calls |-> calls]]
          /\ e.event # "Deleted" =>
                \E clear \in Seq(RemoveCalls(e.object)) :
                    calls = clear \o Additions(e.object, e.content)
          /\ UNCHANGED <<spec, records, changes>>
    BY Received
<1>2. PICK u \in Object : u = e.object
    BY ToldType
<1>3. PICK calls \in Seq(CallsOf(u)) :
          /\ work' = [work EXCEPT ![k] = [object |-> u, calls |-> calls]]
          /\ e.event # "Deleted" =>
                \E clear \in Seq(RemoveCalls(u)) : calls = clear \o Additions(u, e.content)
    BY <1>1, <1>2
<1>4. PICK q \in Seq(Event) : q = queue[k] /\ q # <<>> /\ e = Head(q)
    BY <1>1
<1>5. PICK left : left = Tail(q)
    OBVIOUS
<1>6. /\ 1 \in DOMAIN q /\ q[1] = e
      /\ \A j \in DOMAIN q : j \in Nat
      /\ \A j \in DOMAIN q : j > 1 => j - 1 \in DOMAIN left /\ left[j - 1] = q[j]
      /\ \A j \in DOMAIN q : j = 1 \/ j > 1
    BY SMTT(40), <1>4, <1>5
<1>7. queue'[k] = left /\ \A j \in Kind : j # k => queue'[j] = queue[j]
    BY <1>1, <1>4, <1>5 DEF IType
<1>8. /\ work'[k] = [object |-> u, calls |-> calls]
      /\ \A j \in Kind : j # k => work'[j] = work[j]
    BY <1>3 DEF IType
<1>9. spec' = spec /\ records' = records
    BY <1>1
<1>10. ASSUME NEW o \in Object, ~Waits(o)', spec[o] # None, NEW x \in Meant(o, spec[o])
       PROVE  Due(x, records', CallsFor(o)')
  <2>1. KindOf[o] \in Kind
    BY ObjectAssumption
  <2>2. CASE o = u
    <3>1. KindOf[o] = k
      BY <1>1, <1>2, <2>2
    <3>2. LastOf(q, 1, o)
      <4>1. ASSUME NEW j \in DOMAIN q, j > 1
            PROVE  q[j].object # o
        BY <1>6, <1>7, <1>10, <3>1, <4>1 DEF Waits
      <4> QED BY <1>2, <1>6, <2>2, <4>1 DEF LastOf
    <3>3. spec[o] = Told(e)
      <4>1. q = queue[KindOf[o]] /\ 1 \in DOMAIN q /\ q[1] = e
        BY <1>4, <1>6, <3>1
      <4>2. LastOf(queue[KindOf[o]], 1, o) => spec[o] = Told(queue[KindOf[o]][1])
        BY <4>1 DEF LastTells
      <4> QED BY <3>2, <4>1, <4>2
    <3>4. e.event # "Deleted" /\ e.content = spec[o]
      BY <1>10, <3>3 DEF Told
    <3>5. PICK s \in SpecsOf[o] : s = spec[o]
      BY <1>10 DEF IType
    <3>6. PICK clear \in Seq(RemoveCalls(o)) : calls = clear \o Additions(o, s)
      BY <1>3, <2>2, <3>4, <3>5
    <3>7. PICK recs : recs = records
      OBVIOUS
    <3>8. x \in Meant(o, s)
      BY <1>10, <3>5
    <3>9. Due(x, recs, clear \o Additions(o, s))
      BY <3>8, DueAtOnce
    <3>10. CallsFor(o)' = calls
      BY <1>8, <2>2, <3>1 DEF CallsFor
    <3> QED BY <1>9, <3>6, <3>7, <3>9, <3>10
  <2>3. CASE o # u
    <3>1. ~Waits(o) /\ CallsFor(o)' = CallsFor(o)
      <4>1. CASE KindOf[o] = k
        <5>1. \A j \in DOMAIN q : q[j].object # o
          <6> TAKE j \in DOMAIN q
          <6>1. CASE j = 1
            BY <1>2, <1>6, <2>3, <6>1
          <6>2. CASE j > 1
            BY <1>6, <1>7, <1>10, <4>1, <6>2 DEF Waits
          <6> QED BY <1>6, <6>1, <6>2
        <5>2. ~Waits(o)
          BY <1>4, <4>1, <5>1 DEF Waits
        <5>3. CallsFor(o)' = <<>>
          BY <1>8, <2>3, <4>1 DEF CallsFor
        <5>4. CallsFor(o) = <<>>
          BY <1>1, <4>1 DEF CallsFor
        <5> QED BY <5>2, <5>3, <5>4
      <4>2. CASE KindOf[o] # k
        BY <1>7, <1>8, <1>10, <2>1, <4>2 DEF Waits, CallsFor
      <4> QED BY <4>1, <4>2
    <3>2. Due(x, records, CallsFor(o))
      BY <1>10, <3>1 DEF Restored
    <3> QED BY <1>9, <3>1, <3>2
  <2> QED BY <2>2, <2>3
<1>11. \A o \in Object : ~Waits(o)' /\ spec'[o] # None =>
           \A x \in Meant(o, spec'[o]) : Due(x, records', CallsFor(o)')
    BY <1>9, <1>10
<1> QED BY <1>11 DEF Restored, Meant

LEMMA RestoredCall ==
    ASSUME Apart, IType, Restored, NEW k \in Kind, CallCache(k)
    PROVE  Restored'
<1>1. PICK u \in Object : \E calls \in Seq(CallsOf(u)) :
          /\ work[k] = [object |-> u, calls |-> calls] /\ calls # <<>> /\ KindOf[u] = k
          /\ records' = Run(records, Head(calls))
          /\ work' = [work EXCEPT ![k] = [object |-> u, calls |-> Tail(calls)]]
          /\ UNCHANGED <<spec, queue, changes>>
    BY Called
<1>2. PICK calls \in Seq(CallsOf(u)) :
          /\ work[k] = [object |-> u, calls |-> calls] /\ calls # <<>> /\ KindOf[u] = k
          /\ records' = Run(records, Head(calls))
          /\ work' = [work EXCEPT ![k] = [object |-> u, calls |-> Tail(calls)]]
    BY <1>1
<1>3. PICK recs : recs = records /\ Orderly(recs)
    BY DEF IType
<1>4. PICK c \in CallsOf(u) : c = Head(calls)
    BY <1>2
<1>5. PICK left : left = Tail(calls)
    OBVIOUS
<1>6. /\ work'[k] = [object |-> u, calls |-> left]
      /\ \A j \in Kind : j # k => work'[j] = work[j]
    BY <1>2, <1>5 DEF IType
<1>7. spec' = spec /\ queue' = queue
    BY <1>1
<1>8. ASSUME NEW o \in Object, ~Waits(o), spec[o] # None, NEW x \in Meant(o, spec[o])
      PROVE  Due(x, records', CallsFor(o)')
  <2>1. PICK s \in SpecsOf[o] : s = spec[o]
    BY <1>8 DEF IType
  <2>2. Due(x, recs, CallsFor(o))
    BY <1>3, <1>8 DEF Restored
  <2>3. CASE o = u
    <3>1. CallsFor(o) = calls /\ CallsFor(o)' = left
      BY <1>2, <1>6, <2>3 DEF CallsFor
    <3>2. Due(x, recs, calls)
      BY <2>2, <3>1
    <3>3. Due(x, Run(recs, Head(calls)), Tail(calls))
      BY <1>2, <1>3, <3>2, DueStays
    <3> QED BY <1>2, <1>3, <1>5, <3>1, <3>3
  <2>4. CASE o # u
    <3>1. CallsFor(o)' = CallsFor(o)
      <4>1. KindOf[o] \in Kind
        BY ObjectAssumption
      <4>2. CASE KindOf[o] = k
        BY <1>2, <1>6, <2>4, <4>2 DEF CallsFor
      <4>3. CASE KindOf[o] # k
        BY <1>6, <4>1, <4>3 DEF CallsFor
      <4> QED BY <4>2, <4>3
    <3>2. PICK rest : rest = CallsFor(o)
      OBVIOUS
    <3>3. x \in Meant(o, s) /\ Due(x, recs, rest)
      BY <1>8, <2>1, <2>2, <3>2
    <3>4. Due(x, Run(recs, c), rest)
      BY <1>3, <2>4, <3>3, DueElsewhere
    <3> QED BY <1>2, <1>3, <1>4, <3>1, <3>2, <3>4
  <2> QED BY <2>3, <2>4
<1>9. \A o \in Object : ~Waits(o)' /\ spec'[o] # None =>
          \A x \in Meant(o, spec'[o]) : Due(x, records', CallsFor(o)')
    BY <1>7, <1>8 DEF Waits
<1> QED BY <1>9 DEF Restored, Meant

LEMMA RestoredStep ==
    ASSUME Apart
    PROVE  IType /\ LastTells /\ Restored /\ [Next]_vars => Restored'
<1> SUFFICES ASSUME IType, LastTells, Restored, [Next]_vars PROVE Restored'
    OBVIOUS
<1>1. CASE UNCHANGED vars
    BY <1>1 DEF vars, Restored, Waits, CallsFor
<1>2. ASSUME NEW o \in Object, Create(o) \/ Modify(o) \/ Delete(o)
      PROVE  Restored'
    BY <1>2, ServerChanges, RestoredChange
<1>3. ASSUME NEW k \in Kind, Receive(k)
      PROVE  Restored'
    BY <1>3, RestoredReceive
<1>4. ASSUME NEW k \in Kind, CallCache(k)
      PROVE  Restored'
    BY <1>4, RestoredCall
<1> QED BY <1>1, <1>2, <1>3, <1>4 DEF Next

(* Once the events of an object are handled, all its records are in the    *)
(* cache, if no object may remove what another is meant to have: a         *)
(* modification clears all endpoints before it adds the first again        *)
(* (processEndpoints), and the last event that is handled tells of the     *)
(* object as it is, however the calls for the others fall in between.      *)
THEOREM AllIsThere ==
    ASSUME Apart
    PROVE  Spec => []NothingMissing
<1>1. Init => LastTells /\ Restored
    BY ObjectAssumption DEF Init, LastTells, Restored
<1>2. IType /\ Restored => NothingMissing
  <2> SUFFICES ASSUME IType, Restored, NEW o \in Object, Settled(o), spec[o] # None,
                      NEW x \in Meant(o, spec[o])
               PROVE  x \in Pairs(records)
    BY DEF NothingMissing
  <2>1. ~Waits(o)
    BY DEF Settled, Waits
  <2>2. CallsFor(o) = <<>>
    BY DEF Settled, CallsFor
  <2>3. Due(x, records, <<>>)
    BY <2>1, <2>2 DEF Restored
  <2>4. DOMAIN <<>> = {}
    OBVIOUS
  <2> QED BY <2>3, <2>4 DEF Due
<1>3. IType /\ LastTells /\ Restored /\ [Next]_vars => LastTells' /\ Restored'
    BY TellsStep, RestoredStep
<1> QED BY TypeAlways, <1>1, <1>2, <1>3, PTL DEF Spec

------------------------------------------------------------------------------
(* Nothing is left but what nobody could find.                             *)

KeysEver(o) == UNION {KeysOf(o, s) : s \in SpecsOf[o]}

Clears(c, x) == Finds(c, x) \/ (c.call = "removeall" /\ x[1] = c.key)

(* The records that some deletion of o would find.                         *)
Known(o, x) ==
    x[1] \in KeysEver(o) /\ \E t \in SpecsOf[o] : \E c \in Removals(o, t) : Finds(c, x)

LEMMA ClearsAll ==
    ASSUME NEW ep \in Endpoints, NEW ptr, NEW zones \in Seq(Zone), ep.type \in Type
    PROVE  /\ \A c \in ToSet(clearEndpoint(ep, ptr, zones)) : c.call \in {"removeall", "removeptr"}
           /\ [call |-> "removeall", key |-> KeyOf(ep.name, ep.type)]
                 \in ToSet(clearEndpoint(ep, ptr, zones))
<1> DEFINE f == [i \in DOMAIN zones |-> RemovePTRCall(zones[i], ep.name)]
           C == [call : {"removeall"}, key : Key] \cup [call : {"removeptr"}, zone : Zone, name : Name]
<1>1. PICK key \in Key : key = KeyOf(ep.name, ep.type)
    BY KeyType DEF Endpoints
<1>2. PICK c : c = [call |-> "removeall", key |-> key]
    OBVIOUS
<1>3. c \in C
    BY <1>2
<1>4. f \in [DOMAIN zones -> Seq(C)]
  <2>1. \A zone \in Zone : [call |-> "removeptr", zone |-> zone, name |-> ep.name] \in C
    BY DEF Endpoints
  <2>2. \A d \in C : <<d>> \in Seq(C)
    OBVIOUS
  <2> HIDE DEF C
  <2> QED BY <2>1, <2>2 DEF RemovePTRCall
<1> HIDE DEF f
<1>5. FlattenSeq(f) \in Seq(C)
  <2> HIDE DEF C
  <2> QED BY <1>4, FlattenFunctionType
<1>6. PICK rest \in Seq(C) : clearEndpoint(ep, ptr, zones) = <<c>> \o rest
  <2>1. clearEndpoint(ep, ptr, zones) =
            <<c>> \o (IF ~HasPTR(ep, ptr) THEN <<>> ELSE FlattenSeq(f))
    BY <1>1, <1>2 DEF clearEndpoint, RemoveAllCall, ForEach, f
  <2>2. <<>> \in Seq(C)
    OBVIOUS
  <2> HIDE DEF C
  <2> QED BY <1>5, <2>1, <2>2
<1>7. ToSet(<<c>> \o rest) = ToSet(<<c>>) \cup ToSet(rest)
  <2>0. <<c>> \in Seq(C)
    BY <1>3
  <2> HIDE DEF C
  <2>1. PICK one \in Seq(C) : one = <<c>>
    BY <2>0
  <2>2. ToSet(one \o rest) = ToSet(one) \cup ToSet(rest)
    BY ToSetConcat, ZenonT(40)
  <2> QED BY <2>1, <2>2, Zenon
<1>8. ToSet(<<c>>) = {c}
    BY DEF ToSet
<1>9. \A d \in ToSet(rest) : d \in C
  <2> HIDE DEF C
  <2> QED BY DEF ToSet
<1>10. \A d \in C : d.call \in {"removeall", "removeptr"}
    OBVIOUS
<1> HIDE DEF C
<1> QED BY <1>1, <1>2, <1>3, <1>6, <1>7, <1>8, <1>9, <1>10

(* A deletion has a call for each target of each endpoint.                 *)
LEMMA RemovalMade ==
    ASSUME NEW o \in Object, NEW s \in SpecsOf[o],
           NEW ep \in ToSet(EndpointsOf(KindOf[o], s)), ep.type \in Type,
           NEW text \in ToSet(ep.targets)
    PROVE  [call |-> "remove", key |-> KeyOf(ep.name, ep.type), text |-> text] \in Removals(o, s)
<1>0. PICK eps \in Seq(Endpoints) : eps = EndpointsOf(KindOf[o], s)
    BY EndpointsType, ObjectAssumption
<1>1. PICK ptr : eps = EndpointsOf(KindOf[o], s) /\ ptr = s.ptr
    BY <1>0
<1>2. PICK i \in DOMAIN eps : eps[i] = ep
    BY <1>1 DEF ToSet
<1>3. ep \in Endpoints /\ ep.targets \in Seq(Target)
  <2>1. eps[i] \in Endpoints
    OBVIOUS
  <2> QED BY <1>2, <2>1 DEF Endpoints
<1>4. PICK j \in DOMAIN ep.targets : ep.targets[j] = text
    BY DEF ToSet
<1>5. PICK c : c = [call |-> "remove", key |-> KeyOf(ep.name, ep.type), text |-> text]
    OBVIOUS
<1>6. PICK C : C = RemoveCalls(o)
    OBVIOUS
<1> DEFINE OfTarget(t) ==
               RemoveCall(KeyOf(ep.name, ep.type), t) \o
               IF HasPTR(ep, ptr) /\ IsAddress(t)
                 THEN RemoveCall(KeyOf(ReverseOf[t.value], "PTR"), Host(ep.name)) ELSE <<>>
           f == [k \in DOMAIN ep.targets |-> OfTarget(ep.targets[k])]
           removed == [k \in DOMAIN eps |-> removeEndpointRecord(eps[k], ptr)]
<1>7. ASSUME NEW t \in Target
      PROVE  /\ OfTarget(t) \in Seq([call : {"remove"}, key : Key, text : Datum])
             /\ [call |-> "remove", key |-> KeyOf(ep.name, ep.type), text |-> t] \in ToSet(OfTarget(t))
  <2> DEFINE R == [call : {"remove"}, key : Key, text : Datum]
  <2>1. KeyOf(ep.name, ep.type) \in Key /\ t \in Datum /\ Host(ep.name) \in Datum
    BY <1>3, KeyType DEF Endpoints, Datum
  <2>2. PICK a \in R : a = [call |-> "remove", key |-> KeyOf(ep.name, ep.type), text |-> t]
    BY <2>1
  <2>3. IsAddress(t) => KeyOf(ReverseOf[t.value], "PTR") \in Key
    <3>1. IsAddress(t) => ReverseOf[t.value] \in Name
      BY NameAssumption DEF Target
    <3> QED BY <3>1, KeyType DEF Type
  <2>4. PICK b \in Seq(R) : OfTarget(t) = <<a>> \o b
    <3>1. CASE HasPTR(ep, ptr) /\ IsAddress(t)
      <4>1. PICK d \in R : d = [call |-> "remove", key |-> KeyOf(ReverseOf[t.value], "PTR"),
                                text |-> Host(ep.name)]
        BY <2>1, <2>3, <3>1
      <4>2. OfTarget(t) = <<a>> \o <<d>>
        BY <2>2, <3>1, <4>1 DEF RemoveCall
      <4>3. <<d>> \in Seq(R)
        OBVIOUS
      <4> HIDE DEF R, OfTarget
      <4> QED BY <4>2, <4>3
    <3>2. CASE ~ (HasPTR(ep, ptr) /\ IsAddress(t))
      <4>1. OfTarget(t) = <<a>> \o <<>>
        BY <2>2, <3>2 DEF RemoveCall
      <4>2. <<>> \in Seq(R)
        OBVIOUS
      <4> HIDE DEF R, OfTarget
      <4> QED BY <4>1, <4>2
    <3> QED BY <3>1, <3>2
  <2> HIDE DEF OfTarget, R
  <2>5. <<a>> \in Seq(R) /\ <<a>> \o b \in Seq(R)
    OBVIOUS
  <2>6. ToSet(<<a>> \o b) = ToSet(<<a>>) \cup ToSet(b)
    <3>0. PICK S : S = R
      OBVIOUS
    <3>1. PICK u \in Seq(S), v \in Seq(S) : u = <<a>> /\ v = b
      BY <2>5, <3>0
    <3>2. ToSet(u \o v) = ToSet(u) \cup ToSet(v)
      BY ToSetConcat
    <3> QED BY <3>1, <3>2
  <2>7. ToSet(<<a>>) = {a}
    BY DEF ToSet
  <2> QED BY <2>2, <2>4, <2>5, <2>6, <2>7 DEF R
<1> HIDE DEF OfTarget
<1>8. f \in [DOMAIN ep.targets -> Seq([call : {"remove"}, key : Key, text : Datum])]
  <2>1. \A k \in DOMAIN ep.targets : ep.targets[k] \in Target
    BY <1>3
  <2> QED BY <1>7, <2>1, Zenon
<1>9. c \in ToSet(f[j])
    BY <1>3, <1>4, <1>5, <1>7
<1> HIDE DEF f
<1>10. c \in ToSet(FlattenSeq(f))
  <2>1. PICK R : R = [call : {"remove"}, key : Key, text : Datum]
    OBVIOUS
  <2>2. f \in [DOMAIN ep.targets -> Seq(R)]
    BY <1>8, <2>1
  <2> QED BY <1>3, <1>4, <1>9, <2>2, FlattenSeqKeeps
<1>11. removeEndpointRecord(ep, ptr) = FlattenSeq(f)
    BY DEF removeEndpointRecord, ForEach, f, OfTarget
<1>12. removed \in [DOMAIN eps -> Seq(C)]
  <2>1. ASSUME NEW k \in DOMAIN eps
        PROVE  removeEndpointRecord(eps[k], ptr) \in Seq(RemoveCalls(o))
    <3>1. eps[k] \in Endpoints /\ eps[k] \in ToSet(EndpointsOf(KindOf[o], s))
      BY <1>1 DEF ToSet
    <3>2. eps[k].type \in Type => eps[k].name \in NamesOf(o)
      BY <3>1, OwnName
    <3> QED BY <3>1, <3>2, RemovedCalls
  <2> QED BY <1>6, <2>1
<1>13. c \in ToSet(removed[i])
    BY <1>2, <1>10, <1>11
<1> HIDE DEF removed
<1>14. c \in ToSet(FlattenSeq(removed))
    BY <1>1, <1>2, <1>12, <1>13, FlattenSeqKeeps
<1>15. Removals(o, s) = ToSet(FlattenSeq(removed))
    BY <1>1 DEF Removals, processEndpoints, ForEach, removed
<1> QED BY <1>5, <1>14, <1>15

LEMMA RecognisedIsKnown ==
    ASSUME NEW o \in Object, NEW recs, Orderly(recs), NEW x \in Pairs(recs),
           x[1] \in KeysEver(o), Recognisable(o, x[2])
    PROVE  Known(o, x)
<1>1. PICK key \in Key, rr \in Record :
          x = <<key, rr>> /\ rr.name = key.name /\ rr.type = key.type
  <2>1. PICK key \in Key : \E rr \in ToSet(recs[key]) : x = <<key, rr>>
    BY InPairs
  <2>2. PICK rr \in ToSet(recs[key]) : x = <<key, rr>>
    BY <2>1
  <2>3. recs[key] \in Seq(Record)
    BY DEF Orderly
  <2>4. rr \in Record
    BY <2>3 DEF ToSet
  <2> QED BY <2>2, <2>4 DEF Orderly
<1>2. x[1] = key /\ x[2] = rr
    BY <1>1
<1>3. PICK s \in SpecsOf[o] : \E ep \in ToSet(EndpointsOf(KindOf[o], s)) :
          \E text \in ToSet(ep.targets) :
              CreateRecord(ep.name, ep.type, ep.ttl, text) = rr /\ recordMatches(rr, text)
    BY <1>2 DEF Recognisable
<1>4. PICK ep \in ToSet(EndpointsOf(KindOf[o], s)) :
          \E text \in ToSet(ep.targets) :
              CreateRecord(ep.name, ep.type, ep.ttl, text) = rr /\ recordMatches(rr, text)
    BY <1>3
<1>5. PICK text \in ToSet(ep.targets) :
          CreateRecord(ep.name, ep.type, ep.ttl, text) = rr /\ recordMatches(rr, text)
    BY <1>4
<1>6. rr.name = ep.name /\ rr.type = ep.type
  <2>1. rr # None
    BY NameAssumption
  <2>2. PICK data : rr = [name |-> ep.name, type |-> ep.type, ttl |-> ep.ttl, data |-> data]
    BY <1>5, <2>1 DEF CreateRecord
  <2> QED BY <2>2
<1>7. key = KeyOf(ep.name, ep.type)
  <2>1. PICK t \in SpecsOf[o] : key \in KeysOf(o, t)
    BY <1>2 DEF KeysEver
  <2>2. PICK e : key = KeyOf(e.name, e.type)
    BY <2>1 DEF KeysOf
  <2>3. key.name = e.name /\ key.type = e.type
    BY <2>2 DEF KeyOf
  <2> QED BY <1>1, <1>6, <2>2, <2>3
<1>8. ep.type \in Type
    BY <1>6 DEF Record
<1>9. PICK c : c = [call |-> "remove", key |-> KeyOf(ep.name, ep.type), text |-> text]
    OBVIOUS
<1>10. c \in Removals(o, s)
    BY <1>8, <1>9, RemovalMade
<1>11. Finds(c, x)
    BY <1>2, <1>5, <1>7, <1>9 DEF Finds
<1> QED BY <1>10, <1>11 DEF Known

(* What others are meant to have is not filed under the keys of o.         *)
LEMMA OthersElsewhere ==
    ASSUME Apart, NEW o \in Object, NEW u \in Object, u # o, NEW s \in SpecsOf[u],
           NEW x \in Meant(u, s)
    PROVE  x[1] \notin KeysEver(o)
<1>1. <<>> \in Seq(Zone)
    OBVIOUS
<1>2. Additions(u, s) \in Seq(AddCalls)
    BY <1>1, EventCalls
<1>3. PICK c \in AddCalls : x = <<c.key, c.rr>>
    BY <1>2 DEF Meant, Additions, ToSet
<1>4. x[1] = c.key /\ x[2] = c.rr /\ c.rr.name = c.key.name
    BY <1>3 DEF AddCalls
<1>5. ASSUME x[1] \in KeysEver(o)
      PROVE  x[2].name \in NamesOf(o)
    BY <1>4, <1>5 DEF KeysEver, NamesOf
<1>6. ~OwnedBy(o, x[2])
    BY DEF Apart
<1> QED BY <1>5, <1>6 DEF OwnedBy

LEMMA RemoveTakes ==
    ASSUME NEW recs, Orderly(recs), NEW key \in Key, NEW text, NEW x \in Pairs(recs),
           x[1] = key, recordMatches(x[2], text), x \in Pairs(RemoveRecord(recs, key, text))
    PROVE  \E y \in Pairs(recs) : y[1] = key /\ recordMatches(y[2], text) /\ y # x
<1>1. PICK set \in Seq(Record) : set = recs[key]
    BY DEF Orderly
<1> DEFINE match == {i \in DOMAIN set : recordMatches(set[i], text)}
           first == CHOOSE i \in match : \A j \in match : i <= j
<1>2. x = <<key, x[2]>> /\ x[2] \in ToSet(set)
  <2>1. PICK k \in Key : \E rr \in ToSet(recs[k]) : x = <<k, rr>>
    BY InPairs
  <2>2. PICK rr \in ToSet(recs[k]) : x = <<k, rr>>
    BY <2>1
  <2>3. x[1] = k /\ x[2] = rr
    BY <2>2
  <2> QED BY <1>1, <2>2, <2>3
<1>3. match # {}
    BY <1>2 DEF ToSet
<1>4. match \in SUBSET Nat
    OBVIOUS
<1>5. PICK m : m = match
    OBVIOUS
<1>6. \E i \in m : \A j \in m : ~ (j < i)
    BY <1>3, <1>4, <1>5, LeastElement
<1>7. \E i \in match : \A j \in match : i <= j
    BY <1>4, <1>5, <1>6
<1>8. first \in match
    BY <1>7
<1>9. PICK i \in DOMAIN set : i = first /\ recordMatches(set[i], text)
    BY <1>8
<1>10. RemoveRecord(recs, key, text) = [recs EXCEPT ![key] = Dropped(set, i)]
    BY <1>1, <1>3, <1>9 DEF RemoveRecord, Dropped
<1> HIDE DEF match, first
<1>11. PICK t : t = Dropped(set, i)
    OBVIOUS
<1>12. IsInjective(set)
    BY <1>1 DEF Orderly
<1>13. ToSet(t) = ToSet(set) \ {set[i]}
    BY <1>11, <1>12, DroppedIs
<1>14. PICK new : new = RemoveRecord(recs, key, text)
    OBVIOUS
<1>15. new[key] = t
    BY <1>10, <1>11, <1>14 DEF Orderly
<1>16. x[2] \in ToSet(t)
  <2>1. PICK k \in Key : \E rr \in ToSet(new[k]) : x = <<k, rr>>
    BY <1>14, InPairs
  <2>2. PICK rr \in ToSet(new[k]) : x = <<k, rr>>
    BY <2>1
  <2>3. x[1] = k /\ x[2] = rr
    BY <2>2
  <2> QED BY <1>15, <2>2, <2>3
<1>17. PICK y : y = <<key, set[i]>>
    OBVIOUS
<1>18. y \in Pairs(recs)
  <2>1. set[i] \in ToSet(recs[key])
    BY <1>1 DEF ToSet
  <2> QED BY <1>17, <2>1, InPairs
<1>19. y[1] = key /\ y[2] = set[i] /\ y # x
    BY <1>13, <1>16, <1>17
<1> QED BY <1>9, <1>18, <1>19

LEMMA RemoveAllTakes ==
    ASSUME NEW recs, Orderly(recs), NEW key \in Key, NEW x \in Pairs(RemoveAllRecords(recs, key))
    PROVE  x[1] # key
<1>1. PICK new : new = RemoveAllRecords(recs, key)
    OBVIOUS
<1>2. new[key] = <<>>
    BY <1>1 DEF RemoveAllRecords, Orderly
<1>3. PICK k \in Key : \E rr \in ToSet(new[k]) : x = <<k, rr>>
    BY <1>1, InPairs
<1>4. PICK rr \in ToSet(new[k]) : x = <<k, rr>>
    BY <1>3
<1>5. ToSet(<<>>) = {}
    BY DEF ToSet
<1>6. x[1] = k
    BY <1>4
<1> QED BY <1>2, <1>4, <1>5, <1>6

(* Of the records o's deletions would find, recs holds those that belong   *)
(* to the content c, and others only if a call that is left clears them.   *)
(* While a deletion goes on, the records are those of the deleted content. *)
Belongs(o, c, x) == c # None /\ x \in Meant(o, c)

AddsOf(o, c, calls) ==
    \A i \in DOMAIN calls : calls[i].call = "add" => Belongs(o, c, <<calls[i].key, calls[i].rr>>)

Strays(o, c, recs) == {x \in Pairs(recs) : Known(o, x) /\ ~Belongs(o, c, x)}

Deleting(o, recs, calls) ==
    \E s \in SpecsOf[o] : ToSet(calls) \subseteq Removals(o, s) /\ Strays(o, s, recs) = {}

Swept(o, c, recs, calls) ==
    /\ AddsOf(o, c, calls)
    /\ \A x \in Strays(o, c, recs) : \E i \in DOMAIN calls : Clears(calls[i], x)
    /\ (\E i \in DOMAIN calls : calls[i].call = "remove") => Deleting(o, recs, calls)

LEMMA SweptElsewhere ==
    ASSUME Apart, NEW o \in Object, NEW u \in Object, u # o, NEW c, NEW recs, Orderly(recs),
           NEW calls, Swept(o, c, recs, calls), NEW d \in CallsOf(u),
           d.call = "add" => \E s \in SpecsOf[u] : <<d.key, d.rr>> \in Meant(u, s)
    PROVE  Swept(o, c, Run(recs, d), calls)
<1>1. PICK new : new = Run(recs, d)
    OBVIOUS
<1>2. \A x \in Pairs(new) : Known(o, x) => x \in Pairs(recs)
  <2>1. CASE d \in AddCalls
    <3>1. d.call = "add" /\ Pairs(new) = Pairs(recs) \cup {<<d.key, d.rr>>}
      BY <1>1, <2>1, AddRuns, CallKinds
    <3>2. PICK s \in SpecsOf[u] : <<d.key, d.rr>> \in Meant(u, s)
      BY <3>1
    <3>3. PICK y : y = <<d.key, d.rr>>
      OBVIOUS
    <3>4. ~Known(o, y)
      BY <3>2, <3>3, OthersElsewhere DEF Known
    <3> QED BY <3>1, <3>3, <3>4
  <2>2. CASE d \in RemoveCalls(u)
    <3>1. Shrinks(recs, new, u)
      BY <1>1, <2>2, RemoveRuns
    <3>2. Pairs(new) \subseteq Pairs(recs)
      BY <3>1, ShrunkRecords
    <3> QED BY <3>2
  <2> QED BY <2>1, <2>2 DEF CallsOf
<1>3. \A s : Strays(o, s, new) \subseteq Strays(o, s, recs)
    BY <1>2 DEF Strays
<1>4. Deleting(o, recs, calls) => Deleting(o, new, calls)
    BY <1>3 DEF Deleting
<1>5. Swept(o, c, new, calls)
    BY <1>3, <1>4 DEF Swept
<1> QED BY <1>1, <1>5

(* A call that clears a stray really does: what else it might find belongs *)
(* to the same content, and so is the same.                                *)
LEMMA SweptStays ==
    ASSUME NEW o \in Object, Unmistakable(o), NEW c, NEW recs, Orderly(recs),
           NEW calls \in Seq(CallsOf(o)), calls # <<>>, Swept(o, c, recs, calls)
    PROVE  Swept(o, c, Run(recs, Head(calls)), Tail(calls))
<1>1. PICK d \in CallsOf(o) : d = Head(calls)
    OBVIOUS
<1>2. PICK left : left = Tail(calls)
    OBVIOUS
<1>3. PICK new : new = Run(recs, d)
    OBVIOUS
<1>4. /\ 1 \in DOMAIN calls /\ calls[1] = d
      /\ \A i \in DOMAIN left : i + 1 \in DOMAIN calls /\ left[i] = calls[i + 1]
      /\ \A i \in DOMAIN calls : i # 1 => i - 1 \in DOMAIN left /\ left[i - 1] = calls[i]
    BY <1>1, <1>2, SMTT(30)
<1>5. ToSet(left) \subseteq ToSet(calls) /\ d \in ToSet(calls)
    BY <1>4 DEF ToSet
<1>6. AddsOf(o, c, left)
    BY <1>4 DEF Swept, AddsOf
<1>7. ASSUME NEW s, d.call = "add" => Belongs(o, s, <<d.key, d.rr>>)
      PROVE  Strays(o, s, new) \subseteq Strays(o, s, recs)
  <2>1. CASE d \in AddCalls
    <3>1. d.call = "add" /\ Pairs(new) = Pairs(recs) \cup {<<d.key, d.rr>>}
      BY <1>3, <2>1, AddRuns, CallKinds
    <3> QED BY <1>7, <3>1 DEF Strays
  <2>2. CASE d \in RemoveCalls(o)
    <3>1. Shrinks(recs, new, o)
      BY <1>3, <2>2, RemoveRuns
    <3>2. Pairs(new) \subseteq Pairs(recs)
      BY <3>1, ShrunkRecords
    <3> QED BY <3>2 DEF Strays
  <2> QED BY <2>1, <2>2 DEF CallsOf
<1>8. d.call = "add" => Belongs(o, c, <<d.key, d.rr>>)
    BY <1>4 DEF Swept, AddsOf
<1>9. ASSUME NEW x \in Strays(o, c, new)
      PROVE  \E i \in DOMAIN left : Clears(left[i], x)
  <2>1. x \in Strays(o, c, recs) /\ x \in Pairs(recs) /\ x \in Pairs(new) /\ Known(o, x)
    BY <1>7, <1>8, <1>9 DEF Strays
  <2>2. PICK i \in DOMAIN calls : Clears(calls[i], x)
    BY <2>1 DEF Swept
  <2>3. CASE i # 1
    BY <1>4, <2>2, <2>3
  <2>4. CASE i = 1
    <3>1. Clears(d, x)
      BY <1>4, <2>2, <2>4
    <3>2. CASE d.call = "removeall"
      <4>1. x[1] = d.key
        BY <3>1, <3>2 DEF Clears, Finds
      <4>2. d.key \in Key
        BY <3>2 DEF CallsOf, AddCalls, RemoveCalls
      <4>3. new = RemoveAllRecords(recs, d.key)
        BY <1>3, <3>2 DEF Run
      <4>4. PICK key \in Key : key = d.key
        BY <4>2
      <4>5. x[1] # key
        BY <2>1, <4>3, <4>4, RemoveAllTakes
      <4> QED BY <4>1, <4>4, <4>5
    <3>3. CASE d.call = "remove"
      <4>0. PICK key \in Key : d.key = key
        BY <3>3 DEF CallsOf, AddCalls, RemoveCalls
      <4>1. PICK text : d.key = key /\ d.text = text
        BY <4>0
      <4>2. Finds(d, x) /\ x[1] = key /\ recordMatches(x[2], text)
        BY <3>1, <3>3, <4>1 DEF Clears, Finds
      <4>3. new = RemoveRecord(recs, key, text)
        BY <1>3, <3>3, <4>1 DEF Run
      <4>4. PICK y \in Pairs(recs) : y[1] = key /\ recordMatches(y[2], text) /\ y # x
        BY <2>1, <4>2, <4>3, RemoveTakes
      <4>5. Finds(d, y)
        BY <3>3, <4>1, <4>4 DEF Finds
      <4>6. PICK s \in SpecsOf[o] : ToSet(calls) \subseteq Removals(o, s) /\ Strays(o, s, recs) = {}
        BY <1>4, <3>3 DEF Swept, Deleting
      <4>7. d \in Removals(o, s)
        BY <1>5, <4>6
      <4>8. Known(o, y)
        BY <2>1, <4>2, <4>4, <4>5, <4>7 DEF Known
      <4>9. x \in Meant(o, s) /\ y \in Meant(o, s)
        BY <2>1, <4>4, <4>6, <4>8 DEF Strays, Belongs
      <4>10. x = y
        BY <4>2, <4>5, <4>7, <4>9 DEF Unmistakable
      <4> QED BY <4>4, <4>10
    <3> QED BY <3>1, <3>2, <3>3 DEF Clears, Finds
  <2> QED BY <2>3, <2>4
<1>10. ASSUME NEW i \in DOMAIN left, left[i].call = "remove"
       PROVE  Deleting(o, new, left)
  <2>1. \E j \in DOMAIN calls : calls[j].call = "remove"
    BY <1>4, <1>10
  <2>2. PICK s \in SpecsOf[o] : ToSet(calls) \subseteq Removals(o, s) /\ Strays(o, s, recs) = {}
    BY <2>1 DEF Swept, Deleting
  <2>3. d.call # "add"
    <3>1. d \in Removals(o, s)
      BY <1>5, <2>2
    <3>2. <<>> \in Seq(Zone)
      OBVIOUS
    <3>3. PICK calls2 \in Seq(RemoveCalls(o)) : Removals(o, s) = ToSet(calls2)
      BY <3>2, EventCalls DEF Removals
    <3>4. d \in RemoveCalls(o)
      BY <3>1, <3>3 DEF ToSet
    <3> QED BY <3>4, CallKinds
  <2>4. Strays(o, s, new) = {}
    BY <1>7, <2>2, <2>3
  <2> QED BY <1>5, <2>2, <2>4 DEF Deleting
<1>11. Swept(o, c, new, left)
    BY <1>6, <1>9, <1>10 DEF Swept
<1> QED BY <1>1, <1>2, <1>3, <1>11

(* What a modification clears before it adds.                              *)
LEMMA ModificationClears ==
    ASSUME NEW o \in Object, NEW s \in SpecsOf[o], NEW zones \in Seq(Zone)
    PROVE  \E clear \in Seq(RemoveCalls(o)) :
               /\ processEndpoints(EndpointsOf(KindOf[o], s), s.ptr, "Modified", zones)
                     = clear \o Additions(o, s)
               /\ \A c \in ToSet(clear) : c.call \in {"removeall", "removeptr"}
               /\ \A key \in KeysOf(o, s) : [call |-> "removeall", key |-> key] \in ToSet(clear)
<1>0. PICK eps \in Seq(Endpoints) : eps = EndpointsOf(KindOf[o], s)
    BY EndpointsType, ObjectAssumption
<1>1. PICK ptr : eps = EndpointsOf(KindOf[o], s) /\ ptr = s.ptr
    BY <1>0
<1>2. PICK C : C = {c \in RemoveCalls(o) : c.call \in {"removeall", "removeptr"}}
    OBVIOUS
<1> DEFINE cleared == [i \in DOMAIN eps |-> clearEndpoint(eps[i], ptr, zones)]
<1>3. ASSUME NEW i \in DOMAIN eps
      PROVE  clearEndpoint(eps[i], ptr, zones) \in Seq(C)
  <2>1. eps[i] \in Endpoints /\ eps[i] \in ToSet(EndpointsOf(KindOf[o], s))
    BY <1>1 DEF ToSet
  <2>2. eps[i].type \in Type => eps[i].name \in NamesOf(o)
    BY <2>1, OwnName
  <2>3. clearEndpoint(eps[i], ptr, zones) \in Seq(RemoveCalls(o))
    BY <2>1, <2>2, ClearedCalls
  <2>4. PICK calls \in Seq(RemoveCalls(o)) : calls = clearEndpoint(eps[i], ptr, zones)
    BY <2>3
  <2>5. CASE eps[i].type \in Type
    <3>1. \A c \in ToSet(calls) : c.call \in {"removeall", "removeptr"}
      BY <2>1, <2>4, <2>5, ClearsAll
    <3>2. \A j \in DOMAIN calls : calls[j] \in C
      BY <1>2, <3>1 DEF ToSet
    <3>3. calls \in Seq(C)
      BY <3>2
    <3> QED BY <2>4, <3>3
  <2>6. CASE eps[i].type \notin Type
    BY <2>6 DEF clearEndpoint
  <2> QED BY <2>5, <2>6
<1>4. cleared \in [DOMAIN eps -> Seq(C)]
    BY <1>3
<1>5. /\ processEndpoints(eps, ptr, "Modified", zones) = FlattenSeq(cleared) \o Additions(o, s)
    BY <1>1 DEF Additions, processEndpoints, ForEach
<1>6. \A i \in DOMAIN eps : cleared[i] = clearEndpoint(eps[i], ptr, zones)
    OBVIOUS
<1> HIDE DEF cleared
<1>7. PICK clear \in Seq(C) : clear = FlattenSeq(cleared)
    BY <1>1, <1>4, FlattenFunctionType
<1>8. clear \in Seq(RemoveCalls(o))
    BY <1>2
<1>9. \A c \in ToSet(clear) : c.call \in {"removeall", "removeptr"}
  <2>1. \A c \in C : c.call \in {"removeall", "removeptr"}
    BY <1>2
  <2> QED BY <2>1 DEF ToSet
<1>10. ASSUME NEW key \in KeysOf(o, s)
       PROVE  [call |-> "removeall", key |-> key] \in ToSet(clear)
  <2>1. PICK ep \in ToSet(EndpointsOf(KindOf[o], s)) :
            ep.type \in Type /\ key = KeyOf(ep.name, ep.type)
    BY DEF KeysOf
  <2>2. PICK i \in DOMAIN eps : eps[i] = ep
    BY <1>1, <2>1 DEF ToSet
  <2>3. eps[i] \in Endpoints
    OBVIOUS
  <2>4. PICK c : c = [call |-> "removeall", key |-> key]
    OBVIOUS
  <2>5. c \in ToSet(cleared[i])
    BY <1>6, <2>1, <2>2, <2>3, <2>4, ClearsAll
  <2>6. c \in ToSet(FlattenSeq(cleared))
    BY <1>1, <1>4, <2>5, FlattenSeqKeeps
  <2> QED BY <1>7, <2>4, <2>6
<1> QED BY <1>1, <1>5, <1>7, <1>8, <1>9, <1>10

LEMMA AdditionsBelong ==
    ASSUME NEW o \in Object, NEW s \in SpecsOf[o]
    PROVE  /\ Additions(o, s) \in Seq(AddCalls)
           /\ \A c \in ToSet(Additions(o, s)) : c.call = "add" /\ Belongs(o, s, <<c.key, c.rr>>)
<1>1. <<>> \in Seq(Zone)
    OBVIOUS
<1>2. Additions(o, s) \in Seq(AddCalls)
    BY <1>1, EventCalls
<1>3. \A c \in ToSet(Additions(o, s)) : c \in AddCalls
    BY <1>2 DEF ToSet
<1>4. s # None
    BY ObjectAssumption
<1> QED BY <1>2, <1>3, <1>4, CallKinds DEF Belongs, Meant, Additions

(* Every event leaves what belongs to the content it tells of, once its    *)
(* calls are made.                                                         *)
LEMMA SweptAtOnce ==
    ASSUME NEW o \in Object, Steady(o), Unmistakable(o), NEW s \in SpecsOf[o],
           NEW zones \in Seq(Zone), NEW event \in {"Added", "Modified", "Deleted"},
           NEW c, NEW recs, Swept(o, c, recs, <<>>), Follows(event, s, c),
           NEW calls, calls = processEndpoints(EndpointsOf(KindOf[o], s), s.ptr, event, zones)
    PROVE  Swept(o, IF event = "Deleted" THEN None ELSE s, recs, calls)
<1>1. Strays(o, c, recs) = {}
  <2>1. DOMAIN <<>> = {}
    OBVIOUS
  <2> QED BY <2>1 DEF Swept
<1>2. /\ Additions(o, s) \in Seq(AddCalls)
      /\ \A d \in ToSet(Additions(o, s)) : d.call = "add" /\ Belongs(o, s, <<d.key, d.rr>>)
    BY AdditionsBelong
<1>3. \A i \in DOMAIN calls : calls[i] \in ToSet(calls)
    BY DEF ToSet
<1>4. \A d \in ToSet(calls) : \E i \in DOMAIN calls : calls[i] = d
    BY DEF ToSet
<1>5. CASE event = "Deleted"
  <2>1. s = c /\ ToSet(calls) = Removals(o, s)
    BY <1>5 DEF Follows, Removals, processEndpoints
  <2>2. processEndpoints(EndpointsOf(KindOf[o], s), s.ptr, "Deleted", zones) \in Seq(RemoveCalls(o))
    BY EventCalls
  <2>3. \A d \in ToSet(calls) : d.call # "add"
    <3>1. \A d \in ToSet(calls) : d \in RemoveCalls(o)
      BY <1>5, <2>2 DEF ToSet
    <3> QED BY <3>1, CallKinds
  <2>4. AddsOf(o, None, calls)
    BY <1>3, <2>3 DEF AddsOf
  <2>5. ASSUME NEW x \in Strays(o, None, recs)
        PROVE  \E i \in DOMAIN calls : Clears(calls[i], x)
    <3>1. x \in Meant(o, s) /\ Known(o, x)
      BY <1>1, <2>1 DEF Strays, Belongs
    <3>2. \E d \in Removals(o, s) : Finds(d, x)
      BY <3>1 DEF Known, Unmistakable
    <3> QED BY <1>4, <2>1, <3>2 DEF Clears
  <2>6. Deleting(o, recs, calls)
    BY <1>1, <2>1 DEF Deleting
  <2> QED BY <1>5, <2>4, <2>5, <2>6 DEF Swept
<1>6. CASE event = "Added"
  <2>1. c = None /\ calls = Additions(o, s)
    <3>1. processEndpoints(EndpointsOf(KindOf[o], s), s.ptr, "Added", zones) = Additions(o, s)
      BY EventCalls
    <3> QED BY <1>6, <3>1 DEF Follows
  <2>2. \A i \in DOMAIN calls : calls[i].call = "add" /\ Belongs(o, s, <<calls[i].key, calls[i].rr>>)
    BY <1>2, <1>3, <2>1
  <2>3. Strays(o, s, recs) = {}
    BY <1>1, <2>1 DEF Strays, Belongs
  <2> QED BY <1>6, <2>2, <2>3 DEF Swept, AddsOf
<1>7. CASE event = "Modified"
  <2>1. PICK clear \in Seq(RemoveCalls(o)) :
            /\ calls = clear \o Additions(o, s)
            /\ \A d \in ToSet(clear) : d.call \in {"removeall", "removeptr"}
            /\ \A key \in KeysOf(o, s) : [call |-> "removeall", key |-> key] \in ToSet(clear)
    BY <1>7, ModificationClears
  <2>2. ToSet(calls) = ToSet(clear) \cup ToSet(Additions(o, s))
    <3>1. PICK All : All = CallsOf(o)
      OBVIOUS
    <3>2. AddCalls \subseteq All /\ RemoveCalls(o) \subseteq All
      BY <3>1 DEF CallsOf
    <3>3. PICK a \in Seq(All), b \in Seq(All) : a = clear /\ b = Additions(o, s)
      BY <1>2, <3>2
    <3>4. ToSet(a \o b) = ToSet(a) \cup ToSet(b)
      BY ToSetConcat
    <3> QED BY <2>1, <3>3, <3>4
  <2>3. AddsOf(o, s, calls) /\ \A i \in DOMAIN calls : calls[i].call # "remove"
    BY <1>2, <1>3, <2>1, <2>2 DEF AddsOf
  <2>4. ASSUME NEW x \in Strays(o, s, recs)
        PROVE  \E i \in DOMAIN calls : Clears(calls[i], x)
    <3>1. x[1] \in KeysOf(o, s)
      BY DEF Strays, Known, KeysEver, Steady
    <3>2. PICK d : d = [call |-> "removeall", key |-> x[1]]
      OBVIOUS
    <3>3. d \in ToSet(calls)
      BY <2>1, <2>2, <3>1, <3>2
    <3>4. Clears(d, x)
      BY <3>2 DEF Clears
    <3> QED BY <1>4, <3>3, <3>4
  <2> QED BY <1>7, <2>3, <2>4 DEF Swept
<1> QED BY <1>5, <1>6, <1>7

(* The events of o in q follow one another, and the first follows c.       *)
Precedes(q, i, j, o) ==
    i < j /\ q[i].object = o /\ \A l \in DOMAIN q : i < l /\ l < j => q[l].object # o

FirstOf(q, j, o) == \A i \in DOMAIN q : i < j => q[i].object # o

InOrder(q, o, c) ==
    \A j \in DOMAIN q : q[j].object = o =>
        \/ FirstOf(q, j, o) /\ Follows(q[j].event, q[j].content, c)
        \/ \E i \in DOMAIN q :
              Precedes(q, i, j, o) /\ Follows(q[j].event, q[j].content, Told(q[i]))

LEMMA LastExists ==
    ASSUME NEW q \in Seq(Event), NEW o, \E i \in DOMAIN q : q[i].object = o
    PROVE  \E i \in DOMAIN q : LastOf(q, i, o)
<1>1. PICK n \in Nat : n = Len(q) /\ DOMAIN q = 1 .. n
    OBVIOUS
<1> DEFINE T == {m \in Nat : n - m \in DOMAIN q /\ q[n - m].object = o}
<1>2. T # {}
  <2>1. PICK i \in DOMAIN q : q[i].object = o
    OBVIOUS
  <2>2. n - i \in Nat /\ n - (n - i) = i
    BY <1>1
  <2> QED BY <2>1, <2>2
<1>3. T \in SUBSET Nat
    OBVIOUS
<1>4. PICK U : U = T
    OBVIOUS
<1>5. PICK m \in U : \A y \in U : ~ (y < m)
    BY <1>2, <1>3, <1>4, LeastElement
<1>6. m \in Nat /\ n - m \in DOMAIN q /\ q[n - m].object = o
    BY <1>4, <1>5
<1>7. ASSUME NEW j \in DOMAIN q, j > n - m
      PROVE  q[j].object # o
  <2>1. n - j \in Nat /\ n - (n - j) = j /\ n - j < m
    BY <1>1, <1>6, <1>7
  <2>2. n - j \notin U
    BY <1>5, <2>1
  <2> QED BY <1>4, <2>1, <2>2
<1> QED BY <1>6, <1>7 DEF LastOf

LEMMA OrderAppend ==
    ASSUME NEW q \in Seq(Event), NEW o, NEW c, InOrder(q, o, c), NEW e \in Event,
           e.object = o =>
              \/ (\A i \in DOMAIN q : q[i].object # o) /\ Follows(e.event, e.content, c)
              \/ \E i \in DOMAIN q : LastOf(q, i, o) /\ Follows(e.event, e.content, Told(q[i]))
    PROVE  InOrder(Append(q, e), o, c)
<1>1. PICK n \in Nat : n = Len(q) /\ DOMAIN q = 1 .. n
    OBVIOUS
<1>2. PICK new \in Seq(Event) : new = Append(q, e)
  <2>1. Append(q, e) \in Seq(Event)
    OBVIOUS
  <2> QED BY <2>1
<1>3. DOMAIN new = 1 .. n + 1 /\ new[n + 1] = e /\ \A i \in 1 .. n : new[i] = q[i]
    BY <1>1, <1>2
<1>4. ASSUME NEW j \in DOMAIN new, new[j].object = o
      PROVE  \/ FirstOf(new, j, o) /\ Follows(new[j].event, new[j].content, c)
             \/ \E i \in DOMAIN new :
                   Precedes(new, i, j, o) /\ Follows(new[j].event, new[j].content, Told(new[i]))
  <2>1. CASE j \in 1 .. n
    <3>1. j \in DOMAIN q /\ q[j] = new[j]
      BY <1>1, <1>3, <2>1
    <3>2. CASE FirstOf(q, j, o) /\ Follows(q[j].event, q[j].content, c)
      <4>1. \A i \in DOMAIN new : i < j => i \in DOMAIN q /\ new[i] = q[i]
        BY <1>1, <1>3, <2>1
      <4>2. FirstOf(new, j, o)
        BY <3>2, <4>1 DEF FirstOf
      <4> QED BY <3>1, <3>2, <4>2
    <3>3. CASE \E i \in DOMAIN q :
                  Precedes(q, i, j, o) /\ Follows(q[j].event, q[j].content, Told(q[i]))
      <4>1. PICK i \in DOMAIN q :
                Precedes(q, i, j, o) /\ Follows(q[j].event, q[j].content, Told(q[i]))
        BY <3>3
      <4>2. i \in DOMAIN new /\ new[i] = q[i]
        BY <1>1, <1>3
      <4>3. \A l \in DOMAIN new : l < j => l \in DOMAIN q /\ new[l] = q[l]
        BY <1>1, <1>3, <2>1
      <4>4. Precedes(new, i, j, o)
        BY <4>1, <4>2, <4>3 DEF Precedes
      <4> QED BY <3>1, <4>1, <4>2, <4>4
    <3> QED BY <1>4, <3>1, <3>2, <3>3 DEF InOrder
  <2>2. CASE j = n + 1
    <3>1. new[j] = e
      BY <1>3, <2>2
    <3>2. \A i \in DOMAIN new : i < j => i \in DOMAIN q /\ new[i] = q[i]
      BY <1>1, <1>3, <2>2
    <3>3. CASE (\A i \in DOMAIN q : q[i].object # o) /\ Follows(e.event, e.content, c)
      BY <3>1, <3>2, <3>3 DEF FirstOf
    <3>4. CASE \E i \in DOMAIN q : LastOf(q, i, o) /\ Follows(e.event, e.content, Told(q[i]))
      <4>1. PICK i \in DOMAIN q : LastOf(q, i, o) /\ Follows(e.event, e.content, Told(q[i]))
        BY <3>4
      <4>2. i \in DOMAIN new /\ new[i] = q[i] /\ i < j
        BY <1>1, <1>3, <2>2
      <4>3. \A l \in DOMAIN new : i < l /\ l < j => l > i
        BY <1>1, <1>3
      <4>4. Precedes(new, i, j, o)
        BY <3>2, <4>1, <4>2, <4>3 DEF Precedes, LastOf
      <4> QED BY <3>1, <4>1, <4>2, <4>4
    <3> QED BY <1>4, <3>1, <3>3, <3>4
  <2> QED BY <1>3, <2>1, <2>2
<1>5. InOrder(new, o, c)
    BY <1>4 DEF InOrder
<1> QED BY <1>2, <1>5

LEMMA OrderTail ==
    ASSUME NEW q \in Seq(Event), q # <<>>, NEW o, NEW c, InOrder(q, o, c)
    PROVE  /\ Head(q).object = o =>
                 /\ Follows(Head(q).event, Head(q).content, c)
                 /\ InOrder(Tail(q), o, Told(Head(q)))
           /\ Head(q).object # o => InOrder(Tail(q), o, c)
<1>1. PICK e : e = Head(q)
    OBVIOUS
<1>2. PICK left : left = Tail(q)
    OBVIOUS
<1>3. PICK n \in Nat : n = Len(q) /\ DOMAIN q = 1 .. n /\ n > 0
    OBVIOUS
<1>4. 1 \in DOMAIN q /\ q[1] = e /\ DOMAIN left = 1 .. n - 1 /\ \A i \in 1 .. n - 1 : left[i] = q[i + 1]
    BY <1>1, <1>2, <1>3
<1>5. ASSUME e.object = o
      PROVE  Follows(e.event, e.content, c)
  <2>1. \A i \in DOMAIN q : ~ (i < 1)
    BY <1>3
  <2>2. \A i \in DOMAIN q : ~Precedes(q, i, 1, o)
    BY <2>1 DEF Precedes
  <2> QED BY <1>4, <1>5, <2>2 DEF InOrder
<1>6. ASSUME NEW d, d = IF e.object = o THEN Told(e) ELSE c,
             NEW j \in DOMAIN left, left[j].object = o
      PROVE  \/ FirstOf(left, j, o) /\ Follows(left[j].event, left[j].content, d)
             \/ \E i \in DOMAIN left :
                   Precedes(left, i, j, o) /\ Follows(left[j].event, left[j].content, Told(left[i]))
  <2>1. j \in Nat /\ j + 1 \in DOMAIN q /\ left[j] = q[j + 1] /\ 1 < j + 1
    BY <1>3, <1>4
  <2>2. \A i \in DOMAIN left : i \in Nat /\ i + 1 \in DOMAIN q /\ left[i] = q[i + 1]
    BY <1>3, <1>4
  <2>3. ASSUME FirstOf(q, j + 1, o), Follows(q[j + 1].event, q[j + 1].content, c)
        PROVE  FirstOf(left, j, o) /\ Follows(left[j].event, left[j].content, d)
    <3>1. e.object # o
      BY <1>4, <2>1, <2>3 DEF FirstOf
    <3>2. \A i \in DOMAIN left : i < j => i + 1 < j + 1
      BY <2>1, <2>2
    <3>3. FirstOf(left, j, o)
      BY <2>2, <2>3, <3>2 DEF FirstOf
    <3> QED BY <1>6, <2>1, <2>3, <3>1, <3>3
  <2>4. ASSUME NEW i \in DOMAIN q, Precedes(q, i, j + 1, o),
               Follows(q[j + 1].event, q[j + 1].content, Told(q[i]))
        PROVE  \/ FirstOf(left, j, o) /\ Follows(left[j].event, left[j].content, d)
               \/ \E h \in DOMAIN left :
                     Precedes(left, h, j, o) /\ Follows(left[j].event, left[j].content, Told(left[h]))
    <3>1. CASE i = 1
      <4>1. e.object = o /\ d = Told(e)
        BY <1>4, <1>6, <2>4, <3>1 DEF Precedes
      <4>2. \A l \in DOMAIN left : l < j => i < l + 1 /\ l + 1 < j + 1
        <5>1. \A l \in DOMAIN left : l > 0
          BY <1>3, <1>4
        <5> QED BY <2>1, <2>2, <3>1, <5>1
      <4>3. FirstOf(left, j, o)
        BY <2>2, <2>4, <4>2 DEF FirstOf, Precedes
      <4> QED BY <1>4, <2>1, <2>4, <3>1, <4>1, <4>3
    <3>2. CASE i # 1
      <4>1. i - 1 \in DOMAIN left /\ (i - 1) + 1 = i
        BY <1>3, <1>4, <3>2
      <4>2. PICK h \in DOMAIN left : h + 1 = i
        BY <4>1
      <4>3. left[h] = q[i] /\ h < j
        BY <2>1, <2>2, <2>4, <4>2 DEF Precedes
      <4>4. \A l \in DOMAIN left : h < l /\ l < j => i < l + 1 /\ l + 1 < j + 1
        BY <2>1, <2>2, <4>2
      <4>5. Precedes(left, h, j, o)
        BY <2>2, <2>4, <4>3, <4>4 DEF Precedes
      <4> QED BY <2>1, <2>4, <4>3, <4>5
    <3> QED BY <3>1, <3>2
  <2> QED BY <1>6, <2>1, <2>3, <2>4 DEF InOrder
<1>7. ASSUME NEW d, d = IF e.object = o THEN Told(e) ELSE c
      PROVE  InOrder(left, o, d)
    BY <1>6, <1>7 DEF InOrder
<1>8. e.object = o => InOrder(left, o, Told(e))
    BY <1>7
<1>9. e.object # o => InOrder(left, o, c)
    BY <1>7
<1> QED BY <1>1, <1>2, <1>5, <1>8, <1>9

(* What is left to add is what some content of the object is meant to have.*)
AddsMeant ==
    \A k \in Kind : \A d \in ToSet(work[k].calls) : d.call = "add" =>
        \E s \in SpecsOf[work[k].object] : <<d.key, d.rr>> \in Meant(work[k].object, s)

(* The content whose calls are made or under way: the next event follows   *)
(* it, and if none waits it is what the API server has.                    *)
SweptFor(o) ==
    \E c \in SpecsOf[o] \cup {None} :
        /\ InOrder(queue[KindOf[o]], o, c)
        /\ ~Waits(o) => spec[o] = c
        /\ Swept(o, c, records, CallsFor(o))

AllSwept == \A o \in Object : Steady(o) => SweptFor(o)

LEMMA ReceivedExactly ==
    ASSUME IType, NEW k \in Kind, Receive(k)
    PROVE  \E o \in Object : \E e \in Event : \E s \in SpecsOf[o] : \E zones \in Seq(Zone) :
               /\ queue[k] \in Seq(Event) /\ queue[k] # <<>> /\ e = Head(queue[k])
               /\ e.object = o /\ e.content = s /\ KindOf[o] = k /\ work[k].calls = <<>>
               /\ queue' = [queue EXCEPT ![k] = Tail(queue[k])]
               /\ work' = [work EXCEPT ![k] = [object |-> o,
                      calls |-> processEndpoints(EndpointsOf(KindOf[o], s), s.ptr, e.event, zones)]]
               /\ UNCHANGED <<spec, records, changes>>
<1>1. PICK q \in Seq(Event) : q = queue[k]
    BY DEF IType
<1>2. q # <<>>
    BY <1>1 DEF Receive
<1>3. PICK e \in Event : e = Head(q)
    BY <1>2
<1>4. 1 \in DOMAIN q /\ e = q[1]
    BY <1>2, <1>3
<1>5. KindOf[e.object] = k
    BY <1>1, <1>4 DEF IType
<1>6. PICK o \in Object : e.object = o
    BY ToldType
<1>7. PICK s \in SpecsOf[o] : e.content = s
    BY <1>6, ToldType
<1>8. PICK zones \in SetToSeqs(Zone) :
          work' = [work EXCEPT ![k] = [object |-> e.object,
              calls |-> processEndpoints(EndpointsOf(k, e.content), e.content.ptr, e.event, zones)]]
    BY <1>1, <1>3 DEF Receive
<1>9. zones \in Seq(Zone)
    BY NameAssumption, SetToSeqsType
<1>10. work' = [work EXCEPT ![k] = [object |-> o,
           calls |-> processEndpoints(EndpointsOf(KindOf[o], s), s.ptr, e.event, zones)]]
    BY <1>5, <1>6, <1>7, <1>8
<1>11. /\ queue' = [queue EXCEPT ![k] = Tail(queue[k])] /\ work[k].calls = <<>>
       /\ UNCHANGED <<spec, records, changes>>
    BY DEF Receive
<1> QED BY <1>1, <1>2, <1>3, <1>5, <1>6, <1>7, <1>9, <1>10, <1>11

(* Whatever event an object's calls are made for.                          *)
LEMMA CallsMeant ==
    ASSUME NEW o \in Object, NEW s \in SpecsOf[o], NEW zones \in Seq(Zone),
           NEW event \in {"Added", "Modified", "Deleted"}, NEW calls,
           calls = processEndpoints(EndpointsOf(KindOf[o], s), s.ptr, event, zones),
           NEW d \in ToSet(calls), d.call = "add"
    PROVE  <<d.key, d.rr>> \in Meant(o, s)
<1>1. /\ Additions(o, s) \in Seq(AddCalls)
      /\ \A c \in ToSet(Additions(o, s)) : Belongs(o, s, <<c.key, c.rr>>)
    BY AdditionsBelong
<1>2. CASE event = "Added"
  <2>1. processEndpoints(EndpointsOf(KindOf[o], s), s.ptr, "Added", zones) = Additions(o, s)
    BY EventCalls
  <2> QED BY <1>1, <1>2, <2>1 DEF Belongs
<1>3. CASE event = "Deleted"
  <2>1. processEndpoints(EndpointsOf(KindOf[o], s), s.ptr, "Deleted", zones) \in Seq(RemoveCalls(o))
    BY EventCalls
  <2>2. d \in RemoveCalls(o)
    BY <1>3, <2>1 DEF ToSet
  <2> QED BY <2>2, CallKinds
<1>4. CASE event = "Modified"
  <2>1. PICK clear \in Seq(RemoveCalls(o)) : calls = clear \o Additions(o, s)
    BY <1>4, ModificationClears
  <2>2. PICK All : All = CallsOf(o)
    OBVIOUS
  <2>3. AddCalls \subseteq All /\ RemoveCalls(o) \subseteq All
    BY <2>2 DEF CallsOf
  <2>4. PICK a \in Seq(All), b \in Seq(All) : a = clear /\ b = Additions(o, s)
    BY <1>1, <2>3
  <2>5. ToSet(a \o b) = ToSet(a) \cup ToSet(b)
    BY ToSetConcat
  <2>6. d \notin ToSet(clear)
    <3>1. \A c \in ToSet(clear) : c \in RemoveCalls(o)
      BY DEF ToSet
    <3> QED BY <3>1, CallKinds
  <2> QED BY <1>1, <2>1, <2>4, <2>5, <2>6 DEF Belongs
<1> QED BY <1>2, <1>3, <1>4

LEMMA AddsMeantStep == IType /\ AddsMeant /\ [Next]_vars => AddsMeant'
<1> SUFFICES ASSUME IType, AddsMeant, [Next]_vars PROVE AddsMeant'
    OBVIOUS
<1>1. ASSUME work' = work
      PROVE  AddsMeant'
    BY <1>1 DEF AddsMeant, Meant
<1>2. ASSUME NEW o \in Object, Create(o) \/ Modify(o) \/ Delete(o)
      PROVE  AddsMeant'
    BY <1>1, <1>2 DEF Create, Modify, Delete, Emit
<1>3. ASSUME NEW k \in Kind, Receive(k)
      PROVE  AddsMeant'
  <2>1. PICK o \in Object : \E e \in Event : \E s \in SpecsOf[o] : \E zones \in Seq(Zone) :
            work' = [work EXCEPT ![k] = [object |-> o,
                calls |-> processEndpoints(EndpointsOf(KindOf[o], s), s.ptr, e.event, zones)]]
    BY <1>3, ReceivedExactly
  <2>2. PICK e \in Event, s \in SpecsOf[o], zones \in Seq(Zone) :
            work' = [work EXCEPT ![k] = [object |-> o,
                calls |-> processEndpoints(EndpointsOf(KindOf[o], s), s.ptr, e.event, zones)]]
    BY <2>1
  <2>3. PICK calls, event :
            /\ calls = processEndpoints(EndpointsOf(KindOf[o], s), s.ptr, event, zones)
            /\ event = e.event
    OBVIOUS
  <2>4. event \in {"Added", "Modified", "Deleted"}
    BY <2>3 DEF Event
  <2>5. \A d \in ToSet(calls) : d.call = "add" => <<d.key, d.rr>> \in Meant(o, s)
    BY <2>3, <2>4, CallsMeant
  <2>6. /\ work'[k] = [object |-> o, calls |-> calls]
        /\ \A j \in Kind : j # k => work'[j] = work[j]
    BY <2>2, <2>3 DEF IType
  <2>7. ASSUME NEW j \in Kind, NEW d \in ToSet(work'[j].calls), d.call = "add"
        PROVE  \E t \in SpecsOf[work'[j].object] : <<d.key, d.rr>> \in Meant(work'[j].object, t)
    <3>1. CASE j = k
      BY <2>5, <2>6, <2>7, <3>1
    <3>2. CASE j # k
      BY <2>6, <2>7, <3>2 DEF AddsMeant
    <3> QED BY <3>1, <3>2
  <2> QED BY <2>7 DEF AddsMeant, Meant
<1>4. ASSUME NEW k \in Kind, CallCache(k)
      PROVE  AddsMeant'
  <2>1. PICK o \in Object : \E calls \in Seq(CallsOf(o)) :
            /\ work[k] = [object |-> o, calls |-> calls] /\ calls # <<>> /\ KindOf[o] = k
            /\ records' = Run(records, Head(calls))
            /\ work' = [work EXCEPT ![k] = [object |-> o, calls |-> Tail(calls)]]
            /\ UNCHANGED <<spec, queue, changes>>
    BY <1>4, Called
  <2>2. PICK calls \in Seq(CallsOf(o)) :
            /\ work[k] = [object |-> o, calls |-> calls] /\ calls # <<>>
            /\ work' = [work EXCEPT ![k] = [object |-> o, calls |-> Tail(calls)]]
    BY <2>1
  <2>3. PICK left : left = Tail(calls)
    OBVIOUS
  <2>4. \A d \in ToSet(left) : d \in ToSet(calls)
    <3>1. \A i \in DOMAIN left : i + 1 \in DOMAIN calls /\ left[i] = calls[i + 1]
      BY <2>2, <2>3
    <3> QED BY <3>1 DEF ToSet
  <2>5. /\ work'[k] = [object |-> o, calls |-> left]
        /\ \A j \in Kind : j # k => work'[j] = work[j]
    BY <2>2, <2>3 DEF IType
  <2>6. ASSUME NEW j \in Kind, NEW d \in ToSet(work'[j].calls), d.call = "add"
        PROVE  \E t \in SpecsOf[work'[j].object] : <<d.key, d.rr>> \in Meant(work'[j].object, t)
    <3>1. CASE j = k
      <4>1. work[k].object = o /\ work[k].calls = calls /\ d \in ToSet(calls)
        <5>1. work[k].object = o /\ work[k].calls = calls
          BY <2>2
        <5>2. work'[j].calls = left
          BY <2>5, <3>1
        <5>3. d \in ToSet(left)
          BY <2>6, <5>2, Zenon
        <5> QED BY <2>4, <5>1, <5>3
      <4>2. \E t \in SpecsOf[o] : <<d.key, d.rr>> \in Meant(o, t)
        BY <2>6, <4>1 DEF AddsMeant
      <4> QED BY <2>5, <3>1, <4>2
    <3>2. CASE j # k
      BY <2>5, <2>6, <3>2 DEF AddsMeant
    <3> QED BY <3>1, <3>2
  <2> QED BY <2>6 DEF AddsMeant, Meant
<1> QED BY <1>1, <1>2, <1>3, <1>4 DEF Next, vars

LEMMA SweptChange ==
    ASSUME IType, LastTells, NEW u \in Object, Changes(u), NEW o \in Object, SweptFor(o)
    PROVE  SweptFor(o)'
<1>1. PICK e \in Event :
          /\ e.object = u /\ Follows(e.event, e.content, spec[u])
          /\ spec' = [spec EXCEPT ![u] = Told(e)]
          /\ queue' = [queue EXCEPT ![KindOf[u]] = Append(@, e)]
          /\ UNCHANGED <<work, records>>
    BY DEF Changes
<1>2. PICK c \in SpecsOf[o] \cup {None} :
          /\ InOrder(queue[KindOf[o]], o, c)
          /\ ~Waits(o) => spec[o] = c
          /\ Swept(o, c, records, CallsFor(o))
    BY DEF SweptFor
<1>3. KindOf[o] \in Kind /\ KindOf[u] \in Kind
    BY ObjectAssumption
<1>4. PICK q \in Seq(Event) : q = queue[KindOf[o]]
    BY <1>3 DEF IType
<1>5. /\ queue'[KindOf[u]] = Append(queue[KindOf[u]], e)
      /\ \A k \in Kind : k # KindOf[u] => queue'[k] = queue[k]
    BY <1>1, <1>3 DEF IType
<1>6. records' = records /\ CallsFor(o)' = CallsFor(o)
    BY <1>1 DEF CallsFor
<1>7. o # u => spec'[o] = spec[o]
    BY <1>1 DEF IType
<1>8. InOrder(queue'[KindOf[o]], o, c) /\ (~Waits(o)' => spec'[o] = c)
  <2>1. CASE KindOf[o] # KindOf[u]
    <3>1. queue'[KindOf[o]] = queue[KindOf[o]] /\ o # u
      BY <1>3, <1>5, <2>1
    <3>2. ~Waits(o)' => ~Waits(o)
      BY <3>1 DEF Waits
    <3> QED BY <1>2, <1>7, <3>1, <3>2
  <2>2. CASE KindOf[o] = KindOf[u]
    <3>1. PICK new : new = Append(q, e)
      OBVIOUS
    <3>2. queue'[KindOf[o]] = new
      BY <1>4, <1>5, <2>2, <3>1
    <3>3. /\ \A i \in DOMAIN q : i \in DOMAIN new /\ new[i] = q[i]
          /\ \E i \in DOMAIN new : new[i] = e
      <4>1. Len(q) + 1 \in DOMAIN new /\ new[Len(q) + 1] = e
        BY <3>1
      <4>2. \A i \in DOMAIN q : i \in DOMAIN new /\ new[i] = q[i]
        BY <3>1
      <4> QED BY <4>1, <4>2
    <3>4. InOrder(q, o, c)
      BY <1>2, <1>4
    <3>5. CASE o # u
      <4>1. InOrder(new, o, c)
        BY <1>1, <3>1, <3>4, <3>5, OrderAppend
      <4>2. ~Waits(o)' => ~Waits(o)
        BY <1>4, <3>2, <3>3 DEF Waits
      <4> QED BY <1>2, <1>7, <3>2, <3>5, <4>1, <4>2
    <3>6. CASE o = u
      <4>1. CASE \A i \in DOMAIN q : q[i].object # o
        <5>1. spec[o] = c
          BY <1>2, <1>4, <4>1 DEF Waits
        <5>2. Follows(e.event, e.content, c)
          BY <1>1, <3>6, <5>1
        <5>3. InOrder(new, o, c)
          BY <3>1, <3>4, <4>1, <5>2, OrderAppend
        <5>4. Waits(o)'
          BY <1>1, <3>2, <3>3, <3>6 DEF Waits
        <5> QED BY <3>2, <5>3, <5>4
      <4>2. CASE \E i \in DOMAIN q : q[i].object = o
        <5>1. PICK i \in DOMAIN q : LastOf(q, i, o)
          BY <4>2, LastExists
        <5>2. spec[o] = Told(q[i])
          BY <1>4, <5>1 DEF LastTells
        <5>3. Follows(e.event, e.content, Told(q[i]))
          BY <1>1, <3>6, <5>2
        <5>4. InOrder(new, o, c)
          BY <3>1, <3>4, <5>1, <5>3, OrderAppend
        <5>5. Waits(o)'
          BY <1>1, <3>2, <3>3, <3>6 DEF Waits
        <5> QED BY <3>2, <5>4, <5>5
      <4> QED BY <4>1, <4>2
    <3> QED BY <3>5, <3>6
  <2> QED BY <2>1, <2>2
<1>9. Swept(o, c, records', CallsFor(o)')
    BY <1>2, <1>6
<1> QED BY <1>8, <1>9 DEF SweptFor

LEMMA SweptReceive ==
    ASSUME \A o \in Object : Unmistakable(o), IType, LastTells, NEW k \in Kind, Receive(k),
           NEW o \in Object, Steady(o), SweptFor(o)
    PROVE  SweptFor(o)'
<1>1. PICK u \in Object : \E e \in Event : \E s \in SpecsOf[u] : \E zones \in Seq(Zone) :
          /\ queue[k] \in Seq(Event) /\ queue[k] # <<>> /\ e = Head(queue[k])
          /\ e.object = u /\ e.content = s /\ KindOf[u] = k /\ work[k].calls = <<>>
          /\ queue' = [queue EXCEPT ![k] = Tail(queue[k])]
          /\ work' = [work EXCEPT ![k] = [object |-> u,
                 calls |-> processEndpoints(EndpointsOf(KindOf[u], s), s.ptr, e.event, zones)]]
          /\ UNCHANGED <<spec, records, changes>>
    BY ReceivedExactly
<1>2. PICK e \in Event, s \in SpecsOf[u], zones \in Seq(Zone) :
          /\ queue[k] \in Seq(Event) /\ queue[k] # <<>> /\ e = Head(queue[k])
          /\ e.object = u /\ e.content = s /\ KindOf[u] = k /\ work[k].calls = <<>>
          /\ queue' = [queue EXCEPT ![k] = Tail(queue[k])]
          /\ work' = [work EXCEPT ![k] = [object |-> u,
                 calls |-> processEndpoints(EndpointsOf(KindOf[u], s), s.ptr, e.event, zones)]]
          /\ UNCHANGED <<spec, records, changes>>
    BY <1>1
<1>3. PICK event, calls :
          /\ event = e.event
          /\ calls = processEndpoints(EndpointsOf(KindOf[u], s), s.ptr, event, zones)
    OBVIOUS
<1>4. event \in {"Added", "Modified", "Deleted"}
    BY <1>3 DEF Event
<1>5. PICK q \in Seq(Event) : q = queue[k] /\ q # <<>> /\ e = Head(q)
    BY <1>2
<1>6. PICK left : left = Tail(q)
    OBVIOUS
<1>7. queue'[k] = left /\ \A j \in Kind : j # k => queue'[j] = queue[j]
    BY <1>2, <1>5, <1>6 DEF IType
<1>8. /\ work'[k] = [object |-> u, calls |-> calls]
      /\ \A j \in Kind : j # k => work'[j] = work[j]
    BY <1>2, <1>3 DEF IType
<1>9. spec' = spec /\ records' = records
    BY <1>2
<1>10. PICK c \in SpecsOf[o] \cup {None} :
          /\ InOrder(queue[KindOf[o]], o, c)
          /\ ~Waits(o) => spec[o] = c
          /\ Swept(o, c, records, CallsFor(o))
    BY DEF SweptFor
<1>11. KindOf[o] \in Kind
    BY ObjectAssumption
<1>12. CASE KindOf[o] # k
  <2>1. /\ queue'[KindOf[o]] = queue[KindOf[o]]
        /\ work'[KindOf[o]] = work[KindOf[o]]
    BY <1>7, <1>8, <1>11, <1>12
  <2>2. (~Waits(o)' => ~Waits(o)) /\ CallsFor(o)' = CallsFor(o)
    BY <2>1 DEF Waits, CallsFor
  <2> QED BY <1>9, <1>10, <2>1, <2>2 DEF SweptFor
<1>13. CASE KindOf[o] = k /\ o # u
  <2>1. CallsFor(o) = <<>> /\ CallsFor(o)' = <<>>
    BY <1>2, <1>8, <1>13 DEF CallsFor
  <2>2. InOrder(left, o, c)
    <3>1. InOrder(q, o, c) /\ Head(q).object # o
      BY <1>2, <1>5, <1>10, <1>13
    <3> QED BY <1>5, <1>6, <3>1, OrderTail
  <2>3. ~Waits(o)' => ~Waits(o)
    <3>1. \A j \in DOMAIN q : j = 1 \/ (j - 1 \in DOMAIN left /\ left[j - 1] = q[j])
      BY <1>5, <1>6, SMTT(30)
    <3>2. q[1] = e
      BY <1>5
    <3>3. e.object # o
      BY <1>2, <1>13
    <3> QED BY <1>5, <1>7, <1>13, <3>1, <3>2, <3>3 DEF Waits
  <2>4. InOrder(queue'[KindOf[o]], o, c)
    BY <1>7, <1>13, <2>2
  <2>5. Swept(o, c, records', CallsFor(o)')
    BY <1>9, <1>10, <2>1
  <2> QED BY <1>9, <1>10, <2>3, <2>4, <2>5 DEF SweptFor
<1>14. CASE o = u
  <2>1. KindOf[o] = k /\ CallsFor(o) = <<>> /\ CallsFor(o)' = calls
    BY <1>2, <1>8, <1>14 DEF CallsFor
  <2>2. Follows(event, s, c) /\ InOrder(left, o, Told(e))
    <3>1. InOrder(q, o, c) /\ Head(q).object = o
      BY <1>2, <1>5, <1>10, <1>14
    <3> QED BY <1>2, <1>3, <1>5, <1>6, <3>1, OrderTail
  <2>3. PICK recs, d : recs = records /\ d = IF event = "Deleted" THEN None ELSE s
    OBVIOUS
  <2>4. d = Told(e) /\ d \in SpecsOf[o] \cup {None}
    BY <1>2, <1>3, <1>14, <2>3 DEF Told
  <2>5. Swept(o, d, recs, calls)
    <3>1. Swept(o, c, recs, <<>>)
      BY <1>10, <2>1, <2>3
    <3>2. /\ calls = processEndpoints(EndpointsOf(KindOf[o], s), s.ptr, event, zones)
          /\ s \in SpecsOf[o]
      BY <1>3, <1>14
    <3> QED BY <1>4, <2>2, <2>3, <3>1, <3>2, <1>14, SweptAtOnce
  <2>6. ~Waits(o)' => spec'[o] = d
    <3>1. ASSUME ~Waits(o)'
          PROVE  LastOf(q, 1, o)
      <4>1. \A j \in DOMAIN q : j > 1 => j - 1 \in DOMAIN left /\ left[j - 1] = q[j]
        BY <1>5, <1>6, SMTT(30)
      <4>2. q[1] = e
        BY <1>5
      <4>3. \A j \in DOMAIN q : j > 1 => q[j].object # o
        BY <1>7, <2>1, <3>1, <4>1 DEF Waits
      <4> QED BY <1>2, <1>14, <4>2, <4>3 DEF LastOf
    <3>2. 1 \in DOMAIN q /\ q[1] = e /\ q = queue[KindOf[o]]
      BY <1>5, <2>1
    <3>3. LastOf(q, 1, o) => spec[o] = Told(e)
      BY <3>2 DEF LastTells
    <3> QED BY <1>9, <2>4, <3>1, <3>3
  <2>7. InOrder(queue'[KindOf[o]], o, d)
    BY <1>7, <2>1, <2>2, <2>4
  <2>8. Swept(o, d, records', CallsFor(o)')
    BY <1>9, <2>1, <2>3, <2>5
  <2> QED BY <2>4, <2>6, <2>7, <2>8 DEF SweptFor
<1> QED BY <1>2, <1>12, <1>13, <1>14

LEMMA SweptCall ==
    ASSUME Apart, \A o \in Object : Unmistakable(o), IType, AddsMeant,
           NEW k \in Kind, CallCache(k), NEW o \in Object, SweptFor(o)
    PROVE  SweptFor(o)'
<1>1. PICK u \in Object : \E calls \in Seq(CallsOf(u)) :
          /\ work[k] = [object |-> u, calls |-> calls] /\ calls # <<>> /\ KindOf[u] = k
          /\ records' = Run(records, Head(calls))
          /\ work' = [work EXCEPT ![k] = [object |-> u, calls |-> Tail(calls)]]
          /\ UNCHANGED <<spec, queue, changes>>
    BY Called
<1>2. PICK calls \in Seq(CallsOf(u)) :
          /\ work[k] = [object |-> u, calls |-> calls] /\ calls # <<>> /\ KindOf[u] = k
          /\ records' = Run(records, Head(calls))
          /\ work' = [work EXCEPT ![k] = [object |-> u, calls |-> Tail(calls)]]
    BY <1>1
<1>3. PICK recs : recs = records /\ Orderly(recs)
    BY DEF IType
<1>4. PICK d \in CallsOf(u) : d = Head(calls)
    BY <1>2
<1>5. PICK left : left = Tail(calls)
    OBVIOUS
<1>6. /\ work'[k] = [object |-> u, calls |-> left]
      /\ \A j \in Kind : j # k => work'[j] = work[j]
    BY <1>2, <1>5 DEF IType
<1>7. spec' = spec /\ queue' = queue
    BY <1>1
<1>8. PICK c \in SpecsOf[o] \cup {None} :
          /\ InOrder(queue[KindOf[o]], o, c)
          /\ ~Waits(o) => spec[o] = c
          /\ Swept(o, c, records, CallsFor(o))
    BY DEF SweptFor
<1>9. Swept(o, c, records', CallsFor(o)')
  <2>1. CASE o = u
    <3>1. CallsFor(o) = calls /\ CallsFor(o)' = left
      BY <1>2, <1>6, <2>1 DEF CallsFor
    <3>2. Swept(o, c, recs, calls) /\ calls \in Seq(CallsOf(o))
      BY <1>3, <1>8, <2>1, <3>1
    <3>3. Swept(o, c, Run(recs, Head(calls)), Tail(calls))
      BY <1>2, <1>3, <3>2, SweptStays
    <3> QED BY <1>2, <1>3, <1>5, <3>1, <3>3
  <2>2. CASE o # u
    <3>1. CallsFor(o)' = CallsFor(o)
      <4>1. KindOf[o] \in Kind
        BY ObjectAssumption
      <4>2. CASE KindOf[o] = k
        BY <1>2, <1>6, <2>2, <4>2 DEF CallsFor
      <4>3. CASE KindOf[o] # k
        BY <1>6, <4>1, <4>3 DEF CallsFor
      <4> QED BY <4>2, <4>3
    <3>2. PICK rest : rest = CallsFor(o)
      OBVIOUS
    <3>3. d.call = "add" => \E s \in SpecsOf[u] : <<d.key, d.rr>> \in Meant(u, s)
      <4>1. work[k].object = u /\ work[k].calls = calls
        BY <1>2
      <4>2. d \in ToSet(calls)
        <5>1. 1 \in DOMAIN calls /\ calls[1] = d
          BY <1>2, <1>4
        <5> QED BY <5>1 DEF ToSet
      <4> QED BY <4>1, <4>2 DEF AddsMeant
    <3>4. Swept(o, c, recs, rest)
      BY <1>3, <1>8, <3>2
    <3>5. Swept(o, c, Run(recs, d), rest)
      BY <1>3, <2>2, <3>3, <3>4, SweptElsewhere
    <3> QED BY <1>2, <1>3, <1>4, <3>1, <3>2, <3>5
  <2> QED BY <2>1, <2>2
<1>10. InOrder(queue'[KindOf[o]], o, c) /\ (~Waits(o)' => spec'[o] = c)
    BY <1>7, <1>8 DEF Waits
<1> QED BY <1>9, <1>10 DEF SweptFor

LEMMA SweptStep ==
    ASSUME Apart, \A o \in Object : Unmistakable(o)
    PROVE  IType /\ LastTells /\ AddsMeant /\ AllSwept /\ [Next]_vars => AllSwept'
<1> SUFFICES ASSUME IType, LastTells, AddsMeant, AllSwept, [Next]_vars, NEW o \in Object, Steady(o)
             PROVE  SweptFor(o)'
    BY DEF AllSwept, Steady
<1>1. SweptFor(o)
    BY DEF AllSwept
<1>2. CASE UNCHANGED vars
  <2>1. spec' = spec /\ queue' = queue /\ work' = work /\ records' = records
    BY <1>2 DEF vars
  <2>2. CallsFor(o)' = CallsFor(o) /\ (Waits(o)' <=> Waits(o))
    BY <2>1 DEF CallsFor, Waits
  <2> QED BY <1>1, <2>1, <2>2 DEF SweptFor
<1>3. ASSUME NEW u \in Object, Create(u) \/ Modify(u) \/ Delete(u)
      PROVE  SweptFor(o)'
    BY <1>1, <1>3, ServerChanges, SweptChange
<1>4. ASSUME NEW k \in Kind, Receive(k)
      PROVE  SweptFor(o)'
    BY <1>1, <1>4, SweptReceive
<1>5. ASSUME NEW k \in Kind, CallCache(k)
      PROVE  SweptFor(o)'
    BY <1>1, <1>5, SweptCall
<1> QED BY <1>2, <1>3, <1>4, <1>5 DEF Next

(* An object that keeps its names and types leaves no record behind that   *)
(* recordMatches could find again, when its events are handled             *)
(* (removeEndpointRecord): if no object's records are another's, if a      *)
(* target is spelt the same whenever it occurs, and if it occurs with one  *)
(* TTL at a time.  Of an address that occurs as 192.0.2.1 with one TTL and *)
(* as ::ffff:192.0.2.1 with another, a deletion would leave a record.      *)
THEOREM OnlyLost ==
    ASSUME Apart, \A o \in Object : Unmistakable(o)
    PROVE  Spec => []OnlyKnownLeftovers
<1>1. Init => LastTells /\ AddsMeant /\ AllSwept
  <2> SUFFICES ASSUME Init PROVE LastTells /\ AddsMeant /\ AllSwept
    OBVIOUS
  <2>1. DOMAIN <<>> = {} /\ ToSet(<<>>) = {}
    BY DEF ToSet
  <2>2. LastTells
    BY ObjectAssumption DEF Init, LastTells
  <2>3. AddsMeant
    BY <2>1 DEF Init, AddsMeant
  <2>4. ASSUME NEW o \in Object
        PROVE  SweptFor(o)
    <3>1. KindOf[o] \in Kind
      BY ObjectAssumption
    <3>2. queue[KindOf[o]] = <<>> /\ CallsFor(o) = <<>> /\ spec[o] = None
      BY <3>1 DEF Init, CallsFor
    <3>3. InOrder(<<>>, o, None)
      BY <2>1 DEF InOrder
    <3>4. Pairs(records) = {}
      BY <2>1 DEF Init, Pairs
    <3>5. Swept(o, None, records, <<>>)
      BY <2>1, <3>4 DEF Swept, AddsOf, Strays
    <3> QED BY <3>2, <3>3, <3>5 DEF SweptFor
  <2> QED BY <2>2, <2>3, <2>4 DEF AllSwept
<1>2. IType /\ AllSwept => OnlyKnownLeftovers
  <2> SUFFICES ASSUME IType, AllSwept, NEW o \in Object, Settled(o), Steady(o),
                      NEW x \in Pairs(records), x[1] \in KeysEver(o),
                      spec[o] = None \/ x \notin Meant(o, spec[o]), Recognisable(o, x[2])
               PROVE  FALSE
    BY DEF OnlyKnownLeftovers, KeysEver
  <2>1. ~Waits(o)
    BY DEF Settled, Waits
  <2>2. CallsFor(o) = <<>>
    BY DEF Settled, CallsFor
  <2>3. Swept(o, spec[o], records, <<>>)
    BY <2>1, <2>2 DEF AllSwept, SweptFor
  <2>4. DOMAIN <<>> = {}
    OBVIOUS
  <2>5. Known(o, x)
    BY RecognisedIsKnown DEF IType
  <2>6. x \notin Strays(o, spec[o], records)
    BY <2>3, <2>4 DEF Swept
  <2> QED BY <2>5, <2>6 DEF Strays, Belongs
<1>3. IType /\ LastTells /\ AddsMeant /\ AllSwept /\ [Next]_vars
          => LastTells' /\ AddsMeant' /\ AllSwept'
    BY TellsStep, AddsMeantStep, SweptStep
<1> QED BY TypeAlways, <1>1, <1>2, <1>3, PTL DEF Spec
==============================================================================
