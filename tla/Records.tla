------------------------------- MODULE Records -------------------------------
(***************************************************************************)
(* DNS records: how they are made from the targets of an endpoint          *)
(* (internal/dns/builder.go), how a record to remove is recognised         *)
(* (cache.go) and which endpoints a Service or an Ingress stands for       *)
(* (plugin.go).                                                            *)
(*                                                                         *)
(* A target is a string.  What matters of it is what it parses as, which   *)
(* value it then has, and whether it is spelt as the value is printed:     *)
(* ::ffff:192.0.2.1 is an IPv4 address that prints as 192.0.2.1.           *)
(***************************************************************************)
EXTENDS Integers, SequencesExt

CONSTANTS
    Name,       \* normalised domain names, those of reverse lookups included
    Zone,       \* zones, "." for names outside all configured ones included
    ZoneOf,     \* ZoneOf[name]: getConfiguredZoneForDomain
    ReverseOf,  \* ReverseOf[value]: the reverse name of an address
    HostOf,     \* HostOf[value]: the host of an MX record
    None        \* no record

Type == {"A", "AAAA", "CNAME", "MX", "TXT", "SRV", "PTR", "NS", "SOA"}

ForEach(seq, Of(_)) == FlattenSeq([i \in DOMAIN seq |-> Of(seq[i])])
Kept(seq, Test(_))  == ForEach(seq, LAMBDA x : IF Test(x) THEN <<x>> ELSE <<>>)

Text(kind, value) == [kind |-> kind, value |-> value, canonical |-> TRUE]
Respelt(text)     == [text EXCEPT !.canonical = FALSE]
Parsed(text)      == [text EXCEPT !.canonical = TRUE]
Host(name)        == Text("host", name)

(* dns.Fqdn: a host may be spelt with or without its final dot.            *)
Dotted(text) == IF text.kind = "host" THEN Parsed(text) ELSE text

IsAddress(text) == text.kind \in {"v4", "v6"}

(* What a target may be, and a record.                                     *)
Target == {t \in [kind : STRING, value : STRING, canonical : BOOLEAN] :
              IsAddress(t) => t.value \in DOMAIN ReverseOf}
Datum  == Target \cup {Text("soa", n) : n \in Name} \cup {Host(n) : n \in Name}
Record == [name : Name, type : Type, ttl : Int, data : Datum]

ASSUME NameAssumption ==
    /\ IsFiniteSet(Zone) /\ ZoneOf \in [Name -> Zone]
    /\ \A value \in DOMAIN ReverseOf : ReverseOf[value] \in Name
    /\ None \notin Datum /\ None \notin Record

------------------------------------------------------------------------------
(* RecordBuilder.                                                          *)

(* The record data, once parsed, or None if it cannot be.  Any host name   *)
(* or text will do, and anything at all for a SOA.                         *)
DataOf(name, type, text) ==
    CASE type = "A"    -> IF text.kind = "v4"  THEN Parsed(text) ELSE None
      [] type = "AAAA" -> IF text.kind = "v6"  THEN Parsed(text) ELSE None
      [] type = "MX"   -> IF text.kind = "mx"  THEN Parsed(text) ELSE None
      [] type = "SRV"  -> IF text.kind = "srv" THEN Parsed(text) ELSE None
      [] type = "SOA"  -> IF text.kind = "soa" THEN Parsed(text) ELSE Text("soa", name)
      [] type = "TXT"  -> text
      [] OTHER         -> Dotted(text)

CreateRecord(name, type, ttl, text) ==
    LET data == DataOf(name, type, text)
    IN  IF data = None THEN None
        ELSE [name |-> name, type |-> type, ttl |-> ttl, data |-> data]

CreatePTRRecord(text, target, ttl) ==
    IF IsAddress(text) THEN CreateRecord(ReverseOf[text.value], "PTR", ttl, Host(target))
    ELSE None

(* Cache.recordMatches.  An address is compared as it prints, an MX record *)
(* by its host alone, and SRV and SOA records match nothing.               *)
recordMatches(rr, text) ==
    CASE rr.type \in {"A", "AAAA", "TXT"}    -> rr.data = text
      [] rr.type \in {"CNAME", "PTR", "NS"} -> rr.data = Dotted(text)
      [] rr.type = "MX"                     -> Host(HostOf[rr.data.value]) = Dotted(text)
      [] OTHER                              -> FALSE

------------------------------------------------------------------------------
(* Endpoints.  Each Kubernetes object stands for a sequence of them.       *)

Endpoint(name, type, targets, ttl) ==
    [name |-> name, type |-> type, targets |-> targets, ttl |-> ttl]

(* One per host and point of entry, for load balancers only; whatever the  *)
(* address is, the type is A.                                              *)
getEndpointsFromService(svc) ==
    LET EndpointOf(host, point) ==
            Endpoint(host, IF IsAddress(point) THEN "A" ELSE "CNAME", <<point>>, svc.ttl)
        OfHost(host) == [i \in DOMAIN svc.points |-> EndpointOf(host, svc.points[i])]
    IN  IF ~svc.loadBalancer THEN <<>> ELSE ForEach(svc.hosts, OfHost)

(* One per host and record type, the types in any order.  The hosts are    *)
(* those annotated, and those of the rules if another annotation asks for  *)
(* them, each of them once.                                                *)
getEndpointsFromIngress(ing) ==
    LET asked == ing.hosts \o (IF ing.fromRules THEN ing.ruleHosts ELSE <<>>)
        First(i) == asked[i] \notin {asked[j] : j \in 1 .. i - 1}
        addresses == Kept(ing.points, IsAddress)
        names     == Kept(ing.points, LAMBDA point : ~IsAddress(point))
        OfType(host, type, targets) ==
            IF targets = <<>> THEN <<>> ELSE <<Endpoint(host, type, targets, ing.ttl)>>
        OfHost(host) == OfType(host, "A", addresses) \o OfType(host, "CNAME", names)
    IN  FlattenSeq([i \in DOMAIN asked |-> IF First(i) THEN OfHost(asked[i]) ELSE <<>>])

(* What an object may hold.  A type no record can be made of is "other".   *)
Endpoints == [name : Name, type : Type \cup {"other"}, targets : Seq(Target), ttl : Int]

ContentOf(kind) ==
    CASE kind = "dnsendpoint" -> [endpoints : Seq(Endpoints), ptr : BOOLEAN]
      [] kind = "service" ->
            [loadBalancer : BOOLEAN, hosts : Seq(Name), points : Seq(Target), ttl : Int,
             ptr : BOOLEAN]
      [] kind = "ingress" ->
            [hosts : Seq(Name), fromRules : BOOLEAN, ruleHosts : Seq(Name),
             points : Seq(Target), ttl : Int, ptr : BOOLEAN]

EndpointsOf(kind, spec) ==
    CASE kind = "dnsendpoint" -> spec.endpoints
      [] kind = "service"     -> getEndpointsFromService(spec)
      [] kind = "ingress"     -> getEndpointsFromIngress(spec)
==============================================================================
