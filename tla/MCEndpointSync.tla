---------------------------- MODULE MCEndpointSync ----------------------------
(***************************************************************************)
(* Instances of EndpointSync for TLC: a forward zone and a reverse zone.   *)
(***************************************************************************)
EXTENDS EndpointSync

V4(i) == Text("v4", i)
V6(i) == Text("v6", i)

MCZoneOf    == [n \in Name |-> IF n \in {"1.r.", "2.r."} THEN "r." ELSE "x."]
MCReverseOf == ("1" :> "1.r.") @@ ("2" :> "2.r.")
MCHostOf    == ("10 m." :> "m.")

DNSEndpoint(endpoints, ptr) == [endpoints |-> endpoints, ptr |-> ptr]
Service(lb, hosts, points, ptr) ==
    [loadBalancer |-> lb, hosts |-> hosts, points |-> points, ttl |-> 300, ptr |-> ptr]
Ingress(hosts, ruleHosts, points) ==
    [hosts |-> hosts, fromRules |-> TRUE, ruleHosts |-> ruleHosts, points |-> points,
     ttl |-> 300, ptr |-> FALSE]

(* A DNSEndpoint with two endpoints of the same name and type, one target  *)
(* spelt twice; a Service whose address it shares; and an Ingress that has *)
(* both an address and a host name.                                        *)
MCKindOf ==
    [o \in Object |-> CASE o = "e" -> "dnsendpoint" [] o = "s" -> "service" [] o = "i" -> "ingress"]
MCSpecsOf ==
    [o \in Object |->
        CASE o = "e" ->
               {DNSEndpoint(<<Endpoint("a.x.", "A", <<V4("1"), Respelt(V4("1"))>>, 300),
                              Endpoint("a.x.", "A", <<V4("2")>>, 60)>>, TRUE),
                DNSEndpoint(<<Endpoint("a.x.", "A", <<V4("2"), V4("1")>>, 300)>>, TRUE)}
          [] o = "s" ->
               {Service(TRUE, <<"b.x.">>, <<V4("1")>>, TRUE),
                Service(TRUE, <<"b.x.">>, <<V4("2"), V4("1")>>, TRUE)}
          [] o = "i" ->
               {Ingress(<<"c.x.">>, <<"c.x.">>, <<V4("1"), Host("h.")>>)}]

(* One DNSEndpoint that asks for PTR records and has a record of a         *)
(* structured type.                                                        *)
MCMailSpecsOf ==
    [o \in Object |-> {DNSEndpoint(<<Endpoint("a.x.", "A", <<V4("1")>>, 300),
                                     Endpoint("b.x.", "MX", <<Text("mx", "10 m.")>>, 300)>>, TRUE)}]

(* What NothingMissing and OnlyKnownLeftovers hold under holds here.       *)
ASSUME ApartAssumption == Apart
ASSUME UnmistakableAssumption == \A o \in Object : Unmistakable(o)
==============================================================================
