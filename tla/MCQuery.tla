------------------------------- MODULE MCQuery -------------------------------
(* Instances of Query for TLC. *)
EXTENDS Query

X == <<"x">>
A == <<"a", "x">>
B == <<"b", "x">>
C == <<"c", "s", "x">>
Subzone == <<"s", "x">>
D == <<"d", "c", "s", "x">>
E == <<"d", "x">>
Y == <<"y">>
Over(name) == <<Star>> \o name
ReverseName == <<"1", "arpa">>

MCName == {X, A, B, C, D, E, Y, ReverseName} \cup {Over(name) : name \in {X, Subzone, C}}

MCZone == {X, Subzone}

(* A name with an address and an alias, one with two aliases, a loop,      *)
(* wildcards of two lengths that overlap, a wildcard alias, and a zone     *)
(* within a zone.                                                          *)
MCPool == {
    Declared(A, "A", "1"),
    Declared(A, "CNAME", B),
    Declared(B, "CNAME", A),
    Declared(B, "CNAME", C),
    Declared(Over(Subzone), "A", "2"),
    Declared(Over(C), "A", "3"),
    Declared(Over(X), "CNAME", C)}

MCQuestion ==
    {[name |-> n, type |-> "A"] : n \in {A, B, C, D, E}} \cup
    {[name |-> A, type |-> "AAAA"], [name |-> A, type |-> "CNAME"],
     [name |-> X, type |-> "SOA"], [name |-> A, type |-> "SOA"], [name |-> X, type |-> "AXFR"],
     [name |-> Y, type |-> "A"]}

(* The example of the README: one zone, an address record, and the PTR     *)
(* record that is made for it.                                             *)
MCReverseZone == {X}
MCReversePool == {Declared(A, "A", "1"), MadePTR(ReverseName, A)}
MCReverseQuestion == {[name |-> ReverseName, type |-> "PTR"]}
==============================================================================
