------------------------------ MODULE MCWatcher ------------------------------
(* Instances of Watcher for TLC. *)
EXTENDS Watcher

(* Two kinds, the first of which has an object that may fail to convert. *)
MCStartOrder == <<"dnsendpoint", "service">>
MCKindOf == [o \in Object |-> IF o \in {"e", "f"} THEN "dnsendpoint" ELSE "service"]

(* One watcher. *)
MCOneKind == <<"dnsendpoint">>
==============================================================================
