---------------------------- MODULE SerialLedger ----------------------------
(***************************************************************************)
(* What the plugin promises of the serials it keeps (saveZoneSerials and   *)
(* loadZoneSerials in plugin.go), apart from replicas, watchers, requests  *)
(* and their failures: a ledger in which serials only grow, and out of     *)
(* which alone they are announced.                                         *)
(***************************************************************************)
EXTENDS Integers

CONSTANTS
    Key,    \* the entries of the ledger
    Serial, \* serials, which are numbers
    None    \* no entry

VARIABLES
    stored,     \* the serials in the ledger
    announced   \* what is being announced: serials as they were stored once

ledger == <<stored, announced>>

Serials == [Key -> Serial \cup {None}]

NeverLess(old, new) ==
    \A k \in Key : old[k] # None => new[k] # None /\ old[k] <= new[k]

Init == stored \in Serials /\ announced = {}

(* Serials are stored, and possibly announced from now on.                 *)
Store ==
    \E serials \in Serials :
        /\ NeverLess(stored, serials)
        /\ stored' = serials
        /\ announced' \in {announced, announced \cup {serials}}

(* Announcements end, or are cut off.                                      *)
EndAnnouncements ==
    /\ announced' \subseteq announced
    /\ UNCHANGED stored

Next == Store \/ EndAnnouncements

Spec == Init /\ [][Next]_ledger
==============================================================================
