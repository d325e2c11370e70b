-------------------------------- MODULE Query --------------------------------
(***************************************************************************)
(* How a query is answered from the cache (ServeDNS and resolveCNAMETarget *)
(* in plugin.go, the lookups of internal/cache/cache.go), while watchers   *)
(* change the cache.                                                       *)
(*                                                                         *)
(* A name is the sequence of its labels, in lower case and from the left;  *)
(* the root is the empty sequence.  A lookup is one step, because once the *)
(* zone exists it keeps its read lock from the first name it tries to the  *)
(* last (module CacheLocks); the lookups of one query are separate steps.  *)
(*                                                                         *)
(* Where the zone is missing, GetRecords looks for wildcards without that  *)
(* lock: findWildcardRecords asks for the zone once more, and takes its    *)
(* lock anew for each wildcard.  What watchers do in this window, which    *)
(* closes once a zone is made, is left out.                                *)
(***************************************************************************)
EXTENDS Integers, SequencesExt, FiniteSetsExt

CONSTANTS
    Name,       \* the names that occur
    Zone,       \* the configured zones, except the root
    Pool,       \* the records watchers may put into the cache
    Question,   \* the questions asked, [name, type]
    MaxHops,    \* how many CNAME targets deep an answer goes (5 in ServeDNS)
    MaxChanges  \* bound: changes made to the cache

Root == <<>>

ASSUME ZoneAssumption  == Root \notin Zone
ASSUME NameAssumption  == Name \subseteq Seq(STRING) /\ \A q \in Question : q.name \in Name
ASSUME PoolAssumption  ==
    /\ IsFiniteSet(Pool)
    /\ \A rr \in Pool : rr.name \in Name /\ (rr.type = "CNAME" => rr.data \in Name)
ASSUME BoundAssumption == MaxHops \in Nat /\ MaxChanges \in Nat

VARIABLES
    cache,    \* the records in the cache, [zone, name, type, data]
    question, \* what is asked
    pc,       \* where the query is
    todo,     \* the CNAME targets left to resolve, with the hops left for each
    answer,   \* the records collected, [name, type, data]
    rcode,    \* the response code, "" until there is one
    seen,     \* the contents the cache has had since the query came
    changes   \* how much of MaxChanges is spent

query == <<question, pc, todo, answer, rcode>>
vars  == <<cache, query, seen, changes>>

------------------------------------------------------------------------------
(* Names.                                                                  *)

Star == "*"
IsWildcard(name) == name # Root /\ Head(name) = Star

(* name is zone, or lies below it.                                         *)
InZone(name, zone) ==
    LET above == Len(name) - Len(zone)
    IN  above >= 0 /\ SubSeq(name, above + 1, Len(name)) = zone

(* getConfiguredZoneForDomain: the longest configured zone of the name     *)
(* without a leading "*.", or the root.                                    *)
ZonesOf(name) ==
    {z \in Zone \cup {Root} : InZone(IF IsWildcard(name) THEN Tail(name) ELSE name, z)}

ZoneOf ==
    [name \in Name |-> CHOOSE z \in ZonesOf(name) : \A y \in ZonesOf(name) : Len(y) <= Len(z)]

(* The zone a record is kept in: that of its name, but a PTR record made   *)
(* for an address record goes to the zone of the latter (addEndpointRecord *)
(* and processEndpoints).                                                  *)
Declared(name, type, data) ==
    [zone |-> ZoneOf[name], name |-> name, type |-> type, data |-> data]
MadePTR(name, target) ==
    [zone |-> ZoneOf[target], name |-> name, type |-> "PTR", data |-> target]

------------------------------------------------------------------------------
(* Lookups.                                                                *)

Entry(name, zone, type) ==
    {rr \in cache : rr.zone = zone /\ rr.name = name /\ rr.type = type}

(* What is returned bears the name that was asked for.                     *)
As(name, rrs) ==
    SetToSeq({[name |-> name, type |-> rr.type, data |-> rr.data] : rr \in rrs})

(* The wildcards for a name, the most specific first, and those of them    *)
(* that have records of the type.                                          *)
WildcardsOf(name) == [i \in 1 .. Len(name) - 1 |-> <<Star>> \o SubSeq(name, i + 1, Len(name))]

Hits(name, zone, type) ==
    {i \in DOMAIN WildcardsOf(name) : Entry(WildcardsOf(name)[i], zone, type) # {}}

(* The first hit.  One variant returns records as they are stored, the     *)
(* other takes the last hit.                                               *)
findWildcardRecordsStored(name, zone, type) ==
    IF Hits(name, zone, type) = {} THEN <<>>
    ELSE LET wildcard == WildcardsOf(name)[Min(Hits(name, zone, type))]
         IN  As(wildcard, Entry(wildcard, zone, type))

findWildcardRecordsLast(name, zone, type) ==
    IF Hits(name, zone, type) = {} THEN <<>>
    ELSE As(name, Entry(WildcardsOf(name)[Max(Hits(name, zone, type))], zone, type))

findWildcardRecords(name, zone, type) ==
    IF Hits(name, zone, type) = {} THEN <<>>
    ELSE As(name, Entry(WildcardsOf(name)[Min(Hits(name, zone, type))], zone, type))

(* The variant gives wildcards no chance.                                  *)
GetRecordsExact(name, zone, type) == As(name, Entry(name, zone, type))

GetRecords(name, zone, type) ==
    IF Entry(name, zone, type) # {} THEN As(name, Entry(name, zone, type))
    ELSE findWildcardRecords(name, zone, type)

(* The variant asks for records of the type in question.                   *)
DomainExistsWithType(name, zone) == Entry(name, zone, question.type) # {}
DomainExists(name, zone) == \E rr \in cache : rr.zone = zone /\ rr.name = name

------------------------------------------------------------------------------
(* ServeDNS, up to the first answer.                                       *)

IsAddress(type) == type \in {"A", "AAAA"}
Goto(label) == pc' = label /\ UNCHANGED rcode
Still == UNCHANGED <<cache, question, seen, changes>>

(* Writing the response may fail.                                          *)
Respond(code)  == rcode' \in {code, "SERVFAIL"} /\ pc' = "done"
HandOn(code)   == rcode' = code /\ pc' = "done"

(* Transfers are refused: the transfer plugin takes those that are         *)
(* configured.  The SOA record of a zone does not come from the cache.     *)
Classify ==
    /\ pc = "ask" /\ Still /\ UNCHANGED todo
    /\ \/ question.type \in {"AXFR", "IXFR"} /\ HandOn("REFUSED") /\ UNCHANGED answer
       \/ /\ question.type = "SOA" /\ question.name \in Zone
          /\ answer' = <<[name |-> question.name, type |-> "SOA", data |-> Root]>>
          /\ Respond("NOERROR")
       \/ /\ question.type \notin {"AXFR", "IXFR"}
          /\ ~(question.type = "SOA" /\ question.name \in Zone)
          /\ Goto("records") /\ UNCHANGED answer

LookUpRecords ==
    /\ pc = "records" /\ Still /\ UNCHANGED todo
    /\ answer' = GetRecords(question.name, ZoneOf[question.name], question.type)
    /\ IF answer' # <<>> THEN Respond("NOERROR")
       ELSE Goto(IF IsAddress(question.type) THEN "cname" ELSE "none")

(* Each of the targets of the CNAME records found, with the hops left.     *)
Targets(rrs, hops) == [i \in DOMAIN rrs |-> [name |-> rrs[i].data, hops |-> hops]]

LookUpCNAME ==
    /\ pc = "cname" /\ Still
    /\ answer' = GetRecords(question.name, ZoneOf[question.name], "CNAME")
    /\ todo' = Targets(answer', MaxHops)
    /\ Goto(IF answer' # <<>> THEN "follow" ELSE "none")

------------------------------------------------------------------------------
(* resolveCNAMETarget, with the calls that are open on a stack.            *)

Target == Head(todo)

GiveUpTarget ==
    /\ pc = "follow" /\ Still /\ todo # <<>> /\ Target.hops = 0
    /\ todo' = Tail(todo)
    /\ UNCHANGED <<pc, answer, rcode>>

LookUpTarget ==
    /\ pc = "follow" /\ Still /\ todo # <<>> /\ Target.hops > 0
    /\ LET rrs == GetRecords(Target.name, ZoneOf[Target.name], question.type)
       IN  /\ answer' = answer \o rrs
           /\ IF rrs # <<>> THEN todo' = Tail(todo) /\ UNCHANGED <<pc, rcode>>
              ELSE UNCHANGED todo /\ Goto("followcname")

(* The hops left for the targets of a target.  The variant counts twice.   *)
HopsByTwo(hops) == hops - 2
HopsLeft(hops)  == hops - 1

(* A variant that does not repeat a record, but does not count hops.       *)
LookUpTargetCNAMEUncounted ==
    /\ pc = "followcname" /\ Still
    /\ LET rrs == GetRecords(Target.name, ZoneOf[Target.name], "CNAME")
       IN  /\ answer' = answer \o SelectSeq(rrs, LAMBDA rr : ~Contains(answer, rr))
           /\ todo' = Targets(rrs, Target.hops) \o Tail(todo)
    /\ Goto("follow")

LookUpTargetCNAME ==
    /\ pc = "followcname" /\ Still
    /\ LET rrs == GetRecords(Target.name, ZoneOf[Target.name], "CNAME")
       IN  /\ answer' = answer \o rrs
           /\ todo' = Targets(rrs, HopsLeft(Target.hops)) \o Tail(todo)
    /\ Goto("follow")

Answer ==
    /\ pc = "follow" /\ Still /\ todo = <<>>
    /\ Respond("NOERROR")
    /\ UNCHANGED <<todo, answer>>

------------------------------------------------------------------------------
(* ServeDNS, when there are no records: names outside all zones are left   *)
(* to the next plugin.                                                     *)

NoRecords ==
    /\ pc = "none" /\ Still /\ UNCHANGED <<todo, answer>>
    /\ LET zone == ZoneOf[question.name] IN
       \/ zone = Root /\ HandOn("NEXT")
       \/ zone # Root /\ DomainExists(question.name, zone) /\ Respond("NODATA")
       \/ zone # Root /\ ~DomainExists(question.name, zone) /\ Respond("NXDOMAIN")

------------------------------------------------------------------------------
(* A watcher adds a record, removes one, or removes all of a name and a    *)
(* type (AddRecord, RemoveRecord, RemoveAllRecords in cache.go).           *)

Become(records) ==
    /\ changes < MaxChanges /\ changes' = changes + 1
    /\ cache' = records /\ seen' = seen \cup {records}
    /\ UNCHANGED query

AddRecord(rr)        == rr \notin cache /\ Become(cache \cup {rr})
RemoveRecord(rr)     == rr \in cache /\ Become(cache \ {rr})
RemoveAllRecords(rr) == rr \in cache /\ Become(cache \ Entry(rr.name, rr.zone, rr.type))

------------------------------------------------------------------------------

Init ==
    /\ cache \in SUBSET Pool /\ seen = {cache}
    /\ question \in Question
    /\ pc = "ask" /\ todo = <<>> /\ answer = <<>> /\ rcode = ""
    /\ changes = 0

Step ==
    \/ Classify \/ LookUpRecords \/ LookUpCNAME
    \/ GiveUpTarget \/ LookUpTarget \/ LookUpTargetCNAME \/ Answer
    \/ NoRecords

Next ==
    \/ Step
    \/ \E rr \in Pool : AddRecord(rr) \/ RemoveRecord(rr) \/ RemoveAllRecords(rr)

(* The goroutine of a query runs on.                                       *)
FairSpec == Init /\ [][Next]_vars /\ WF_vars(Step)

------------------------------------------------------------------------------
(* Properties.                                                             *)

Label == {"ask", "records", "cname", "follow", "followcname", "none", "done"}

TypeOK ==
    /\ cache \in SUBSET Pool /\ cache \in seen /\ question \in Question
    /\ pc \in Label
    /\ \A i \in DOMAIN todo : todo[i].hops \in 0 .. MaxHops
    /\ \A i \in DOMAIN answer : answer[i].type \in {question.type, "CNAME"}
    /\ rcode \in {"", "NOERROR", "NODATA", "NXDOMAIN", "REFUSED", "NEXT", "SERVFAIL"}
    /\ pc = "done" <=> rcode # ""
    /\ changes \in 0 .. MaxChanges

(* What the documentation of wildcards (RFC 1034) and ServeDNS amount to,  *)
(* for a cache that holds still: a record covers its own name, or what is  *)
(* below its wildcard, and the closest ones are the answer.                *)
Covers(owner, name) ==
    \/ owner = name
    \/ /\ IsWildcard(owner) /\ Len(owner) > 1
       /\ Len(name) >= Len(owner) /\ InZone(name, Tail(owner))

Closer(owner, other, name) == owner = name \/ (other # name /\ Len(owner) >= Len(other))

Answering(name, type) ==
    LET zone == ZoneOf[name]
        covering ==
            {rr \in cache : rr.zone = zone /\ rr.type = type /\ Covers(rr.name, name)}
    IN  {[name |-> name, type |-> type, data |-> rr.data] :
            rr \in {rr \in covering : \A other \in covering : Closer(rr.name, other.name, name)}}

(* A name leads to its own records or else to its CNAME records; names are *)
(* the names so many CNAME records away from the one in question.          *)
LeadsTo(name) ==
    LET rrs == Answering(name, question.type)
    IN  IF rrs = {} /\ IsAddress(question.type) THEN Answering(name, "CNAME") ELSE rrs

Defined ==
    LET names[n \in 0 .. MaxHops] ==
            IF n = 0 THEN {question.name}
            ELSE {rr.data : rr \in {rr \in UNION {LeadsTo(m) : m \in names[n - 1]} :
                                       IsAddress(question.type) /\ rr.type = "CNAME"}}
    IN  UNION {LeadsTo(m) : m \in UNION {names[n] : n \in 0 .. MaxHops}}

FromCache == rcode \in {"NOERROR", "NODATA", "NXDOMAIN", "NEXT"} /\ question.type # "SOA"

(* While nothing changes, the steps of ServeDNS arrive at just the records *)
(* of the closest names, and of the names as many CNAME records away as    *)
(* there are hops, whatever loops and branches there are.                  *)
AnswersAsDefined == FromCache /\ seen = {cache} => ToSet(answer) = Defined

(* However the cache changes in the middle, an answer hangs together:      *)
(* every record is of the name in question or of the target of a CNAME     *)
(* record before it.  A resolver would drop the rest.                      *)
AnswersHangTogether ==
    pc = "done" => \A i \in DOMAIN answer :
        \/ answer[i].name = question.name
        \/ \E j \in 1 .. i - 1 : answer[j].type = "CNAME" /\ answer[j].data = answer[i].name

(* The records that were there all the time.                               *)
Steady == {rr \in Pool : \A records \in seen : rr \in records}

Answers(rr) ==
    /\ rr.type = question.type \/ (IsAddress(question.type) /\ rr.type = "CNAME")
    /\ Covers(rr.name, question.name) /\ rr.zone = ZoneOf[question.name]

(* A query is not told that there is nothing when something was there all  *)
(* the time, nor that the name does not exist when it had a record all the *)
(* time, though it looks in several steps (ServeDNS).                      *)
PresentIsAnswered ==
    /\ FromCache /\ (\E rr \in Steady : Answers(rr)) => rcode = "NOERROR"
    /\ rcode = "NXDOMAIN" =>
          ~\E rr \in Steady : rr.name = question.name /\ rr.zone = ZoneOf[question.name]

(* Every query is answered, in loops of CNAME records too                  *)
(* (plugin.go:192 "max 5 hops to prevent infinite loops").                 *)
EveryQueryEnds == <>(pc = "done")

(* README.md:186: "When you query `192.168.1.100` for reverse DNS, it      *)
(* returns `app.example.com`", once the PTR record has been made.          *)
ReverseIsAnswered ==
    FromCache /\ question.type = "PTR" =>
        \A rr \in Steady : rr.type = "PTR" /\ rr.name = question.name =>
            [name |-> rr.name, type |-> "PTR", data |-> rr.data] \in ToSet(answer)
==============================================================================
