------------------------------ MODULE CacheLocks ------------------------------
(***************************************************************************)
(* The locks of the record cache (internal/cache/cache.go) and the mutex   *)
(* of the serials (plugin.go), and the order in which calls take them.     *)
(*                                                                         *)
(* A call is the sequence of lock operations it performs; where it depends *)
(* on the records found, there is one sequence per outcome.  The locks are *)
(* Go's sync.RWMutex: a writer that waits keeps new readers out, and the   *)
(* readers it kept out all get in when it unlocks.                         *)
(***************************************************************************)
EXTENDS Integers, SequencesExt

CONSTANTS
    Zone,       \* zones of the cache, each with a mutex of its own
    Watcher,    \* goroutines that handle Kubernetes events
    Client,     \* goroutines that answer queries and transfers
    Gauge,      \* goroutines started with "go c.updateMetrics()"
    MaxLabels,  \* bound: labels of a queried name
    NoOne       \* the owner of a mutex nobody writes under

(* A process may stand for goroutines of several sorts, one at a time.     *)
Process == Watcher \cup Client \cup Gauge

(* c.mu and p.serialsMutex; a zone stands for its own mu.                  *)
Mutex == {"cache", "serials"} \cup Zone

ASSUME LockAssumption ==
    /\ {"cache", "serials"} \cap Zone = {}
    /\ NoOne \notin Process /\ MaxLabels \in Nat \ {0} /\ IsFiniteSet(Zone)

VARIABLES
    lock,   \* the state of each mutex
    todo    \* the lock operations each process has left in its call

vars == <<lock, todo>>

------------------------------------------------------------------------------
(* The calls.                                                              *)

RLock(m)   == <<[op |-> "RLock", mutex |-> m, call |-> ""]>>
RUnlock(m) == <<[op |-> "RUnlock", mutex |-> m, call |-> ""]>>
Lock(m)    == <<[op |-> "Lock", mutex |-> m, call |-> ""]>>
Unlock(m)  == <<[op |-> "Unlock", mutex |-> m, call |-> ""]>>

(* Sending what was found in the zone z, which no mutex is needed for.     *)
Send(z)    == <<[op |-> "Send", mutex |-> z, call |-> ""]>>

Read(m)  == RLock(m) \o RUnlock(m)
Write(m) == Lock(m) \o Unlock(m)
Repeat(n, ops) == FlattenSeq([i \in 1 .. n |-> ops])

(* Each of the zones there are, in whatever order the map yields them.     *)
EachZone(Call(_)) ==
    {FlattenSeq([i \in DOMAIN zones |-> Call(zones[i])]) :
        zones \in UNION {SetToSeqs(Z) : Z \in SUBSET Zone}}

(* The zone is made under c.mu, which is released before its own lock is   *)
(* taken.  The first variant holds on to c.mu; the second updates the      *)
(* metrics at once, and not in a goroutine of its own.                     *)
AddRecordNested(z) == {Lock("cache") \o Write(z) \o Unlock("cache")}
AddRecordMeasured(z) == {Write("cache") \o Lock(z) \o Read("cache") \o Read(z) \o Unlock(z)}
AddRecord(z) == {Write("cache") \o Write(z)}

(* RemoveRecord and RemoveAllRecords; DomainExists, GetZoneRecords and     *)
(* GetZoneSerial.  They look for the zone, which may not be there.         *)
RemoveRecord(z) == {Read("cache"), Read("cache") \o Write(z)}
ReadZone(z)     == {Read("cache"), Read("cache") \o Read(z)}

(* Transfer copies the records before it sends any.  The variant sends     *)
(* them as it goes through the zone.                                       *)
TransferInPlace(z) == {Read("cache"), Read("cache") \o RLock(z) \o Send(z) \o RUnlock(z)}
Transfer(z) == {Read("cache"), Read("cache") \o Read(z) \o Send(z)}

RemoveAllPTRRecordsForName == {Read("cache") \o each : each \in EachZone(Write)}
updateMetrics              == {Read("cache") \o each : each \in EachZone(Read)}

(* One attempt per label until a wildcard has records of the type.  The    *)
(* variant forgets to unlock when it returns them.                         *)
findWildcardRecordsLeaky(z) ==
    {Read("cache")} \cup
    {Read("cache") \o Repeat(n, Read(z)) \o RLock(z) : n \in 0 .. MaxLabels - 1}

findWildcardRecords(z) ==
    {Read("cache")} \cup {Read("cache") \o Repeat(n, Read(z)) : n \in 0 .. MaxLabels - 1}

(* The zone is missing; or the name has records of the type; or it has     *)
(* none, and the wildcards are tried before the deferred unlock.           *)
GetRecordsHit(z)  == {Read("cache") \o Read(z)}
GetRecordsMiss(z) ==
    {Read("cache") \o find : find \in findWildcardRecords(z)} \cup
    {Read("cache") \o RLock(z) \o find \o RUnlock(z) : find \in findWildcardRecords(z)}
GetRecords(z) == GetRecordsHit(z) \cup GetRecordsMiss(z)

(* processEndpoints and loadZoneSerials raise serials under the mutex;     *)
(* getNextSerial, getZoneSerial and saveZoneSerials read them.             *)
SetZoneSerial(z) == Write("cache") \o Write(z)
RaiseSerials     ==
    {Lock("serials") \o each \o Unlock("serials") : each \in EachZone(SetZoneSerial)}
ReadSerials      == {Read("serials")}

Named(name, calls) ==
    {[i \in DOMAIN ops |-> [ops[i] EXCEPT !.call = name]] : ops \in calls}
OfSomeZone(Calls(_)) == UNION {Calls(z) : z \in Zone}

WatcherCalls ==
    Named("AddRecord", OfSomeZone(AddRecord)) \cup
    Named("RemoveRecord", OfSomeZone(RemoveRecord)) \cup
    Named("RemoveAllPTRRecordsForName", RemoveAllPTRRecordsForName) \cup
    Named("RaiseSerials", RaiseSerials) \cup
    Named("ReadSerials", ReadSerials)

ClientCalls ==
    Named("GetRecords", OfSomeZone(GetRecords)) \cup
    Named("ReadZone", OfSomeZone(ReadZone)) \cup
    Named("Transfer", OfSomeZone(Transfer)) \cup
    Named("ReadSerials", ReadSerials)

CallsOf(p) ==
    (IF p \in Watcher THEN WatcherCalls ELSE {}) \cup
    (IF p \in Client THEN ClientCalls ELSE {}) \cup
    (IF p \in Gauge THEN Named("updateMetrics", updateMetrics) ELSE {})

------------------------------------------------------------------------------
(* sync.RWMutex.  owner is the writer that has announced itself; it is in  *)
(* once locked.  queued are the readers that came after it did.            *)

Free == [owner |-> NoOne, locked |-> FALSE, readers |-> [p \in Process |-> 0], queued |-> {}]

AtOp(p, op) == todo[p] # <<>> /\ Head(todo[p]).op = op
On(p)        == Head(todo[p]).mutex
Advance(P)   == todo' = [p \in Process |-> IF p \in P THEN Tail(todo[p]) ELSE todo[p]]
NoReaders(m) == \A p \in Process : lock[m].readers[p] = 0

StartRLock(p) ==
    /\ AtOp(p, "RLock") /\ p \notin lock[On(p)].queued
    /\ IF lock[On(p)].owner = NoOne
         THEN lock' = [lock EXCEPT ![On(p)].readers[p] = @ + 1] /\ Advance({p})
         ELSE lock' = [lock EXCEPT ![On(p)].queued = @ \cup {p}] /\ UNCHANGED todo

DoRUnlock(p) ==
    /\ AtOp(p, "RUnlock")
    /\ lock' = [lock EXCEPT ![On(p)].readers[p] = @ - 1]
    /\ Advance({p})

(* Lock waits for other writers first, and then for the readers.           *)
Announce(p) ==
    /\ AtOp(p, "Lock") /\ lock[On(p)].owner = NoOne
    /\ lock' = [lock EXCEPT ![On(p)].owner = p]
    /\ UNCHANGED todo

Acquire(p) ==
    /\ AtOp(p, "Lock") /\ lock[On(p)].owner = p /\ NoReaders(On(p))
    /\ lock' = [lock EXCEPT ![On(p)].locked = TRUE]
    /\ Advance({p})

DoUnlock(p) ==
    /\ AtOp(p, "Unlock")
    /\ LET next == lock[On(p)].queued
       IN  /\ lock' = [lock EXCEPT
                  ![On(p)].owner = NoOne, ![On(p)].locked = FALSE, ![On(p)].queued = {},
                  ![On(p)].readers = [q \in Process |-> IF q \in next THEN @[q] + 1 ELSE @[q]]]
           /\ Advance({p} \cup next)

(* The transfer plugin has received all there is from the channel.         *)
Receive(p) ==
    /\ AtOp(p, "Send")
    /\ Advance({p})
    /\ UNCHANGED lock

Call(p) ==
    /\ todo[p] = <<>>
    /\ \E ops \in CallsOf(p) : todo' = [todo EXCEPT ![p] = ops]
    /\ UNCHANGED lock

------------------------------------------------------------------------------

Init ==
    /\ lock = [m \in Mutex |-> Free]
    /\ todo = [p \in Process |-> <<>>]

Work(p) == StartRLock(p) \/ DoRUnlock(p) \/ Acquire(p) \/ DoUnlock(p)

Next == \E p \in Process : Call(p) \/ Announce(p) \/ Receive(p) \/ Work(p)

(* The scheduler runs every goroutine that can run.  A mutex goes to a     *)
(* writer that has waited long (Go's starvation mode), so announcing is    *)
(* strongly fair.  Nothing makes a goroutine begin another call, or the    *)
(* reader of a transfer go on reading.                                     *)
Fairness == \A p \in Process : WF_vars(Work(p)) /\ SF_vars(Announce(p))

Spec     == Init /\ [][Next]_vars
FairSpec == Spec /\ Fairness

------------------------------------------------------------------------------
(* Properties.                                                             *)

TypeOK ==
    /\ lock \in [Mutex -> [owner : Process \cup {NoOne}, locked : BOOLEAN,
                           readers : [Process -> 0 .. 2], queued : SUBSET Process]]
    /\ \A p \in Process : \A i \in DOMAIN todo[p] : todo[p][i].mutex \in Mutex

Busy(p)    == todo[p] # <<>>
Holds(p,m) == lock[m].readers[p] > 0 \/ lock[m].owner = p

(* Those p waits for, itself possibly among them.                          *)
WaitsFor(p) ==
    IF ~Busy(p) THEN {}
    ELSE LET m == lock[On(p)] IN
         CASE p \in m.queued -> {m.owner}
           [] AtOp(p, "Lock") /\ m.owner = p -> {q \in Process : m.readers[q] > 0}
           [] AtOp(p, "Lock") /\ m.owner \notin {p, NoOne} -> {m.owner}
           [] OTHER -> {}

(* Processes that wait for each other and for ever.                        *)
Deadlocked(P) == P # {} /\ \A p \in P : WaitsFor(p) \cap P # {}

(* A query asks for the read lock of a zone that it has already.           *)
TryingAgain(p) == AtOp(p, "RLock") /\ lock[On(p)].readers[p] > 0

(* A call that has returned holds nothing, whichever way it returned       *)
(* (every early return of cache.go).                                       *)
NothingHeldAfterReturn ==
    \A p \in Process : ~Busy(p) => \A m \in Mutex : ~Holds(p, m)

(* A transfer whose reader does not go on, or is gone, keeps nobody else   *)
(* waiting: its goroutine has given back all locks (plugin.go:337, where   *)
(* Transfer copies the records).                                           *)
StalledTransferHoldsNothing ==
    \A p \in Process : AtOp(p, "Send") => \A m \in Mutex : ~Holds(p, m)

(* The one way calls can wait for each other for ever: a query that missed *)
(* in a zone asks for the read lock of the zone again, while it has it     *)
(* (GetRecords, findWildcardRecords).  In particular updateMetrics, which  *)
(* runs in a goroutine "to avoid deadlock" (cache.go:81), is never to      *)
(* blame, nor are adding, removing, raising serials and transfers.         *)
OnlyWildcardsHang ==
    \A P \in SUBSET Process : Deadlocked(P) => \E p \in P : TryingAgain(p)

(* If no query ever does that, every call returns (all of cache.go), but   *)
(* for transfers that nobody reads (plugin.go:345).                        *)
ReturnsWithoutWildcards ==
    [](\A p \in Process : ~TryingAgain(p)) =>
        \A p \in Process : Busy(p) ~> ~Busy(p) \/ AtOp(p, "Send")

(* What cache_test.go:64 says of AddRecord: it "should not hang".          *)
AddRecordDoesNotHang ==
    \A P \in SUBSET Process : Deadlocked(P) => \A p \in P : Head(todo[p]).call # "AddRecord"
==============================================================================
