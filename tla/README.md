# TLA+ specifications of coredns-externaldns

The plugin serves DNS out of memory.  Three watchers follow DNSEndpoint, Service
and Ingress objects through the Kubernetes API and keep records in a cache; CoreDNS
asks the plugin queries, and secondaries transfer whole zones from it.  Every zone
has a SOA serial, which the plugin raises when records change and keeps in a
ConfigMap, so that secondaries never see it go back after a restart.

The modules here model the parts of that program in which goroutines, API calls and
failures interleave.  TLC checks them on small instances; TLAPS proves every safety
property the passing runs check, and that the serials implement a ledger, for any
values of the constants: any number of replicas, watchers, zones, objects, records and
queries.  Liveness is checked by TLC alone.

## The system

| Part | Source | State | Operations |
| --- | --- | --- | --- |
| Zone serials | `plugin.go` 428-498, 760-965 | `zoneSerials`, `serialsResourceVersion` behind `serialsMutex`; the ConfigMap | choose, raise, save, load a serial; NOTIFY |
| Cache | `internal/cache/cache.go` | zones, each with records by name and type and a serial; `c.mu` and one lock per zone | add, remove, look up, copy a zone; metrics |
| Record builder | `internal/dns/builder.go` | none | a target becomes a record of a type, or nothing |
| Endpoint processing | `plugin.go` 363-665, 687-758 | none of its own | events become endpoints, endpoints become calls of the cache |
| Watchers | `internal/watcher/*.go` | a context and a watch session each | initial list, list and watch, restart, dispatch of events |
| Query path | `plugin.go` 134-265, 967-1046 | none of its own | zone matching, wildcards, CNAME chains, NODATA, NXDOMAIN, SOA |
| Zone transfer | `plugin.go` 329-361, 944-952 | a channel and a goroutine per transfer | AXFR, NOTIFY |
| Setup | `setup.go`, `cmd/` | the configuration | parse the Corefile, Start, OnStartup, OnShutdown |

How they interact:

- `Start` loads the serials and then starts the watchers one after the other.  Each
  lists its objects in the caller's goroutine and goes on in one of its own, so
  that up to three goroutines handle events at a time, each in order.
- An event chooses a serial (under the read lock of `serialsMutex`), edits the
  records call by call (each under the lock of one zone), raises the serials of its
  zones (under the write lock), and writes all serials to the ConfigMap with the
  resource version of the last load.  A conflict makes it load again.  Only a save
  that succeeds is followed by NOTIFY.
- Queries read the cache and the serials under the same locks; adding and removing
  start metrics goroutines that read the cache as well.
- `deploy/k8s-deployment.yaml` runs two replicas over one ConfigMap.

What is hard: serials chosen under one lock and applied under another; API calls
between critical sections that conflict, fail, or take effect although their sender
has given up; crashes between any two steps; several watchers that edit shared
entries of the cache; locks taken inside one another; events that no watch session
delivers.  `PROJECT.json` lists each of these hazards with its line.

What makes each part correct:

- **Zone serials**: a stored serial never decreases; secondaries are told only of
  serials that are stored; events never lower a serial.
- **Cache locks**: a call that returns holds no lock; calls do not wait for each
  other for ever.
- **Endpoint processing**: once an object's events are handled the cache has all its
  records, none twice, none of an object that is gone, and no watcher has removed
  what is not its own.
- **Watchers**: before the server answers, the handlers have been given all there is;
  within a session they are given every change, and never an older version of an
  object than before; a lost session is replaced, and `Stop` ends everything.
- **Query path**: the answer is the one the records of the closest names define, and
  a change in the middle of a query neither tears the answer apart nor makes it deny
  what was there all the time.
- **Zone transfer**: what a secondary copies is never older than the serial that made
  it ask, and every change reaches it in the end.

## Modules

### `ZoneSerials`

`zoneSerials`, `cacheSerials`, `resourceVersion` are the replica's memory,
`configMap` is the stored object with a number for its resource version (0: none).
`pc` and `job` are the program counters and local variables of the watch goroutines
and of the goroutine that runs `Start`; `abandoned` holds requests on the wire whose
sender has failed.  One step is one critical section of `serialsMutex` or one API call:

| Actions | Code |
| --- | --- |
| `Receive` | `OnAdd` … `processIngress`, with `generateSerial`, `getNextSerial`, `calculateResourceSerial` |
| `EditRecords`, `RaiseSerials` | `processEndpoints` |
| `SnapshotSerials`, `UpdateSucceeds`, `UpdateConflicts`, `UpdateFails`, `Notify` | `saveZoneSerials` |
| `LoadGet`, `LoadCreate`, `LoadGetAgain`, `LoadFails`, `LoadStore` | `loadZoneSerials`, at start and after a conflict |
| `StartReplica`, `OnStartup` | `setup`, `Start` |
| `Crash`, `LateUpdate` | the process dies; a request arrives after its sender gave up |

The API server compares the version of a request with the stored one and moves it on
when the data changes.  What a save returns is dropped, as in the code.

Serials are uint32: `MaxSerial` stands for 2^32 - 1, and addition wraps.  `Time` is
what the clock and creation timestamps may read.  Entries of the ConfigMap may be
missing or unparsable.

### `CacheLocks`

A call is the sequence of lock operations it performs, one per outcome where that
depends on the records; a process runs one call after another.  `lock` is a model of
Go's `sync.RWMutex`: a writer announces itself (`Announce`), after which new readers
queue, and gets in (`Acquire`) when the readers that were there have left; `DoUnlock`
lets the queued readers in.  Watchers write, clients query, gauges are the goroutines
started by `go c.updateMetrics()`.

`Transfer` copies the records of a zone and then sends them on a channel without a
buffer, one list after the other, which `Send` stands for.  The transfer plugin that
reads the channel may stop for ever, and the goroutine that sends with it: `Receive`
is an action without fairness.

### `Records` and `EndpointSync`

`Records` is the pure part: which targets make a record of a type, which record a
target finds again (`recordMatches`), and which endpoints a Service or an Ingress
stands for.  A target is what it parses as, its value, and whether it is spelt the way
the value prints.  `EndpointSync` is the running part: `spec` is what the API server
has, `queue` the events of each watch, `work` the calls of the cache a watcher has
left to make, `records` the cache.  `processEndpoints` gives the calls an event stands
for; `CallCache` makes one of them.  Calls are atomic: each edits one zone under that
zone's lock, which `CacheLocks` models.  `RemoveAllPTRRecordsForName` takes one zone
after the other and is one call per zone here.

`Target`, `Datum` and `Record` say what targets, record data and records are, and
`ContentOf` what an object of a kind may contain; names, addresses, TTLs and the
number of endpoints are not bounded by them.

Two hypotheses about the contents of objects are named.  `Apart`: no record one object
is meant to have is owned by another, by its name or by the name its PTR record points
to.  Without it a watcher may take away what another has added (hazards of
`processEndpoints`).  `Unmistakable`: a target is spelt the same in all contents of its
object, and has one TTL in each of them.  Without it a deletion may call for a record
that is there under another spelling, or find one of two with the same data.  Both are
assumptions of `MCEndpointSync`, so that TLC checks that the instance satisfies them.

The two endpoints an Ingress with addresses and names has come out of a Go map; they
concern different types, so their order is fixed here.  Serials are not part of this
module.  Watch sessions are not either: every event is delivered, in order (which
events are is the matter of `Watcher`).

### `Watcher`

The three watchers are the same code over different types, so there is one set of
actions for each kind of object in `StartOrder`.  `history` is what the API server
knows: the changes of the objects of a kind in the order of their resource versions.
`pc` is where a watcher is; `items` and `base` come from a list, `cursor` is how far a
session has got, and `seen` is the version of each object its handler was given last.

| Actions | Code |
| --- | --- |
| `InitialList`, `InitialListFails`, `HandleItem`, `StartLoop` | `Plugin.Start`, `Start` and `initialSync` of a watcher |
| `EndLoop`, `BeginSession`, `Wake` | `watchLoop` |
| `ListVersion`, `OpenWatch`, `SessionFails`, `HandleEvent`, `EndSession`, `ChannelCloses` | `runWatch`, `handleEvent` |
| `Stop` | `Plugin.Stop`, called on shutdown |

What is handed over is only a version: what a handler does with it is `EndpointSync`.
An object of a DNSEndpoint may have contents that do not convert.  A list without a
resource version is of the latest state (external: the Kubernetes API).

### `Query`

A query runs through `ServeDNS` one lookup at a time, beside watchers that add and
remove records.  Names are sequences of labels.  `GetRecords`, `findWildcardRecords`
and `DomainExists` are the lookups of the cache as operators; `todo` is the recursion
of `resolveCNAMETarget` as a stack, with the hops left for each target.  `seen` holds
the contents the cache has had since the query came.  `Answering` and `Defined` are a
definition of the answer that does not look at the program: records cover names, the
closest ones answer, aliases lead on.

A lookup in a zone that exists is one step, because it keeps the zone's read lock to
its end.  That is not so where the zone is missing at first: `GetRecords` then has
`findWildcardRecords` look it up once more, and if a watcher has made it by now, its
lock is taken anew for each wildcard, so that records may come and go between one
wildcard and the next (`cache.go` 94-96, 115-141).  This window, which closes once a zone
is made, is left out.  No property depends on it: undisturbed queries do not meet it,
what the wildcards find bears the name asked for in any case, and a zone with a record
that is there all the time is not missing.

### `ZoneTransfer`

Extends `ZoneSerials` with what a secondary sees of one zone.  Events have numbers;
`content` is the set of those whose changes the records of the zone show, and `raised`
of those whose serials have been raised, so that the records and the serial of the
zone are compared without modelling any record.  The secondary asks for the SOA
record now and then (`SeeNewSerial`), has the transfer plugin call `Transfer`
(`StartTransfer`), and stores what it is sent (`EndTransfer`) unless the connection
breaks (`LoseTransfer`).  NOTIFY only makes it ask sooner, and so needs no action
here.  External, and so assumptions: the transfer plugin passes the serial of the
request, which is 0 for a whole zone; secondaries compare serials within half of the
range, where it is the comparison of numbers; and one that asks what is newer than a
serial and is sent that serial has nothing to do.

Restarts of the plugin are left out here: they empty the cache, and the initial lists
of `Watcher` fill it again before anyone is answered.

### `SerialLedger` and `ZoneLedger`

`SerialLedger` is what the rest of the world may rely on: a ledger of serials that
only grow, and announcements of serials as they were stored once, each begun by the step
that stores them.  It translates no code, and so `PROJECT.json` gives it no lines: there
are no replicas, conflicts or lost requests in it.  `ZoneLedger` reads it off `ZoneSerials`:
the ledger is what of the ConfigMap parses, and an announcement is what a goroutine
that is about to send NOTIFY has saved.

## Runs

| Run | Instance | What it shows |
| --- | --- | --- |
| `zone_serials` | two replicas, two watchers in one of them, a zone and the root, serials to 3, two events, one crash | `TypeOK`, `CacheMirrorsSerials`, `VersionVouches`, `SavedBeforeNotify`, `PersistedNeverBack`, `OnlyLoadGoesBack` hold, and `ImplementsLedger` |
| `zone_serials_rollback` | one replica, one watcher, two events, no crash | `SerialNeverGoesBack` is violated (see Findings) |
| `cache_locks` | two watchers, and a goroutine that makes queries or updates metrics, one zone, names of three labels, fair | `TypeOK`, `NothingHeldAfterReturn`, `StalledTransferHoldsNothing`, `OnlyWildcardsHang`, `ReturnsWithoutWildcards` hold |
| `cache_locks_hang` | a watcher and a client | `AddRecordDoesNotHang` is violated |
| `endpoint_sync` | a DNSEndpoint, a Service and an Ingress that share addresses, PTR records, a reverse zone, four changes | `TypeOK`, `NoDuplicates`, `NothingMissing`, `OnlyKnownLeftovers`, `OnlyOwnerRemoves` hold |
| `endpoint_sync_leftovers` | a DNSEndpoint with an MX record and an address that asks for PTR records | `DeletedLeavesNothing` is violated |
| `watcher` | two watchers, an object each, three changes, one failure, fair | `TypeOK`, `SessionMissesNothing`, `NeverBack`, `SyncedBeforeServing`, `SessionsResume`, `SessionDelivers`, `StopEnds` hold |
| `watcher_missed` | one watcher, one object | `QuietMeansCurrent` is violated |
| `query` | every choice of seven records: addresses, a loop of aliases, wildcards, a zone in a zone; eleven questions, three hops, two changes, fair | `TypeOK`, `AnswersAsDefined`, `AnswersHangTogether`, `PresentIsAnswered`, `EveryQueryEnds` hold |
| `query_reverse` | one zone, an address record and its PTR record | `ReverseIsAnswered` is violated |
| `zone_transfer` | one replica with two watchers, a secondary that transfers whole zones, two events, one broken transfer, fair | `TransferTypeOK`, `CopyHasWhatSerialTold`, `SecondaryCatchesUp` hold |
| `zone_transfer_incremental` | one watcher, a secondary that asks for incremental transfers | `SecondaryCatchesUp` is violated |

Bounds.  Two events are what it takes for one save to race or follow another, and with
three handlers they can be in one replica or in two; every interleaving of their
steps with conflicts, failures, a crash and late requests is explored.  Serials up to
3 wrap around within two events, since the stored ConfigMap may hold any of them to
begin with.

The instance of `cache_locks` has two writers and a process that plays the client and
the metrics goroutine by turns.  One zone is enough: no call holds the locks of two
zones at a time, so that a goroutine that waits for a second zone's lock waits for
someone who holds nothing the first could need, except `c.mu` and `serialsMutex`,
which are there in the instance.  Three labels make the wildcard search take the lock
twice more.

Four changes of `EndpointSync` create all three objects and modify or delete one, or
take one through create, modify, delete and create again.  Three changes of `Watcher`
make, change and delete an object around each list, watch and event, and one failure
is a session that fails to begin or is closed; after it the watcher is where it was
before, and what matters is where the changes fall.

Seven records of `Query` contain a name with an address and an alias, a loop, a name
with two aliases, wildcards of three lengths that overlap, a wildcard alias and a zone
within a zone, and all 128 choices of them are initial caches.  Three hops go around
the loop of two and stop inside it; the program's five differ in nothing but length.
Two changes can come between any two of the lookups: one that removes what the first
found and one that adds what the second finds.  Two events of `ZoneTransfer` are a
change that is being transferred and one that comes on top of it; with one zone beside
the root no serial of that zone wraps to 0, which in the program takes until 2106.

Deadlock is not checked (`CHECK_DEADLOCK FALSE`): events, changes and failures are
bounded and the systems are idle after the last, a query is over when it is answered;
in `CacheLocks` the deadlocks are what `OnlyWildcardsHang` describes precisely.

Fairness.  A goroutine that can run does, and a call of the Kubernetes API returns:

- `CacheLocks`: weak fairness of `Work`; a writer that keeps finding the mutex taken
  by other writers gets it in the end (strong fairness of `Announce`), because Go's
  mutexes hand over to a waiter after a millisecond.  No goroutine is made to start a
  call, and nobody to read from the channel of a transfer: `ReturnsWithoutWildcards`
  promises the return of all calls but those that wait there.
- `Watcher`: weak fairness of `Work`, the steps a watcher takes on its own, and of
  `EndSession`, because a `select` with two branches ready takes each of them with
  equal chance.  Nobody is made to change an object, close a session or call `Stop`.
- `Query`: weak fairness of `Step`.  Watchers change nothing if they do not like to.
- `ZoneTransfer`: weak fairness of `Follow`, the secondary that polls (as the refresh
  interval of the SOA record makes it), of the steps of an event that is under way,
  and of `OnStartup`.  No event has to come, and no save has to succeed.

## Findings

- **A serial goes back** (`zone_serials_rollback`).  `plugin.go:931` drops the object
  that `Update` returns, so after a save that changes something the version in memory
  is stale.  The replica's own next save conflicts, `loadZoneSerials` replaces the
  serials in memory by the ones saved before, and the raise of the second event is
  lost: SOA queries see a smaller serial than before, and no NOTIFY is sent for the
  change.  The test at `plugin_test.go:257` calls this the "never go backwards"
  property.  `OnlyLoadGoesBack` says that nothing but this load (and a crash) does it.
- **A query and a writer deadlock** (`cache_locks_hang`).  `GetRecords` calls
  `findWildcardRecords` with the zone's read lock held, and that takes it again.  If a
  writer announces itself in between, both wait for ever.  A test calls
  `AddRecord` with the comment "This should not hang" (`cache_test.go:64`).
  `OnlyWildcardsHang` says there is no other deadlock.
- **Deleted objects leave records behind** (`endpoint_sync_leftovers`).  For MX
  records, `recordMatches` compares the host of the record with the whole target, "10
  mail.example.com"; SRV and SOA have no case at all.  PTR records are added under the
  zone of the forward name and looked for under the zone of the reverse name.
- **Changes between sessions are missed** (`watcher_missed`).  A session lists only
  for a resource version and watches from there.  What happened since the last session
  or the initial list, and before this list, is told by nobody until the object
  changes again; an object that was deleted meanwhile stays in the cache.
- **PTR records are not found** (`query_reverse`).  They are kept in the zone of the
  forward name, and a query for the reverse name looks in the zone of that name: with
  the configuration of the README's example the answer is left to the next plugin.
- **Incremental transfers stand still** (`zone_transfer_incremental`).  `Transfer`
  puts the serial of the request into the SOA records it sends.  A secondary that asks
  what is newer than its serial takes the answer for "nothing".  One that always asks
  for the whole zone gets the serial 0 each time, finds the zone's serial larger at
  every poll, and transfers again: this is why `SecondaryCatchesUp` holds in
  `zone_transfer`, even for a change that did not raise the serial
  (`plugin.go:484`) or whose serial was rolled back.  With the zone's own serial in
  the transfer, which is the mutant of that run, such changes would be missed.

Met while reading, and not a matter of these models: `createSOARecord` ignores the
refresh, retry, expire and minimum that `setup.go` parses; a name that only a wildcard
covers, asked for a type the wildcard does not have, is answered NXDOMAIN and not
NODATA (`plugin.go:234`).

## Proofs

There is a theorem for every invariant and action property of the passing runs, and
for the two refinements.  The assumptions are the named ones of the modules, as weak as
what the program is given; each is evaluated by TLC in a run.

| Module | Theorems | Inductive invariant |
| --- | --- | --- |
| `ZoneSerials_proofs` | `TypeCorrect`, `VersionsVouch`, `PersistedMonotonic`, `SavedFirst`, `EventsNeverGoBack`, `CacheMirrors` | `IInv == TypeOK /\ Kept(configMap)` |
| `ZoneLedger_proofs` | `LedgerImplemented` | the same |
| `CacheLocks_proofs` | `TypeCorrect`, `NothingHeld`, `StalledTransfersHoldNothing`, `HangsOnlyByWildcards` | `Inv == IType /\ Returns /\ LocksOK` |
| `EndpointSync_proofs` | `TypeCorrect`, `RecordsDiffer`, `OwnersRemove`, `AllIsThere`, `OnlyLost` | `IType /\ LastTells`, with `Restored` for the fourth, `AddsMeant /\ AllSwept` for the last |
| `Watcher_proofs` | `TypeCorrect`, `ObjectsNeverGoBack`, `SessionsMissNothing`, `ServesSynced` | `Inv == IType /\ OneAtATime /\ WatchersOK` |
| `Query_proofs` | `TypeCorrect`, `AnswersHang`, `PresentAnswered`, `AnswersDefined` | `Inv == IType /\ Stages /\ Rooted /\ Pending`, with `Missing` for the third and `Missing /\ Searched` for the last |
| `ZoneTransfer_proofs` | `TransferImplementsSerials`, `TransferTypeCorrect`, `CopiesHaveWhatSerialsTold` | `TInv == IType /\ ChangedFirst /\ HasHeard` |

**`ZoneSerials`.**  Assumed: handlers are pairs of a replica and a watcher, "ROOT" is
not the name of a zone, times are uint32 values, and the marks for missing and invalid
entries are not numbers.  That stored serials never decrease rests on the API's check
of the resource version, and that check only protects a serial if whoever holds the
current version also holds no smaller serial.  This is `Vouches(object, version,
data)`, and `Kept` states it of a replica's memory, of a save under way, of a load's
answer and of an abandoned request, together with what `NOTIFY` relies on.  `Kept` is
not inductive for free: a raise may only make memory larger (`RaiseSerials` checks
under the lock), a load brings data and version together, and after a save nobody else
has the new version.  `Grows` says what a step may do to the stored object: leave it,
or give it a larger version with no serial smaller.  `Vouches` survives whatever
`Grows`, so each action only has to show that it `Grows` and that what it changed
itself is still vouched for.

The refinement uses the same invariant.  That the ledger only grows is `Grows`, read
through `Readable`.  That only stored serials are announced is `WhoNotifies`: a
goroutine is about to send NOTIFY because it has just saved, or it was so before with
the same serials.  The rest is that a step that stores something ends no announcement
(`WhoStores`), since a goroutine that saves or creates was not announcing.

**`CacheLocks`.**  Assumed: finitely many zones, and names of the other two mutexes
that are no zone's.  A process is its list of lock operations, so what it holds is read
off what is left: `Returns` says that the rest of each call fits some holdings and
gives all of them back (`h` changes from operation to operation by `After`, and each
operation is one that `MayDo` allows), `LocksOK` that every mutex counts exactly those
readers and that writer.  `NothingHeld` is the case of nothing left, and `StalledTransfersHoldNothing` that of a
transfer, which may only send while it holds nothing.  For
`HangsOnlyByWildcards` take processes that all wait for each other; `InOrder` is the
order of the locks.  None of them waits for `c.mu`, since who has it gives it back at
once.  Whoever has the serials' lock and is stuck waits for a zone, so some process
does; the one it waits for reads that zone and is stuck as well; and a reader of a zone
only ever waits for `c.mu` or for its own zone again, which is the query in
`findWildcardRecords`.  No number of goroutines and zones gives any other deadlock.

**`EndpointSync`.**  Assumed: finitely many zones, contents of the declared shapes,
reverse names that are names, and a `None` that is no content, record or data.
`OwnersRemove` needs only `IType`, in which the calls a watcher has left are those that
touch what its object owns (`CallsOf`).  `AllIsThere` needs `Apart`: `LastTells` says
that the last event that waits for an object tells of it as it is, and `Restored` that
once none waits, each record the object is meant to have is there with nothing left
that could clear it, or a call to add it is left after all that might.

`OnlyLost` needs `Unmistakable` too.  `AllSwept` says that for every steady object there
is a content whose calls are made or under way; that the waiting events follow one
another from there to what the object is; and that every record of the object that a
removal could find either belongs to that content or is cleared by a call that is left.
While a deletion runs, the records that could be found are those of the content that is
deleted.  TLC refutes the theorem without `Unmistakable`: an address written
`192.0.2.1` with one TTL and `::ffff:192.0.2.1` with another in the same content leaves
a record behind.  The hypothesis asks for a little more than it needs, since an address
that occurs twice with one spelling and two TTLs is removed twice.

**`Watcher`.**  Assumed: `Plugin.Start` starts each watcher once, and every object has a
kind.  `WatchersOK` says of a session that the handler has been given, of each
object, nothing newer than the cursor, and the latest version that converts if it is
newer than where the session began; of a watcher between sessions, that nothing given
is newer than what it knows; and of the initial list, that what is not left of it has
been given.  `OneAtATime`: only the watcher that `Start` has come to is in its initial
list.

**`Query`.**  Assumed: names are sequences of labels, the records there may be are
finitely many, and the data of a CNAME record is a name.  `AnswersHang` follows from
`Rooted` and `Pending`: every record of the answer and every target on the stack can be
reached from the question by aliases in the answer.  `PresentAnswered` is `Missing`:
what a lookup did not find was absent from the cache at that moment, which is one of
those in `seen`.  `AnswersDefined` is the proof of an algorithm: `Explored` says that
what is collected, and what the targets on the stack still lead to within their hops, is
exactly what the definition collects.  The program goes depth first, with a number of
hops left for each target, and removes duplicates; the definition goes level by level;
that they agree is a fact about reachability within a number of steps
(`Sound` and the lemmas before it), for any graph of aliases, loops included.

**`ZoneTransfer`.**  The composition implements `ZoneSerials` step by step, so all six
theorems hold in it.  `ChangedFirst`: a serial that is raised for an event stands for
changes the records show.  `HasHeard`: what is in transfer, and what the secondary
stores, has all that was raised when it last decided to transfer.

`SequenceLemmas` has the facts on sequences these proofs share: what `FlattenSeq`,
`SetToSeqs`, `Remove` and their like return, keep and bound.  The definitions of the
library are recursive functions, and the provers cannot instantiate induction over an
operator; but the *set* of the numbers for which a fact holds can be named, and that a
set of naturals that is not empty has a least element is a theorem of the library about
sets.  The lemmas about recursive functions are proved that way.

Only model-checked is liveness under fairness: `ReturnsWithoutWildcards`
(`CacheLocks`), `SessionsResume`, `SessionDelivers`, `StopEnds` (`Watcher`),
`EveryQueryEnds` (`Query`) and `SecondaryCatchesUp` (`ZoneTransfer`).  It rests on
ENABLED, which the prover does not handle.  That the runs of the findings violate their
property is shown by TLC's counterexamples.

## Not modelled

- The parsing of the Corefile (`setup.go`) and what the metrics show: sequential code
  without an effect on the rest.  `updateMetrics` is modelled for its locks.
- `cmd/` and the deployment: they start CoreDNS with the plugin and keep no state.
- Records and serials in one model with all their detail.  `ZoneTransfer` has the
  serials and which changes the records show, `EndpointSync` the records.
- Objects that share a name and a type, and modifications that drop a name, a type or
  the annotation for PTR records: the handlers cannot tell the records of one from
  those of the other, or what was there before, and nothing promises that they do.
- That `OnStartup` writes `transfer` while watch goroutines read it is a data race; a
  NOTIFY is sent or is not, nothing promises one for the first sync, and the secondary
  of `ZoneTransfer` does without.  No property is about this hazard.

## Plan

Done: all modules of this plan, and the theorems for every safety property of the runs.

Left:

1. `EndpointSync`: `Unmistakable` without its second clause where an address has one
   spelling and several TTLs, by counting the removals left for it.
2. The safe half of what the liveness properties say, as `HangsOnlyByWildcards` is for
   `CacheLocks`: a measure that every step of a query makes smaller, for
   `EveryQueryEnds`.
3. `Watcher` as the source of the events of `EndpointSync`: what a session delivers is
   what the other module's queues contain, between two sessions.
