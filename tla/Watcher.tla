------------------------------- MODULE Watcher -------------------------------
(***************************************************************************)
(* The watchers: how changes of Kubernetes objects reach the handlers of   *)
(* the plugin (internal/watcher, Start and Stop of plugin.go).             *)
(*                                                                         *)
(* There is one watcher for each kind of object, and the three are alike.  *)
(* Start runs them one after the other: each lists its objects, hands them *)
(* to the handler, and then goes on in a goroutine of its own, which holds *)
(* one watch session after the other.  A session begins with a list that   *)
(* is made for its resource version only.                                  *)
(***************************************************************************)
EXTENDS Integers, SequencesExt

CONSTANTS
    StartOrder,  \* the kinds of objects, in the order Start takes them
    Object,      \* Kubernetes objects
    KindOf,      \* KindOf[o]: the kind of o
    Convertible, \* the kinds whose objects always convert to their Go type
    MaxChanges,  \* bound: changes made to all objects together
    MaxFailures  \* bound: API calls that fail and sessions the server closes

Kind == ToSet(StartOrder)

ASSUME KindAssumption ==
    StartOrder \in Seq(Kind) /\ IsInjective(StartOrder) /\ KindOf \in [Object -> Kind]
ASSUME BoundAssumption == MaxChanges \in Nat /\ MaxFailures \in Nat

VARIABLES
    history,    \* history[k]: the changes of objects of kind k; a resource version is a position
    started,    \* how many watchers Start has started
    startFails, \* Start has returned an error
    cancelled,  \* Stop has been called
    pc,         \* where each watcher is
    items,      \* items[k]: the versions of the listed objects not handed over yet
    base,       \* base[k]: the resource version of the last list
    cursor,     \* cursor[k]: the version of the last event received
    seen,       \* seen[o]: the version of o last handed to the handler, 0 if none
    failures    \* how much of MaxFailures is spent

plugin  == <<started, startFails, cancelled>>
watcher == <<pc, items, base, cursor, seen>>
vars    == <<history, plugin, watcher, failures>>

Goto(k, label) == pc' = [pc EXCEPT ![k] = label]

------------------------------------------------------------------------------
(* The API server.  A list without a resource version is of the latest     *)
(* state, and carries the version of that state.                           *)

VersionsOf(o, upTo) == {v \in 1 .. upTo : history[KindOf[o]][v].object = o}

Latest(V) == IF V = {} THEN 0 ELSE CHOOSE v \in V : \A w \in V : w <= v

Lives(o, version) ==
    LET v == Latest(VersionsOf(o, version))
    IN  v # 0 /\ history[KindOf[o]][v].event # "Deleted"

(* An object may have contents that do not convert, until it is changed    *)
(* again; the event that it is deleted carries the contents it had.        *)
Change(o, event, converts) ==
    /\ FoldFunction(+, 0, [k \in Kind |-> Len(history[k])]) < MaxChanges
    /\ history' = [history EXCEPT ![KindOf[o]] =
                      Append(@, [object |-> o, event |-> event, converts |-> converts])]
    /\ UNCHANGED <<plugin, watcher, failures>>

Contents(o) == IF KindOf[o] \in Convertible THEN {TRUE} ELSE BOOLEAN

ChangeObject(o) ==
    LET k    == KindOf[o]
        now  == Len(history[k])
        last == Latest(VersionsOf(o, now))
    IN  IF Lives(o, now)
          THEN \/ \E converts \in Contents(o) : Change(o, "Modified", converts)
               \/ Change(o, "Deleted", history[k][last].converts)
          ELSE \E converts \in Contents(o) : Change(o, "Added", converts)

(* A call fails because the API is unavailable or the context is done.     *)
CallFails == failures < MaxFailures /\ failures' = failures + 1

------------------------------------------------------------------------------
(* Handing an object to the handler, which is called OnAdd, OnUpdate or    *)
(* OnDelete after the event.  Contents that do not convert are logged.     *)

HandOver(k, v) ==
    LET e == history[k][v]
    IN  seen' = IF e.converts THEN [seen EXCEPT ![e.object] = v] ELSE seen

------------------------------------------------------------------------------
(* Start.                                                                  *)

Turn(k) == started < Len(StartOrder) /\ StartOrder[started + 1] = k /\ ~startFails

InitialList(k) ==
    LET now == Len(history[k])
    IN  /\ Turn(k) /\ pc[k] = "new"
        /\ base' = [base EXCEPT ![k] = now]
        /\ items' = [items EXCEPT ![k] =
               {Latest(VersionsOf(o, now)) : o \in {o \in Object : KindOf[o] = k /\ Lives(o, now)}}]
        /\ Goto(k, "sync")
        /\ UNCHANGED <<history, plugin, cursor, seen, failures>>

(* Nobody stops the watchers that are running.                             *)
InitialListFails(k) ==
    /\ Turn(k) /\ pc[k] = "new"
    /\ CallFails
    /\ startFails' = TRUE
    /\ UNCHANGED <<history, started, cancelled, watcher>>

HandleItem(k) ==
    /\ pc[k] = "sync"
    /\ \E v \in items[k] : HandOver(k, v) /\ items' = [items EXCEPT ![k] = @ \ {v}]
    /\ UNCHANGED <<history, plugin, pc, base, cursor, failures>>

(* The variant leaves the items to a goroutine and returns at once.        *)
SyncedEarly(k) == pc[k] = "sync"
Synced(k)      == pc[k] = "sync" /\ items[k] = {}

StartLoop(k) ==
    /\ Synced(k)
    /\ Goto(k, "loop")
    /\ started' = started + 1
    /\ UNCHANGED <<history, startFails, cancelled, items, base, cursor, seen, failures>>

(* Caddy shuts down only what has been set up.                             *)
Stop ==
    /\ started = Len(StartOrder) /\ ~cancelled
    /\ cancelled' = TRUE
    /\ UNCHANGED <<history, started, startFails, watcher, failures>>

------------------------------------------------------------------------------
(* watchLoop and runWatch.                                                 *)

EndLoop(k) ==
    /\ pc[k] = "loop" /\ cancelled
    /\ Goto(k, "ended")
    /\ UNCHANGED <<history, plugin, items, base, cursor, seen, failures>>

BeginSession(k) ==
    /\ pc[k] = "loop" /\ ~cancelled
    /\ Goto(k, "list")
    /\ UNCHANGED <<history, plugin, items, base, cursor, seen, failures>>

(* The version the session starts from; the variant takes that of the      *)
(* first list.                                                             *)
SessionVersionOnce(k) == base[k]
SessionVersion(k)     == Len(history[k])

ListVersion(k) ==
    /\ pc[k] = "list" /\ ~cancelled
    /\ base' = [base EXCEPT ![k] = SessionVersion(k)]
    /\ Goto(k, "watch")
    /\ UNCHANGED <<history, plugin, items, cursor, seen, failures>>

(* The server sends what comes after the version that was listed; the      *)
(* variants ask for what comes from now on, and for one too far.           *)
WatchFromNow(k)  == Len(history[k])
WatchFromNext(k) == base[k] + 1
WatchFrom(k)     == base[k]

OpenWatch(k) ==
    /\ pc[k] = "watch" /\ ~cancelled
    /\ cursor' = [cursor EXCEPT ![k] = WatchFrom(k)]
    /\ Goto(k, "session")
    /\ UNCHANGED <<history, plugin, items, base, seen, failures>>

(* Five seconds of sleep follow.  The variant gives up.                    *)
SessionFailsForGood(k) ==
    /\ pc[k] \in {"list", "watch"}
    /\ CallFails \/ (cancelled /\ UNCHANGED failures)
    /\ Goto(k, "ended")
    /\ UNCHANGED <<history, plugin, items, base, cursor, seen>>

SessionFails(k) ==
    /\ pc[k] \in {"list", "watch"}
    /\ CallFails \/ (cancelled /\ UNCHANGED failures)
    /\ Goto(k, "sleep")
    /\ UNCHANGED <<history, plugin, items, base, cursor, seen>>

Wake(k) ==
    /\ pc[k] = "sleep"
    /\ Goto(k, "loop")
    /\ UNCHANGED <<history, plugin, items, base, cursor, seen, failures>>

(* The variant tries an event again until it converts.                     *)
HandleEventRetries(k) ==
    /\ pc[k] = "session" /\ cursor[k] < Len(history[k])
    /\ history[k][cursor[k] + 1].converts
    /\ cursor' = [cursor EXCEPT ![k] = @ + 1]
    /\ HandOver(k, cursor[k] + 1)
    /\ UNCHANGED <<history, plugin, pc, items, base, failures>>

(* Between an event and the end of the context, select takes either.       *)
HandleEvent(k) ==
    /\ pc[k] = "session" /\ cursor[k] < Len(history[k])
    /\ cursor' = [cursor EXCEPT ![k] = @ + 1]
    /\ HandOver(k, cursor[k] + 1)
    /\ UNCHANGED <<history, plugin, pc, items, base, failures>>

(* The variant does not listen to the context.                             *)
EndSessionNever(k) == FALSE /\ UNCHANGED vars

EndSession(k) ==
    /\ pc[k] = "session" /\ cancelled
    /\ Goto(k, "loop")
    /\ UNCHANGED <<history, plugin, items, base, cursor, seen, failures>>

(* The server ends every session after a while; what it has not sent is    *)
(* lost.                                                                   *)
ChannelCloses(k) ==
    /\ pc[k] = "session"
    /\ CallFails
    /\ Goto(k, "loop")
    /\ UNCHANGED <<history, plugin, items, base, cursor, seen>>

------------------------------------------------------------------------------

Init ==
    /\ history = [k \in Kind |-> <<>>]
    /\ started = 0 /\ startFails = FALSE /\ cancelled = FALSE
    /\ pc      = [k \in Kind |-> "new"]
    /\ items   = [k \in Kind |-> {}]
    /\ base    = [k \in Kind |-> 0]
    /\ cursor  = [k \in Kind |-> 0]
    /\ seen    = [o \in Object |-> 0]
    /\ failures = 0

Work(k) ==
    \/ InitialList(k) \/ HandleItem(k) \/ StartLoop(k)
    \/ EndLoop(k) \/ BeginSession(k) \/ ListVersion(k) \/ OpenWatch(k)
    \/ SessionFails(k) \/ Wake(k) \/ HandleEvent(k)

Next ==
    \/ \E o \in Object : ChangeObject(o)
    \/ \E k \in Kind : Work(k) \/ InitialListFails(k) \/ EndSession(k) \/ ChannelCloses(k)
    \/ Stop

(* Goroutines run, calls of the API return, and events that were sent      *)
(* arrive.  A select with two branches ready takes each of them with equal *)
(* chance, so that it does not pass over the end of the context for ever.  *)
(* Nothing makes anyone change an object, close a session or call Stop.    *)
Fairness == \A k \in Kind : WF_vars(Work(k)) /\ WF_vars(EndSession(k))

Spec     == Init /\ [][Next]_vars
FairSpec == Spec /\ Fairness

------------------------------------------------------------------------------
(* Properties.                                                             *)

Label == {"new", "sync", "loop", "list", "watch", "session", "sleep", "ended"}

TypeOK ==
    /\ \A k \in Kind : \A v \in DOMAIN history[k] : KindOf[history[k][v].object] = k
    /\ started \in 0 .. Len(StartOrder) /\ startFails \in BOOLEAN /\ cancelled \in BOOLEAN
    /\ pc \in [Kind -> Label]
    /\ \A k \in Kind :
          /\ items[k] \subseteq DOMAIN history[k]
          /\ base[k] \in 0 .. Len(history[k]) /\ cursor[k] \in 0 .. Len(history[k])
    /\ \A o \in Object : seen[o] \in VersionsOf(o, Len(history[KindOf[o]])) \cup {0}
    /\ failures \in 0 .. MaxFailures

(* The version of o a handler that misses nothing has seen last.           *)
Due(o, upTo) ==
    Latest({v \in VersionsOf(o, upTo) : history[KindOf[o]][v].converts})

(* An object never goes back for its handler: across the initial list and  *)
(* any number of sessions, failures and restarts, what it is given is      *)
(* newer than what it was given before (initialSync, runWatch).            *)
NeverBack == [][\A o \in Object : seen'[o] >= seen[o]]_vars

(* A session misses nothing that happened after its list, not even between *)
(* the list and the watch (runWatch).                                      *)
SessionMissesNothing ==
    \A k \in Kind : pc[k] = "session" =>
        \A o \in Object : KindOf[o] = k /\ Due(o, cursor[k]) > base[k] =>
            seen[o] = Due(o, cursor[k])

(* Start does not return before the handlers have been given every object  *)
(* that was there: the server answers no query before (initialSync).       *)
SyncedBeforeServing ==
    [][\A k \in Kind : pc[k] = "sync" /\ pc'[k] # "sync" =>
          \A o \in Object :
              LET v == Latest(VersionsOf(o, base[k]))
              IN  KindOf[o] = k /\ Lives(o, base[k]) /\ history[k][v].converts => seen[o] = v]_vars

(* A watcher that lost its session gets another, until it is stopped       *)
(* (watchLoop's "automatic restart on failures").                          *)
SessionsResume ==
    \A k \in Kind : pc[k] = "loop" ~> pc[k] = "session" \/ cancelled

(* What happens in a session reaches the handler, unless the session ends. *)
SessionDelivers ==
    \A k \in Kind : \A v \in 1 .. MaxChanges :
        pc[k] = "session" /\ v \in base[k] + 1 .. Len(history[k])
            ~> cursor[k] >= v \/ pc[k] # "session"

(* Stop ends every watcher, whatever it was doing (watchLoop, runWatch).   *)
StopEnds == cancelled ~> \A k \in Kind : pc[k] = "ended"

(* watcher.go:102 "automatic restart on failures", plugin_test.go:468      *)
(* "Watcher restarts and replays all existing endpoints as ADD events":    *)
(* a session with nothing left to deliver finds the handler up to date.    *)
QuietMeansCurrent ==
    \A k \in Kind : pc[k] = "session" /\ cursor[k] = Len(history[k]) =>
        \A o \in Object : KindOf[o] = k => seen[o] >= Due(o, cursor[k])
==============================================================================
