---------------------------- MODULE Watcher_proofs ----------------------------
(***************************************************************************)
(* Theorems about Watcher for any kinds, objects, changes and failures.    *)
(***************************************************************************)
EXTENDS Watcher, SequenceLemmas

Event == [object : Object, event : {"Added", "Modified", "Deleted"}, converts : BOOLEAN]

ObjectsOf(k) == {o \in Object : KindOf[o] = k}

(* VersionsOf and Due in a history that is given.                          *)
Vers(h, o, upTo)  == {v \in 1 .. upTo : h[KindOf[o]][v].object = o}
DueIn(h, o, upTo) == Latest({v \in Vers(h, o, upTo) : h[KindOf[o]][v].converts})
LastIn(h, o, upTo) == Latest(Vers(h, o, upTo))
LivesIn(h, o, upTo) ==
    LastIn(h, o, upTo) # 0 /\ h[KindOf[o]][LastIn(h, o, upTo)].event # "Deleted"

(* A history that goes on from another one.                                *)
Extends(h, g) ==
    \A k \in Kind :
        Len(h[k]) <= Len(g[k]) /\ \A v \in 1 .. Len(h[k]) : g[k][v] = h[k][v]

------------------------------------------------------------------------------
(* The last version of a set of versions.                                  *)

LEMMA LatestExists ==
    ASSUME NEW n \in Nat, NEW V \in SUBSET (1 .. n), V # {}
    PROVE  \E v \in V : \A w \in V : w <= v
<1> DEFINE T == {n - v : v \in V}
<1>1. T \in SUBSET Nat /\ T # {}
  <2>1. \A v \in V : v \in 1 .. n
    OBVIOUS
  <2>2. PICK v \in V : TRUE
    OBVIOUS
  <2>3. n - v \in T
    OBVIOUS
  <2>4. \A w \in V : n - w \in Nat
    BY <2>1
  <2> QED BY <2>3, <2>4
<1>2. PICK x \in T : \A y \in T : ~ (y < x)
    BY <1>1, LeastElement
<1>3. PICK v \in V : x = n - v
    OBVIOUS
<1>4. ASSUME NEW w \in V
      PROVE  w <= v
  <2>1. n - w \in T
    OBVIOUS
  <2>2. ~ (n - w < n - v)
    BY <1>2, <1>3, <2>1
  <2>3. n \in Int /\ v \in Int /\ w \in Int
    OBVIOUS
  <2> HIDE DEF T
  <2> QED BY <2>2, <2>3
<1> QED BY <1>4

LEMMA LatestIs ==
    ASSUME NEW n \in Nat, NEW V \in SUBSET (1 .. n)
    PROVE  /\ Latest(V) \in 0 .. n
           /\ V # {} => (Latest(V) \in V /\ \A w \in V : w <= Latest(V))
           /\ (Latest(V) = 0) <=> (V = {})
<1>1. CASE V = {}
    BY <1>1 DEF Latest
<1>2. CASE V # {}
  <2>1. PICK v \in V : \A w \in V : w <= v
    BY <1>2, LatestExists
  <2>2. Latest(V) \in V /\ \A w \in V : w <= Latest(V)
    BY <1>2, <2>1 DEF Latest
  <2>3. Latest(V) \in 1 .. n
    BY <2>2
  <2> QED BY <1>2, <2>2, <2>3
<1> QED BY <1>1, <1>2

LEMMA LatestOnly ==
    ASSUME NEW n \in Nat, NEW V \in SUBSET (1 .. n), NEW v \in V, \A w \in V : w <= v
    PROVE  Latest(V) = v
<1>1. Latest(V) \in V /\ v <= Latest(V) /\ Latest(V) <= v
    BY LatestIs
<1>2. Latest(V) \in 1 .. n /\ v \in 1 .. n
    BY <1>1
<1> QED BY <1>1, <1>2

(* A change adds a version and alters none.                                *)
LEMMA ExtendsSame ==
    ASSUME NEW h, NEW g, Extends(h, g), NEW o \in Object,
           NEW n \in Nat, n = Len(h[KindOf[o]]), NEW u \in 0 .. n
    PROVE  /\ Vers(g, o, u) = Vers(h, o, u) /\ DueIn(g, o, u) = DueIn(h, o, u)
           /\ LastIn(g, o, u) = LastIn(h, o, u) /\ (LivesIn(g, o, u) <=> LivesIn(h, o, u))
           /\ \A v \in 1 .. u : g[KindOf[o]][v] = h[KindOf[o]][v]
<1>1. KindOf[o] \in Kind
    BY KindAssumption
<1>2. \A v \in 1 .. u : g[KindOf[o]][v] = h[KindOf[o]][v]
    BY <1>1 DEF Extends
<1>3. Vers(g, o, u) = Vers(h, o, u)
    BY <1>2 DEF Vers
<1>4. {v \in Vers(g, o, u) : g[KindOf[o]][v].converts} = {v \in Vers(h, o, u) : h[KindOf[o]][v].converts}
    BY <1>2, <1>3 DEF Vers
<1>5. Vers(h, o, u) \in SUBSET (1 .. u) /\ u \in Nat
    BY DEF Vers
<1>6. LastIn(h, o, u) \in 0 .. u
    BY <1>5, LatestIs DEF LastIn
<1>7. LastIn(g, o, u) = LastIn(h, o, u)
    BY <1>3 DEF LastIn
<1>8. LivesIn(g, o, u) <=> LivesIn(h, o, u)
    BY <1>2, <1>6, <1>7 DEF LivesIn
<1> QED BY <1>2, <1>3, <1>4, <1>7, <1>8 DEF DueIn

------------------------------------------------------------------------------
(* The inductive invariant.  What a handler has been given is no later     *)
(* than the list it was given the items of, than the list the next session *)
(* is to start from, and than the last event of the session; that is why   *)
(* the next item or event is newer.  h, l, i, b, c and s are the history,  *)
(* the place, the items, the base and the cursor of the watcher of kind k, *)
(* and what has been handed over.                                          *)

Ranges(h, i, b, c, s, k) ==
    /\ i \subseteq 1 .. Len(h[k]) /\ b \in 0 .. Len(h[k]) /\ c \in 0 .. Len(h[k])
    /\ \A o \in ObjectsOf(k) : s[o] \in Vers(h, o, Len(h[k])) \cup {0}

(* Each object of the list has been handed over or is still among the      *)
(* items, with the version the list had.                                   *)
Syncing(h, i, b, s, k) ==
    /\ \A v \in i : v \in 1 .. b /\ v = LastIn(h, h[k][v].object, b)
    /\ \A o \in ObjectsOf(k) :
          /\ s[o] <= b
          /\ (LivesIn(h, o, b) /\ h[k][LastIn(h, o, b)].converts) =>
                (LastIn(h, o, b) \in i \/ s[o] = LastIn(h, o, b))

InSession(h, b, c, s, k) ==
    /\ b <= c
    /\ \A o \in ObjectsOf(k) :
          s[o] <= c /\ (DueIn(h, o, c) > b => s[o] = DueIn(h, o, c))

WatcherOK(h, l, i, b, c, s, k) ==
    /\ Ranges(h, i, b, c, s, k)
    /\ l = "new" => \A o \in ObjectsOf(k) : s[o] = 0
    /\ l = "sync" => Syncing(h, i, b, s, k)
    /\ l = "watch" => \A o \in ObjectsOf(k) : s[o] <= b
    /\ l = "session" => InSession(h, b, c, s, k)

HistoryType == [Kind -> Seq(Event)]
OfItsKind(h) == \A k \in Kind : \A v \in 1 .. Len(h[k]) : KindOf[h[k][v].object] = k

IType ==
    /\ history \in HistoryType /\ OfItsKind(history)
    /\ started \in 0 .. Len(StartOrder) /\ startFails \in BOOLEAN /\ cancelled \in BOOLEAN
    /\ pc \in [Kind -> Label] /\ items \in [Kind -> SUBSET Nat]
    /\ base \in [Kind -> Nat] /\ cursor \in [Kind -> Nat] /\ seen \in [Object -> Nat]
    /\ failures \in 0 .. MaxFailures

(* Only the watcher whose turn it is hands over the items of its list.     *)
OneAtATime ==
    \A k \in Kind : pc[k] = "sync" => started < Len(StartOrder) /\ StartOrder[started + 1] = k

WatchersOK ==
    \A k \in Kind : WatcherOK(history, pc[k], items[k], base[k], cursor[k], seen, k)

Inv == IType /\ OneAtATime /\ WatchersOK

(* A watcher that stays where it is, while the history goes on and others  *)
(* hand over objects of other kinds.                                       *)
LEMMA StaysOK ==
    ASSUME NEW k \in Kind, NEW h \in HistoryType, NEW g \in HistoryType, Extends(h, g),
           OfItsKind(h), NEW l, NEW i, NEW b, NEW c, NEW s, NEW t, WatcherOK(h, l, i, b, c, s, k),
           \A o \in ObjectsOf(k) : t[o] = s[o]
    PROVE  WatcherOK(g, l, i, b, c, t, k)
<1> DEFINE n == Len(h[k])
<1>1. n \in Nat /\ Len(g[k]) \in Nat /\ n <= Len(g[k])
    BY DEF HistoryType, Extends
<1>2. Ranges(h, i, b, c, s, k)
    BY DEF WatcherOK
<1>3. b \in 0 .. n /\ c \in 0 .. n /\ i \subseteq 1 .. n
    BY <1>2 DEF Ranges
<1>4. \A v \in 1 .. n : g[k][v] = h[k][v] /\ h[k][v].object \in ObjectsOf(k)
  <2> SUFFICES ASSUME NEW v \in 1 .. n
               PROVE  g[k][v] = h[k][v] /\ h[k][v].object \in ObjectsOf(k)
    OBVIOUS
  <2>1. h[k] \in Seq(Event) /\ h[k][v] \in Event
    BY DEF HistoryType
  <2> QED BY <2>1 DEF Extends, Event, OfItsKind, ObjectsOf
<1>5. ASSUME NEW o \in ObjectsOf(k), NEW u \in 0 .. n
      PROVE  /\ Vers(g, o, u) = Vers(h, o, u) /\ DueIn(g, o, u) = DueIn(h, o, u)
             /\ LastIn(g, o, u) = LastIn(h, o, u) /\ (LivesIn(g, o, u) <=> LivesIn(h, o, u))
             /\ LastIn(h, o, u) \in 0 .. u
  <2>1. o \in Object /\ KindOf[o] = k /\ n \in Nat
    BY <1>1 DEF ObjectsOf
  <2>2. Vers(h, o, u) \in SUBSET (1 .. u) /\ u \in Nat
    BY DEF Vers
  <2> QED BY <2>1, <2>2, ExtendsSame, LatestIs DEF LastIn
<1>6. Ranges(g, i, b, c, t, k)
  <2>1. \A o \in ObjectsOf(k) : Vers(h, o, n) \subseteq Vers(g, o, Len(g[k]))
    BY <1>1, <1>4 DEF Vers, ObjectsOf
  <2> QED BY <1>1, <1>2, <2>1 DEF Ranges
<1>7. ASSUME l = "sync" PROVE Syncing(g, i, b, t, k)
  <2>1. Syncing(h, i, b, s, k)
    BY <1>7 DEF WatcherOK
  <2>2. ASSUME NEW v \in i
        PROVE  v \in 1 .. b /\ v = LastIn(g, g[k][v].object, b)
    <3>1. v \in 1 .. b /\ v \in 1 .. n /\ v = LastIn(h, h[k][v].object, b)
      BY <2>1, <1>3 DEF Syncing
    <3>2. g[k][v] = h[k][v] /\ h[k][v].object \in ObjectsOf(k)
      BY <1>4, <3>1
    <3>3. LastIn(g, h[k][v].object, b) = LastIn(h, h[k][v].object, b)
      BY <1>3, <1>5, <3>2
    <3> QED BY <3>1, <3>2, <3>3
  <2>3. ASSUME NEW o \in ObjectsOf(k)
        PROVE  /\ t[o] <= b
               /\ (LivesIn(g, o, b) /\ g[k][LastIn(g, o, b)].converts) =>
                     (LastIn(g, o, b) \in i \/ t[o] = LastIn(g, o, b))
    <3>1. /\ LastIn(g, o, b) = LastIn(h, o, b) /\ (LivesIn(g, o, b) <=> LivesIn(h, o, b))
          /\ LastIn(h, o, b) \in 0 .. b
      BY <1>3, <1>5
    <3>2. LivesIn(h, o, b) => LastIn(h, o, b) \in 1 .. n
      BY <1>1, <1>3, <3>1 DEF LivesIn
    <3>3. LivesIn(h, o, b) => g[k][LastIn(h, o, b)] = h[k][LastIn(h, o, b)]
      BY <1>4, <3>2
    <3> QED BY <2>1, <3>1, <3>3 DEF Syncing
  <2> QED BY <2>2, <2>3 DEF Syncing
<1>8. ASSUME l = "session" PROVE InSession(g, b, c, t, k)
    BY <1>3, <1>5, <1>8 DEF WatcherOK, InSession
<1> QED BY <1>6, <1>7, <1>8 DEF WatcherOK

LEMMA KindFacts ==
    /\ StartOrder \in Seq(Kind) /\ Len(StartOrder) \in Nat
    /\ KindOf \in [Object -> Kind]
    /\ \A o \in Object : KindOf[o] \in Kind /\ o \in ObjectsOf(KindOf[o])
BY KindAssumption DEF ObjectsOf

LEMMA SameHistory ==
    ASSUME NEW h \in HistoryType
    PROVE  Extends(h, h)
<1>1. \A k \in Kind : Len(h[k]) \in Nat
    BY DEF HistoryType
<1> QED BY <1>1 DEF Extends

LEMMA InitInv == Init => Inv
<1> SUFFICES ASSUME Init PROVE Inv
    OBVIOUS
<1>1. history \in HistoryType /\ OfItsKind(history)
    BY DEF Init, HistoryType, OfItsKind
<1>2. IType
  <2>1. pc \in [Kind -> Label] /\ items \in [Kind -> SUBSET Nat]
    BY DEF Init, Label
  <2>2. base \in [Kind -> Nat] /\ cursor \in [Kind -> Nat] /\ seen \in [Object -> Nat]
    BY DEF Init
  <2>3. started \in 0 .. Len(StartOrder) /\ failures \in 0 .. MaxFailures
    BY KindFacts, BoundAssumption DEF Init
  <2> QED BY <1>1, <2>1, <2>2, <2>3 DEF Init, IType
<1>3. OneAtATime
    BY DEF Init, OneAtATime
<1>4. WatchersOK
  <2> SUFFICES ASSUME NEW k \in Kind
               PROVE  WatcherOK(history, pc[k], items[k], base[k], cursor[k], seen, k)
    BY DEF WatchersOK
  <2>1. /\ pc[k] = "new" /\ items[k] = {} /\ base[k] = 0 /\ cursor[k] = 0
        /\ history[k] = <<>> /\ Len(<<>>) = 0
    BY DEF Init
  <2>2. \A o \in ObjectsOf(k) : seen[o] = 0
    BY DEF Init, ObjectsOf
  <2>3. Ranges(history, items[k], base[k], cursor[k], seen, k)
    BY <2>1, <2>2 DEF Ranges
  <2> QED BY <2>1, <2>2, <2>3 DEF WatcherOK
<1> QED BY <1>2, <1>3, <1>4 DEF Inv

(* The watchers other than k, in a step of that of kind k.                 *)
LEMMA OthersOK ==
    ASSUME Inv, NEW k \in Kind, history' = history,
           \A j \in Kind \ {k} : /\ pc'[j] = pc[j] /\ items'[j] = items[j]
                                 /\ base'[j] = base[j] /\ cursor'[j] = cursor[j],
           \A o \in Object \ ObjectsOf(k) : seen'[o] = seen[o],
           WatcherOK(history, pc'[k], items'[k], base'[k], cursor'[k], seen', k)
    PROVE  WatchersOK'
<1> SUFFICES ASSUME NEW j \in Kind \ {k}
             PROVE  WatcherOK(history', pc'[j], items'[j], base'[j], cursor'[j], seen', j)
    BY DEF WatchersOK
<1>1. WatcherOK(history, pc[j], items[j], base[j], cursor[j], seen, j)
    BY DEF Inv, WatchersOK
<1>2. \A o \in ObjectsOf(j) : seen'[o] = seen[o]
    BY DEF ObjectsOf
<1>3. history \in HistoryType /\ OfItsKind(history)
    BY DEF Inv, IType
<1> QED BY <1>1, <1>2, <1>3, SameHistory, StaysOK

(* A change of an object adds a version to those of its kind.              *)
LEMMA ChangeStep ==
    ASSUME Inv, NEW o \in Object, NEW event \in {"Added", "Modified", "Deleted"},
           NEW converts \in BOOLEAN, Change(o, event, converts)
    PROVE  Inv' /\ Extends(history, history')
<1> DEFINE e == [object |-> o, event |-> event, converts |-> converts]
<1>1. /\ history' = [history EXCEPT ![KindOf[o]] = Append(@, e)]
      /\ UNCHANGED <<plugin, watcher, failures>>
    BY DEF Change
<1>2. e \in Event /\ e.object = o
    BY DEF Event
<1> HIDE DEF e
<1>3. history \in HistoryType /\ OfItsKind(history)
    BY DEF Inv, IType
<1>4. history' \in HistoryType
    BY <1>1, <1>2, <1>3, KindFacts DEF HistoryType
<1>5. ASSUME NEW k \in Kind
      PROVE  /\ Len(history[k]) <= Len(history'[k])
             /\ \A v \in 1 .. Len(history[k]) : history'[k][v] = history[k][v]
             /\ \A v \in 1 .. Len(history'[k]) : KindOf[history'[k][v].object] = k
  <2>1. history[k] \in Seq(Event) /\ Len(history[k]) \in Nat
    BY <1>3 DEF HistoryType
  <2>2. CASE k = KindOf[o]
    <3>1. history'[k] = Append(history[k], e)
      BY <1>1, <1>3, <2>2 DEF HistoryType
    <3> QED BY <1>2, <1>3, <2>1, <2>2, <3>1 DEF OfItsKind
  <2>3. CASE k # KindOf[o]
    <3>1. history'[k] = history[k]
      BY <1>1, <1>3, <2>3 DEF HistoryType
    <3> QED BY <1>3, <2>1, <3>1 DEF OfItsKind
  <2> QED BY <2>2, <2>3
<1>6. Extends(history, history') /\ OfItsKind(history')
    BY <1>5 DEF Extends, OfItsKind
<1>7. IType'
    BY <1>1, <1>4, <1>6 DEF Inv, IType, plugin, watcher
<1>8. OneAtATime'
    BY <1>1 DEF Inv, OneAtATime, plugin, watcher
<1>9. WatchersOK'
  <2> SUFFICES ASSUME NEW k \in Kind
               PROVE  WatcherOK(history', pc'[k], items'[k], base'[k], cursor'[k], seen', k)
    BY DEF WatchersOK
  <2>1. WatcherOK(history, pc[k], items[k], base[k], cursor[k], seen, k)
    BY DEF Inv, WatchersOK
  <2>2. WatcherOK(history', pc[k], items[k], base[k], cursor[k], seen, k)
    BY <1>3, <1>4, <1>6, <2>1, StaysOK
  <2> QED BY <1>1, <2>2 DEF watcher
<1> QED BY <1>6, <1>7, <1>8, <1>9 DEF Inv

LEMMA ChangeObjectStep ==
    ASSUME Inv, NEW o \in Object, ChangeObject(o)
    PROVE  Inv' /\ Extends(history, history')
<1> DEFINE k == KindOf[o]
           now == Len(history[k])
           last == Latest(VersionsOf(o, now))
<1>1. history[k] \in Seq(Event) /\ now \in Nat
    BY KindFacts DEF Inv, IType, HistoryType
<1>2. VersionsOf(o, now) \in SUBSET (1 .. now)
    BY DEF VersionsOf
<1>3. last \in 0 .. now
    BY <1>1, <1>2, LatestIs
<1>4. Lives(o, now) => last # 0
    BY DEF Lives
<1>5. Lives(o, now) => history[k][last] \in Event
    BY <1>1, <1>3, <1>4
<1>6. Lives(o, now) => history[k][last].converts \in BOOLEAN
    BY <1>5 DEF Event
<1>7. Contents(o) \subseteq BOOLEAN
    BY DEF Contents
<1>8. PICK event \in {"Added", "Modified", "Deleted"}, converts \in BOOLEAN : Change(o, event, converts)
  <2>1. CASE Lives(o, now)
    BY <2>1, <1>6, <1>7 DEF ChangeObject
  <2>2. CASE ~Lives(o, now)
    BY <2>2, <1>7 DEF ChangeObject
  <2> QED BY <2>1, <2>2
<1> QED BY <1>8, ChangeStep

LEMMA AtKind ==
    ASSUME Inv, NEW k \in Kind
    PROVE  /\ history \in HistoryType /\ OfItsKind(history)
           /\ history[k] \in Seq(Event) /\ Len(history[k]) \in Nat
           /\ \A v \in 1 .. Len(history[k]) :
                 history[k][v] \in Event /\ history[k][v].object \in ObjectsOf(k)
           /\ WatcherOK(history, pc[k], items[k], base[k], cursor[k], seen, k)
           /\ Ranges(history, items[k], base[k], cursor[k], seen, k)
<1>1. /\ history \in HistoryType /\ OfItsKind(history)
      /\ history[k] \in Seq(Event) /\ Len(history[k]) \in Nat
    BY DEF Inv, IType, HistoryType
<1>2. \A v \in 1 .. Len(history[k]) : history[k][v] \in Event
    BY <1>1
<1>3. \A v \in 1 .. Len(history[k]) : history[k][v].object \in ObjectsOf(k)
    BY <1>1, <1>2 DEF OfItsKind, Event, ObjectsOf
<1>4. WatcherOK(history, pc[k], items[k], base[k], cursor[k], seen, k)
    BY DEF Inv, WatchersOK
<1> QED BY <1>1, <1>2, <1>3, <1>4 DEF WatcherOK

LEMMA LastOf ==
    ASSUME Inv, NEW k \in Kind, NEW o \in ObjectsOf(k), NEW u \in 0 .. Len(history[k])
    PROVE  /\ VersionsOf(o, u) = Vers(history, o, u)
           /\ LastIn(history, o, u) \in 0 .. u
           /\ LastIn(history, o, u) # 0 => history[k][LastIn(history, o, u)].object = o
           /\ \A v \in Vers(history, o, u) : v <= LastIn(history, o, u)
           /\ LastIn(history, o, u) = 0 => Vers(history, o, u) = {}
           /\ Lives(o, u) <=> LivesIn(history, o, u)
<1>1. KindOf[o] = k
    BY DEF ObjectsOf
<1>2. VersionsOf(o, u) = Vers(history, o, u)
    BY DEF VersionsOf, Vers
<1>3. u \in Nat /\ Vers(history, o, u) \in SUBSET (1 .. u)
    BY AtKind DEF Vers
<1>4. Lives(o, u) <=> LivesIn(history, o, u)
    BY <1>2 DEF Lives, LivesIn, LastIn
<1> QED BY <1>1, <1>2, <1>3, <1>4, LatestIs DEF LastIn, Vers

LEMMA InitialListStep ==
    ASSUME Inv, NEW k \in Kind, InitialList(k)
    PROVE  Inv'
<1> DEFINE now == Len(history[k])
           listed == {Latest(VersionsOf(o, now)) : o \in {o \in Object : KindOf[o] = k /\ Lives(o, now)}}
<1>1. /\ Turn(k) /\ pc[k] = "new" /\ pc' = [pc EXCEPT ![k] = "sync"]
      /\ base' = [base EXCEPT ![k] = now] /\ items' = [items EXCEPT ![k] = listed]
      /\ UNCHANGED <<history, plugin, cursor, seen, failures>>
    BY DEF InitialList, Goto
<1>2. IType
    BY DEF Inv
<1>3. now \in Nat /\ now \in 0 .. now
    BY AtKind
<1>4. listed = {LastIn(history, o, now) : o \in {o \in ObjectsOf(k) : LivesIn(history, o, now)}}
  <2>1. \A o \in ObjectsOf(k) :
          /\ Latest(VersionsOf(o, now)) = LastIn(history, o, now)
          /\ Lives(o, now) <=> LivesIn(history, o, now)
    BY <1>3, LastOf DEF LastIn
  <2> QED BY <2>1 DEF ObjectsOf
<1> HIDE DEF listed
<1>5. ASSUME NEW v \in listed
      PROVE  v \in 1 .. now /\ v = LastIn(history, history[k][v].object, now)
  <2>1. PICK o \in ObjectsOf(k) : LivesIn(history, o, now) /\ v = LastIn(history, o, now)
    BY <1>4
  <2>2. v # 0
    BY <2>1 DEF LivesIn
  <2>3. v \in 0 .. now /\ history[k][v].object = o
    BY <1>3, <2>1, <2>2, LastOf
  <2> QED BY <2>1, <2>2, <2>3
<1>6. IType'
  <2>1. listed \subseteq Nat
    BY <1>5
  <2>2. pc' \in [Kind -> Label] /\ items' \in [Kind -> SUBSET Nat] /\ base' \in [Kind -> Nat]
    BY <1>1, <1>2, <1>3, <2>1 DEF IType, Label
  <2> QED BY <1>1, <1>2, <2>2 DEF IType, plugin
<1>7. OneAtATime'
  <2>1. \A j \in Kind \ {k} : pc'[j] = pc[j]
    BY <1>1, <1>2 DEF IType
  <2>2. started < Len(StartOrder) /\ StartOrder[started + 1] = k
    BY <1>1 DEF Turn
  <2> QED BY <1>1, <2>1, <2>2 DEF Inv, OneAtATime, plugin
<1>8. WatcherOK(history, "sync", listed, now, cursor[k], seen, k)
  <2>1. \A o \in ObjectsOf(k) : seen[o] = 0
    BY <1>1, AtKind DEF WatcherOK
  <2>2. Ranges(history, listed, now, cursor[k], seen, k)
    BY <1>3, <1>5, AtKind DEF Ranges
  <2>3. Syncing(history, listed, now, seen, k)
    BY <1>3, <1>4, <1>5, <2>1 DEF Syncing
  <2> QED BY <2>2, <2>3 DEF WatcherOK
<1>9. /\ pc'[k] = "sync" /\ items'[k] = listed /\ base'[k] = now
      /\ cursor'[k] = cursor[k] /\ seen' = seen /\ history' = history
      /\ \A j \in Kind \ {k} : /\ pc'[j] = pc[j] /\ items'[j] = items[j]
                               /\ base'[j] = base[j] /\ cursor'[j] = cursor[j]
    BY <1>1, <1>2 DEF IType
<1>10. WatchersOK'
    BY <1>8, <1>9, OthersOK
<1> QED BY <1>6, <1>7, <1>10 DEF Inv

(* What is handed over is a version of an object of the kind, and nothing  *)
(* else is.                                                                *)
LEMMA HandOverIs ==
    ASSUME Inv, NEW k \in Kind, NEW v \in 1 .. Len(history[k]), HandOver(k, v)
    PROVE  /\ history[k][v].object \in ObjectsOf(k)
           /\ seen' \in [Object -> Nat]
           /\ \A o \in Object : seen'[o] = IF o = history[k][v].object /\ history[k][v].converts
                                          THEN v ELSE seen[o]
           /\ v \in Vers(history, history[k][v].object, Len(history[k]))
           /\ \A o \in Object \ ObjectsOf(k) : seen'[o] = seen[o]
<1>1. history[k][v] \in Event /\ history[k][v].object \in ObjectsOf(k)
    BY AtKind
<1>2. history[k][v].object \in Object /\ KindOf[history[k][v].object] = k /\ v \in Nat
    BY <1>1, AtKind DEF ObjectsOf
<1>3. seen \in [Object -> Nat]
    BY DEF Inv, IType
<1>4. v \in Vers(history, history[k][v].object, Len(history[k]))
    BY <1>2 DEF Vers
<1> QED BY <1>1, <1>2, <1>3, <1>4 DEF HandOver

LEMMA HandleItemStep ==
    ASSUME Inv, NEW k \in Kind, HandleItem(k)
    PROVE  Inv' /\ \A o \in Object : seen'[o] >= seen[o]
<1>1. PICK v \in items[k] : HandOver(k, v) /\ items' = [items EXCEPT ![k] = @ \ {v}]
    BY DEF HandleItem
<1>2. pc[k] = "sync" /\ UNCHANGED <<history, plugin, pc, base, cursor, failures>>
    BY DEF HandleItem
<1>3. IType
    BY DEF Inv
<1>4. Syncing(history, items[k], base[k], seen, k)
    BY <1>2, AtKind DEF WatcherOK
<1>5. Ranges(history, items[k], base[k], cursor[k], seen, k)
    BY AtKind
<1>6. v \in 1 .. base[k] /\ base[k] \in 0 .. Len(history[k]) /\ Len(history[k]) \in Nat
    BY <1>4, <1>5, AtKind DEF Syncing, Ranges
<1>7. v \in 1 .. Len(history[k])
    BY <1>6
<1> DEFINE e == history[k][v]
<1>8. /\ e.object \in ObjectsOf(k) /\ seen' \in [Object -> Nat]
      /\ \A o \in Object : seen'[o] = IF o = e.object /\ e.converts THEN v ELSE seen[o]
      /\ v \in Vers(history, e.object, Len(history[k]))
      /\ \A o \in Object \ ObjectsOf(k) : seen'[o] = seen[o]
    BY <1>1, <1>7, HandOverIs
<1>9. v = LastIn(history, e.object, base[k])
    BY <1>4 DEF Syncing
<1> HIDE DEF e
<1>10. ObjectsOf(k) \subseteq Object
    BY DEF ObjectsOf
<1>11. seen[e.object] <= v
  <2>1. seen[e.object] \in Vers(history, e.object, Len(history[k])) \cup {0} /\ seen[e.object] <= base[k]
    BY <1>4, <1>5, <1>8 DEF Syncing, Ranges
  <2>2. seen[e.object] # 0 => seen[e.object] \in Vers(history, e.object, base[k])
    BY <2>1, <1>6 DEF Vers
  <2>3. seen[e.object] # 0 => seen[e.object] <= LastIn(history, e.object, base[k])
    BY <2>2, <1>6, <1>8, LastOf
  <2> QED BY <2>3, <1>6, <1>9
<1>12. \A o \in Object : seen'[o] >= seen[o]
  <2>1. seen \in [Object -> Nat]
    BY <1>3 DEF IType
  <2> QED BY <2>1, <1>8, <1>11
<1>13. items'[k] = items[k] \ {v} /\ \A j \in Kind \ {k} : items'[j] = items[j]
    BY <1>1, <1>3 DEF IType
<1>14. Syncing(history, items[k] \ {v}, base[k], seen', k)
  <2>1. ASSUME NEW o \in ObjectsOf(k)
        PROVE  /\ seen'[o] <= base[k]
               /\ (LivesIn(history, o, base[k]) /\ history[k][LastIn(history, o, base[k])].converts) =>
                     (\/ LastIn(history, o, base[k]) \in items[k] \ {v}
                      \/ seen'[o] = LastIn(history, o, base[k]))
    <3> DEFINE w == LastIn(history, o, base[k])
    <3>1. seen[o] <= base[k]
          /\ ((LivesIn(history, o, base[k]) /\ history[k][w].converts) => (w \in items[k] \/ seen[o] = w))
      BY <1>4 DEF Syncing
    <3>2. seen'[o] <= base[k]
      BY <3>1, <1>6, <1>8, <1>10
    <3>3. CASE o = e.object
      <4>1. w = v
        BY <1>9, <3>3
      <4>2. history[k][w].converts <=> e.converts
        BY <4>1 DEF e
      <4> QED BY <3>2, <3>3, <4>1, <4>2, <1>8, <1>10
    <3>4. CASE o # e.object
      <4>1. seen'[o] = seen[o]
        BY <3>4, <1>8, <1>10
      <4>2. LivesIn(history, o, base[k]) => w # v
        <5>1. LivesIn(history, o, base[k]) => history[k][w].object = o
          BY <1>6, LastOf DEF LivesIn
        <5> QED BY <5>1, <3>4 DEF e
      <4> QED BY <3>1, <3>2, <4>1, <4>2
    <3> QED BY <3>3, <3>4
  <2> QED BY <1>4, <2>1 DEF Syncing
<1>15. Ranges(history, items[k] \ {v}, base[k], cursor[k], seen', k)
    BY <1>5, <1>8, <1>10 DEF Ranges
<1>16. WatcherOK(history, "sync", items[k] \ {v}, base[k], cursor[k], seen', k)
    BY <1>14, <1>15 DEF WatcherOK
<1>17. WatchersOK'
    BY <1>2, <1>8, <1>13, <1>16, OthersOK
<1>18. IType'
  <2>1. items' \in [Kind -> SUBSET Nat]
    BY <1>1, <1>3 DEF IType
  <2> QED BY <2>1, <1>2, <1>3, <1>8 DEF IType, plugin
<1>19. OneAtATime'
    BY <1>2 DEF Inv, OneAtATime, plugin
<1> QED BY <1>12, <1>17, <1>18, <1>19 DEF Inv

(* With one more version, an object is due what it was due before, unless  *)
(* the version is of the object and converts.                              *)
LEMMA DueNext ==
    ASSUME NEW h, NEW o \in Object, NEW c \in Nat
    PROVE  DueIn(h, o, c + 1) =
               IF h[KindOf[o]][c + 1].object = o /\ h[KindOf[o]][c + 1].converts
               THEN c + 1 ELSE DueIn(h, o, c)
<1> DEFINE H == h[KindOf[o]]
           V(u) == {v \in Vers(h, o, u) : H[v].converts}
<1>1. 1 .. c + 1 = (1 .. c) \cup {c + 1}
    OBVIOUS
<1>2. CASE H[c + 1].object = o /\ H[c + 1].converts
  <2>1. c + 1 \in V(c + 1) /\ V(c + 1) \in SUBSET (1 .. c + 1)
    BY <1>2 DEF Vers
  <2>2. \A w \in V(c + 1) : w <= c + 1
    BY <2>1
  <2>3. PICK n \in Nat : n = c + 1
    OBVIOUS
  <2> HIDE DEF V
  <2>4. Latest(V(n)) = n
    BY <2>1, <2>2, <2>3, LatestOnly
  <2> QED BY <1>2, <2>3, <2>4 DEF DueIn, V
<1>3. CASE ~(H[c + 1].object = o /\ H[c + 1].converts)
  <2>1. V(c + 1) = V(c)
    BY <1>1, <1>3 DEF Vers
  <2> QED BY <1>3, <2>1 DEF DueIn
<1> QED BY <1>2, <1>3

LEMMA HandleEventStep ==
    ASSUME Inv, NEW k \in Kind, HandleEvent(k)
    PROVE  Inv' /\ \A o \in Object : seen'[o] >= seen[o]
<1>1. PICK c : c = cursor[k]
    OBVIOUS
<1>2. /\ pc[k] = "session" /\ c < Len(history[k]) /\ cursor' = [cursor EXCEPT ![k] = c + 1]
      /\ HandOver(k, c + 1)
      /\ UNCHANGED <<history, plugin, pc, items, base, failures>>
    BY <1>1 DEF HandleEvent
<1>3. IType
    BY DEF Inv
<1>4. Ranges(history, items[k], base[k], c, seen, k) /\ InSession(history, base[k], c, seen, k)
    BY <1>1, <1>2, AtKind DEF WatcherOK
<1>5. c \in Nat /\ Len(history[k]) \in Nat /\ c + 1 \in 1 .. Len(history[k]) /\ base[k] \in Nat
    BY <1>2, <1>4, AtKind DEF Ranges
<1> DEFINE e == history[k][c + 1]
<1>6. /\ e.object \in ObjectsOf(k) /\ seen' \in [Object -> Nat]
      /\ \A o \in Object : seen'[o] = IF o = e.object /\ e.converts THEN c + 1 ELSE seen[o]
      /\ c + 1 \in Vers(history, e.object, Len(history[k]))
      /\ \A o \in Object \ ObjectsOf(k) : seen'[o] = seen[o]
    BY <1>2, <1>5, HandOverIs
<1>7. ObjectsOf(k) \subseteq Object /\ \A o \in ObjectsOf(k) : KindOf[o] = k
    BY DEF ObjectsOf
<1>8. \A o \in Object : seen[o] \in Nat
    BY <1>3 DEF IType
<1>9. \A o \in Object : seen'[o] >= seen[o]
    BY <1>4, <1>5, <1>6, <1>8 DEF InSession
<1>10. \A o \in ObjectsOf(k) :
         DueIn(history, o, c + 1) = IF o = e.object /\ e.converts THEN c + 1 ELSE DueIn(history, o, c)
  <2> SUFFICES ASSUME NEW o \in ObjectsOf(k)
               PROVE  DueIn(history, o, c + 1) =
                          IF o = e.object /\ e.converts THEN c + 1 ELSE DueIn(history, o, c)
    OBVIOUS
  <2>1. o \in Object /\ KindOf[o] = k
    BY <1>7
  <2>2. DueIn(history, o, c + 1) =
            IF history[KindOf[o]][c + 1].object = o /\ history[KindOf[o]][c + 1].converts
            THEN c + 1 ELSE DueIn(history, o, c)
    BY <1>5, <2>1, DueNext
  <2> QED BY <2>1, <2>2
<1> HIDE DEF e
<1>11. InSession(history, base[k], c + 1, seen', k)
    BY <1>4, <1>5, <1>6, <1>7, <1>8, <1>10 DEF InSession
<1>12. Ranges(history, items[k], base[k], c + 1, seen', k)
    BY <1>4, <1>5, <1>6, <1>7 DEF Ranges
<1>13. WatcherOK(history, "session", items[k], base[k], c + 1, seen', k)
    BY <1>11, <1>12 DEF WatcherOK
<1>14. cursor'[k] = c + 1 /\ \A j \in Kind \ {k} : cursor'[j] = cursor[j]
    BY <1>2, <1>3 DEF IType
<1>15. WatchersOK'
    BY <1>2, <1>6, <1>13, <1>14, OthersOK
<1>16. IType'
  <2>1. cursor' \in [Kind -> Nat]
    BY <1>2, <1>3, <1>5 DEF IType
  <2> QED BY <2>1, <1>2, <1>3, <1>6 DEF IType, plugin
<1>17. OneAtATime'
    BY <1>2 DEF Inv, OneAtATime, plugin
<1> QED BY <1>9, <1>15, <1>16, <1>17 DEF Inv

(* Steps that hand nothing over: the watcher goes to another place, but    *)
(* not to its first list, and perhaps takes another base or cursor.        *)
LEMMA GoesOnStep ==
    ASSUME Inv, NEW k \in Kind, NEW l \in Label \ {"new", "sync"},
           NEW b \in Nat, NEW c \in Nat,
           pc' = [pc EXCEPT ![k] = l],
           base' = [base EXCEPT ![k] = b], cursor' = [cursor EXCEPT ![k] = c],
           UNCHANGED <<history, items, seen, startFails>>,
           cancelled' \in BOOLEAN, failures' \in 0 .. MaxFailures,
           \/ started' = started
           \/ pc[k] = "sync" /\ started' = started + 1,
           WatcherOK(history, l, items[k], b, c, seen, k)
    PROVE  Inv'
<1>1. IType
    BY DEF Inv
<1>2. /\ pc'[k] = l /\ base'[k] = b /\ cursor'[k] = c
      /\ \A j \in Kind \ {k} : pc'[j] = pc[j] /\ base'[j] = base[j] /\ cursor'[j] = cursor[j]
    BY <1>1 DEF IType
<1>3. WatchersOK'
    BY <1>2, OthersOK
<1>4. OneAtATime'
    BY <1>2 DEF Inv, OneAtATime
<1>5. started' \in 0 .. Len(StartOrder)
    BY SMTT(40), <1>1, KindFacts DEF Inv, IType, OneAtATime
<1>6. pc' \in [Kind -> Label] /\ base' \in [Kind -> Nat] /\ cursor' \in [Kind -> Nat]
    BY <1>1 DEF IType
<1>7. IType'
    BY <1>1, <1>5, <1>6 DEF IType
<1> QED BY <1>3, <1>4, <1>7 DEF Inv

LEMMA CallFailsType ==
    ASSUME Inv, CallFails \/ UNCHANGED failures
    PROVE  failures' \in 0 .. MaxFailures
BY BoundAssumption DEF CallFails, Inv, IType

(* Places where nothing is known of what has been handed over.             *)
Elsewhere == {"loop", "list", "sleep", "ended"}

LEMMA PlainOK ==
    ASSUME Inv, NEW k \in Kind, NEW l \in Elsewhere
    PROVE  WatcherOK(history, l, items[k], base[k], cursor[k], seen, k)
BY AtKind DEF WatcherOK, Elsewhere

LEMMA PlainStep ==
    ASSUME Inv, NEW k \in Kind, NEW l \in Elsewhere, pc' = [pc EXCEPT ![k] = l],
           UNCHANGED <<history, items, base, cursor, seen, startFails>>,
           cancelled' \in BOOLEAN, failures' \in 0 .. MaxFailures,
           \/ started' = started
           \/ pc[k] = "sync" /\ started' = started + 1
    PROVE  Inv'
<1>1. l \in Label \ {"new", "sync"}
    BY DEF Label, Elsewhere
<1>2. PICK b \in Nat, c \in Nat : b = base[k] /\ c = cursor[k]
    BY DEF Inv, IType
<1>3. base' = [base EXCEPT ![k] = b] /\ cursor' = [cursor EXCEPT ![k] = c]
    BY <1>2 DEF Inv, IType
<1>4. WatcherOK(history, l, items[k], b, c, seen, k)
    BY <1>2, PlainOK
<1> QED BY ZenonT(40), <1>1, <1>2, <1>3, <1>4, GoesOnStep

LEMMA ListVersionStep ==
    ASSUME Inv, NEW k \in Kind, ListVersion(k)
    PROVE  Inv'
<1>1. PICK b, c : b = Len(history[k]) /\ c = cursor[k]
    OBVIOUS
<1>2. /\ base' = [base EXCEPT ![k] = b] /\ pc' = [pc EXCEPT ![k] = "watch"]
      /\ UNCHANGED <<history, plugin, items, cursor, seen, failures>>
    BY <1>1 DEF ListVersion, SessionVersion, Goto
<1>3. b \in Nat /\ c \in Nat /\ b \in 0 .. Len(history[k])
    BY <1>1, AtKind DEF Inv, IType
<1>4. cursor' = [cursor EXCEPT ![k] = c]
    BY <1>1, <1>2 DEF Inv, IType
<1>5. Ranges(history, items[k], b, c, seen, k)
    BY <1>1, <1>3, AtKind DEF Ranges
<1>6. \A o \in ObjectsOf(k) : seen[o] <= b
    BY <1>1, <1>3, <1>5 DEF Ranges, Vers
<1>7. WatcherOK(history, "watch", items[k], b, c, seen, k)
    BY <1>5, <1>6 DEF WatcherOK
<1>8. cancelled' \in BOOLEAN /\ failures' \in 0 .. MaxFailures /\ started' = started
    BY <1>2 DEF Inv, IType, plugin
<1> QED BY <1>2, <1>3, <1>4, <1>7, <1>8, GoesOnStep DEF Label, plugin

LEMMA OpenWatchStep ==
    ASSUME Inv, NEW k \in Kind, OpenWatch(k)
    PROVE  Inv'
<1>1. PICK b : b = base[k]
    OBVIOUS
<1>2. /\ pc[k] = "watch" /\ cursor' = [cursor EXCEPT ![k] = b] /\ pc' = [pc EXCEPT ![k] = "session"]
      /\ UNCHANGED <<history, plugin, items, base, seen, failures>>
    BY <1>1 DEF OpenWatch, WatchFrom, Goto
<1>3. b \in Nat /\ base' = [base EXCEPT ![k] = b]
    BY <1>1, <1>2 DEF Inv, IType
<1>4. Ranges(history, items[k], b, b, seen, k) /\ \A o \in ObjectsOf(k) : seen[o] <= b
    BY <1>1, <1>2, AtKind DEF WatcherOK, Ranges
<1>5. \A o \in ObjectsOf(k) : DueIn(history, o, b) \in 0 .. b
  <2>1. \A o \in ObjectsOf(k) : {v \in Vers(history, o, b) : history[KindOf[o]][v].converts} \in SUBSET (1 .. b)
    BY DEF Vers
  <2> QED BY <1>3, <2>1, LatestIs DEF DueIn
<1>6. InSession(history, b, b, seen, k)
    BY <1>3, <1>4, <1>5 DEF InSession
<1>7. WatcherOK(history, "session", items[k], b, b, seen, k)
    BY <1>4, <1>6 DEF WatcherOK
<1>8. cancelled' \in BOOLEAN /\ failures' \in 0 .. MaxFailures /\ started' = started
    BY <1>2 DEF Inv, IType, plugin
<1> QED BY <1>2, <1>3, <1>7, <1>8, GoesOnStep DEF Label, plugin

------------------------------------------------------------------------------

StepOf(k) == Work(k) \/ InitialListFails(k) \/ EndSession(k) \/ ChannelCloses(k)

LEMMA QuietStep ==
    ASSUME Inv, NEW k \in Kind, StepOf(k), ~HandleItem(k), ~HandleEvent(k)
    PROVE  Inv' /\ seen' = seen
<1>1. CASE InitialList(k)
    BY <1>1, InitialListStep DEF InitialList
<1>2. CASE ListVersion(k)
    BY <1>2, ListVersionStep DEF ListVersion
<1>3. CASE OpenWatch(k)
    BY <1>3, OpenWatchStep DEF OpenWatch
<1>4. CASE InitialListFails(k)
  <2>1. failures' \in 0 .. MaxFailures
    BY <1>4, CallFailsType DEF InitialListFails
  <2>2. startFails' = TRUE /\ UNCHANGED <<history, started, cancelled, watcher>>
    BY <1>4 DEF InitialListFails
  <2>3. IType'
    BY <2>1, <2>2 DEF Inv, IType, watcher
  <2> QED BY <2>2, <2>3 DEF Inv, OneAtATime, WatchersOK, watcher
<1>5. CASE StartLoop(k)
  <2>1. /\ pc[k] = "sync" /\ pc' = [pc EXCEPT ![k] = "loop"] /\ started' = started + 1
        /\ UNCHANGED <<history, startFails, cancelled, items, base, cursor, seen, failures>>
    BY <1>5 DEF StartLoop, Synced, Goto
  <2> QED BY <2>1, PlainStep DEF Elsewhere, Inv, IType
<1>6. CASE EndLoop(k) \/ BeginSession(k) \/ SessionFails(k) \/ Wake(k) \/ EndSession(k) \/ ChannelCloses(k)
  <2>1. PICK l \in Elsewhere : pc' = [pc EXCEPT ![k] = l]
    BY <1>6 DEF EndLoop, BeginSession, SessionFails, Wake, EndSession, ChannelCloses, Goto, Elsewhere
  <2>2. UNCHANGED <<history, plugin, items, base, cursor, seen>> /\ (CallFails \/ UNCHANGED failures)
    BY <1>6 DEF EndLoop, BeginSession, SessionFails, Wake, EndSession, ChannelCloses
  <2>3. failures' \in 0 .. MaxFailures
    BY <2>2, CallFailsType
  <2> QED BY <2>1, <2>2, <2>3, PlainStep DEF plugin, Inv, IType
<1> QED BY <1>1, <1>2, <1>3, <1>4, <1>5, <1>6 DEF StepOf, Work

(* Every step keeps the invariant, and gives a handler nothing older than  *)
(* what it has been given.                                                 *)
LEMMA StepInv ==
    ASSUME Inv, [Next]_vars
    PROVE  Inv' /\ \A o \in Object : seen'[o] >= seen[o]
<1> DEFINE Forward == \A o \in Object : seen'[o] >= seen[o]
<1>1. seen' = seen => Forward
    BY DEF Inv, IType
<1>2. CASE UNCHANGED vars
    BY <1>1, <1>2 DEF vars, plugin, watcher, Inv, IType, OneAtATime, WatchersOK
<1>3. ASSUME NEW o \in Object, ChangeObject(o)
      PROVE  Inv' /\ Forward
  <2>1. seen' = seen
    BY <1>3 DEF ChangeObject, Change, watcher
  <2> QED BY <1>1, <1>3, <2>1, ChangeObjectStep
<1>4. ASSUME NEW k \in Kind, StepOf(k)
      PROVE  Inv' /\ Forward
    BY <1>1, <1>4, QuietStep, HandleItemStep, HandleEventStep
<1>5. CASE Stop
  <2>1. cancelled' = TRUE /\ UNCHANGED <<history, started, startFails, watcher, failures>>
    BY <1>5 DEF Stop
  <2>2. Inv'
    BY <2>1 DEF Inv, IType, OneAtATime, WatchersOK, watcher
  <2> QED BY <1>1, <2>1, <2>2 DEF watcher
<1> QED BY <1>2, <1>3, <1>4, <1>5 DEF Next, StepOf

LEMMA InvAlways == Spec => []Inv
<1>1. Inv /\ [Next]_vars => Inv'
    BY StepInv
<1> QED BY InitInv, <1>1, PTL DEF Spec

(* Versions, items and cursors are of the history, for any kinds, objects, *)
(* changes and failures (internal/watcher).                                *)
THEOREM TypeCorrect == Spec => []TypeOK
<1>1. Inv => TypeOK
  <2> SUFFICES ASSUME Inv PROVE TypeOK
    OBVIOUS
  <2>1. \A k \in Kind : \A v \in DOMAIN history[k] : KindOf[history[k][v].object] = k
    BY AtKind DEF OfItsKind
  <2>2. ASSUME NEW k \in Kind
        PROVE  /\ items[k] \subseteq DOMAIN history[k]
               /\ base[k] \in 0 .. Len(history[k]) /\ cursor[k] \in 0 .. Len(history[k])
    BY AtKind DEF Ranges
  <2>3. ASSUME NEW o \in Object
        PROVE  seen[o] \in VersionsOf(o, Len(history[KindOf[o]])) \cup {0}
    BY KindFacts, AtKind DEF Ranges, VersionsOf, Vers
  <2> QED BY <2>1, <2>2, <2>3 DEF Inv, IType, TypeOK
<1> QED BY <1>1, InvAlways, PTL

(* An object never goes back for its handler, across the initial list and  *)
(* any number of sessions, failures and restarts (initialSync, runWatch).  *)
THEOREM ObjectsNeverGoBack == Spec => NeverBack
<1>1. Inv /\ [Next]_vars => [\A o \in Object : seen'[o] >= seen[o]]_vars
    BY StepInv
<1> QED BY <1>1, InvAlways, PTL DEF Spec, NeverBack

(* A session misses nothing that happened after the list it began with     *)
(* (runWatch), however many versions there are.                            *)
THEOREM SessionsMissNothing == Spec => []SessionMissesNothing
<1>1. Inv => SessionMissesNothing
  <2> SUFFICES ASSUME Inv, NEW k \in Kind, pc[k] = "session", NEW o \in Object, KindOf[o] = k,
                      Due(o, cursor[k]) > base[k]
               PROVE  seen[o] = Due(o, cursor[k])
    BY DEF SessionMissesNothing
  <2>1. Due(o, cursor[k]) = DueIn(history, o, cursor[k])
    BY DEF Due, DueIn, VersionsOf, Vers
  <2>2. o \in ObjectsOf(k)
    BY DEF ObjectsOf
  <2> QED BY <2>1, <2>2, AtKind DEF WatcherOK, InSession
<1> QED BY <1>1, InvAlways, PTL

(* Start goes on to the next watcher, and in the end returns, only when    *)
(* the handler has been given every object that was there and converts     *)
(* (initialSync).                                                          *)
THEOREM ServesSynced == Spec => SyncedBeforeServing
<1> DEFINE Leaves(k) == pc[k] = "sync" /\ pc'[k] # "sync"
           Given(k) ==
               \A o \in Object :
                   LET v == Latest(VersionsOf(o, base[k]))
                   IN  KindOf[o] = k /\ Lives(o, base[k]) /\ history[k][v].converts => seen[o] = v
<1>1. ASSUME Inv, Next, NEW k \in Kind, Leaves(k)
      PROVE  items[k] = {}
  <2>1. pc \in [Kind -> Label]
    BY <1>1 DEF Inv, IType
  <2>2. pc' # pc
    BY <1>1
  <2>3. PICK j \in Kind : Work(j) \/ EndSession(j) \/ ChannelCloses(j)
    BY <1>1, <2>2 DEF Next, ChangeObject, Change, watcher, InitialListFails, Stop
  <2>4. pc[j] # "sync" => \E l \in Label : pc' = [pc EXCEPT ![j] = l]
    BY <2>2, <2>3 DEF Work, InitialList, HandleItem, StartLoop, Synced, EndLoop, BeginSession,
        ListVersion, OpenWatch, SessionFails, Wake, HandleEvent, EndSession, ChannelCloses, Goto, Label
  <2>5. pc[j] = "sync" => StartLoop(j)
    BY <2>2, <2>3 DEF Work, InitialList, HandleItem, EndLoop, BeginSession,
        ListVersion, OpenWatch, SessionFails, Wake, HandleEvent, EndSession, ChannelCloses
  <2>6. pc[j] = "sync" => (items[j] = {} /\ pc' = [pc EXCEPT ![j] = "loop"])
    BY <2>5 DEF StartLoop, Synced, Goto
  <2> QED BY <1>1, <2>1, <2>4, <2>6
<1>2. ASSUME Inv, NEW k \in Kind, pc[k] = "sync", items[k] = {}
      PROVE  Given(k)
  <2>1. Syncing(history, items[k], base[k], seen, k) /\ base[k] \in 0 .. Len(history[k])
    BY <1>2, AtKind DEF WatcherOK, Ranges
  <2> SUFFICES ASSUME NEW o \in Object, KindOf[o] = k, Lives(o, base[k]),
                      history[k][Latest(VersionsOf(o, base[k]))].converts
               PROVE  seen[o] = Latest(VersionsOf(o, base[k]))
    OBVIOUS
  <2>2. o \in ObjectsOf(k)
    BY DEF ObjectsOf
  <2>3. Latest(VersionsOf(o, base[k])) = LastIn(history, o, base[k]) /\ LivesIn(history, o, base[k])
    BY <1>2, <2>1, <2>2, LastOf DEF LastIn
  <2> QED BY <1>2, <2>1, <2>2, <2>3 DEF Syncing
<1>3. Inv /\ [Next]_vars => [\A k \in Kind : Leaves(k) => Given(k)]_vars
    BY <1>1, <1>2
<1>4. [][\A k \in Kind : Leaves(k) => Given(k)]_vars => SyncedBeforeServing
  <2>1. [\A k \in Kind : Leaves(k) => Given(k)]_vars =>
        [\A k \in Kind : pc[k] = "sync" /\ pc'[k] # "sync" =>
          \A o \in Object :
              LET v == Latest(VersionsOf(o, base[k]))
              IN  KindOf[o] = k /\ Lives(o, base[k]) /\ history[k][v].converts => seen[o] = v]_vars
    OBVIOUS
  <2> QED BY <2>1, PTL DEF SyncedBeforeServing
<1> QED BY <1>3, <1>4, InvAlways, PTL DEF Spec
==============================================================================
