-------------------------- MODULE CacheLocks_proofs --------------------------
(***************************************************************************)
(* Theorems about CacheLocks for any goroutines, zones and bound on the    *)
(* labels of a name.                                                       *)
(***************************************************************************)
EXTENDS CacheLocks, SequenceLemmas

(* What a process may have of a mutex: nothing, one read lock, a second    *)
(* read lock, or the write lock.                                           *)
Hold     == {"no", "read", "again", "write"}
Holdings == [Mutex -> Hold]
CallName == {"", "AddRecord", "RemoveRecord", "RemoveAllPTRRecordsForName", "RaiseSerials",
             "ReadSerials", "GetRecords", "ReadZone", "Transfer", "updateMetrics"}
Op       == [op : {"RLock", "RUnlock", "Lock", "Unlock", "Send"}, mutex : Mutex, call : CallName]

Idle == [m \in Mutex |-> "no"]

(* What a process that has h may do next, and has then.                    *)
Fits(h, o) ==
    \/ o.op = "RLock" /\ (h[o.mutex] = "no" \/ (h[o.mutex] = "read" /\ o.mutex \in Zone))
    \/ o.op = "RUnlock" /\ h[o.mutex] \in {"read", "again"}
    \/ o.op = "Lock" /\ h[o.mutex] = "no"
    \/ o.op = "Unlock" /\ h[o.mutex] = "write"
    \/ o.op = "Send" /\ \A m \in Mutex : h[m] = "no"

GivesBack(o, m) == o.mutex = m /\ o.op \in {"RUnlock", "Unlock"}

(* The order of the locks: whoever has c.mu gives it back at once, and so  *)
(* does the writer of a zone; the reader of a zone may only ask for that   *)
(* zone again or read under c.mu; the writer of the serials may take any   *)
(* mutex but theirs.                                                       *)
InOrder(h, o) ==
    /\ h["cache"] # "no" => GivesBack(o, "cache")
    /\ h["serials"] \in {"read", "again"} => GivesBack(o, "serials")
    /\ h["serials"] = "write" => (GivesBack(o, "serials") \/ o.mutex # "serials")
    /\ \A z \in Zone : h[z] \in {"write", "again"} => GivesBack(o, z)
    /\ \A z \in Zone : h[z] = "read" =>
            (o.mutex = z \/ (o.mutex = "cache" /\ o.op \in {"RLock", "RUnlock"}))

MayDo(h, o) == Fits(h, o) /\ InOrder(h, o)

After(h, o) ==
    [h EXCEPT ![o.mutex] =
        IF o.op = "RLock" THEN (IF @ = "no" THEN "read" ELSE "again")
        ELSE IF o.op = "RUnlock" THEN (IF @ = "again" THEN "read" ELSE "no")
        ELSE IF o.op = "Lock" THEN "write" ELSE "no"]

(* A process that has h may do the operations one by one and then has k.   *)
Goes(h, ops, k) ==
    \E c \in [1 .. Len(ops) + 1 -> Holdings] :
        /\ c[1] = h /\ c[Len(ops) + 1] = k
        /\ \A i \in 1 .. Len(ops) : MayDo(c[i], ops[i]) /\ c[i + 1] = After(c[i], ops[i])

------------------------------------------------------------------------------

LEMMA AfterType ==
    ASSUME NEW h \in Holdings, NEW o \in Op
    PROVE  After(h, o) \in Holdings
BY DEF Holdings, Hold, Op, After

LEMMA GoesNowhere ==
    ASSUME NEW h \in Holdings
    PROVE  Goes(h, <<>>, h)
<1> DEFINE c == [i \in 1 .. 1 |-> h]
<1>1. c \in [1 .. Len(<<>>) + 1 -> Holdings] /\ c[1] = h /\ Len(<<>>) = 0
    OBVIOUS
<1> HIDE DEF c
<1> QED BY <1>1 DEF Goes

LEMMA GoesOne ==
    ASSUME NEW h \in Holdings, NEW o \in Op, MayDo(h, o)
    PROVE  Goes(h, <<o>>, After(h, o))
<1> DEFINE c == [i \in 1 .. 2 |-> IF i = 1 THEN h ELSE After(h, o)]
<1>1. c \in [1 .. Len(<<o>>) + 1 -> Holdings]
    BY AfterType
<1>2. c[1] = h /\ c[2] = After(h, o) /\ Len(<<o>>) = 1 /\ <<o>>[1] = o
    OBVIOUS
<1> HIDE DEF c
<1> QED BY <1>1, <1>2 DEF Goes

LEMMA GoesOn ==
    ASSUME NEW a \in Seq(Op), NEW b \in Seq(Op), NEW h, NEW g, NEW k,
           Goes(h, a, g), Goes(g, b, k)
    PROVE  Goes(h, a \o b, k)
<1> DEFINE n == Len(a)
<1>1. PICK c \in [1 .. n + 1 -> Holdings] :
        /\ c[1] = h /\ c[n + 1] = g
        /\ \A i \in 1 .. n : MayDo(c[i], a[i]) /\ c[i + 1] = After(c[i], a[i])
    BY DEF Goes
<1>2. PICK d \in [1 .. Len(b) + 1 -> Holdings] :
        /\ d[1] = g /\ d[Len(b) + 1] = k
        /\ \A i \in 1 .. Len(b) : MayDo(d[i], b[i]) /\ d[i + 1] = After(d[i], b[i])
    BY DEF Goes
<1>3. n \in Nat /\ Len(b) \in Nat /\ Len(a \o b) = n + Len(b)
    OBVIOUS
<1> DEFINE e == [i \in 1 .. n + Len(b) + 1 |-> IF i <= n THEN c[i] ELSE d[i - n]]
<1>4. e \in [1 .. Len(a \o b) + 1 -> Holdings]
    BY <1>3
<1>5. e[1] = h
    BY <1>1, <1>2, <1>3
<1>6. e[Len(a \o b) + 1] = k
    BY <1>2, <1>3
<1>7. ASSUME NEW i \in 1 .. Len(a \o b)
      PROVE  MayDo(e[i], (a \o b)[i]) /\ e[i + 1] = After(e[i], (a \o b)[i])
  <2>1. CASE i <= n
    <3>1. (a \o b)[i] = a[i] /\ i \in 1 .. n /\ e[i] = c[i]
      BY <2>1, <1>3
    <3>2. e[i + 1] = c[i + 1]
      BY <2>1, <1>1, <1>2, <1>3
    <3> QED BY <3>1, <3>2, <1>1
  <2>2. CASE i > n
    <3>1. (a \o b)[i] = b[i - n] /\ i - n \in 1 .. Len(b) /\ e[i] = d[i - n]
      BY <2>2, <1>3
    <3>2. e[i + 1] = d[i - n + 1]
      BY <2>2, <1>3
    <3> QED BY <3>1, <3>2, <1>2
  <2> QED BY <2>1, <2>2, <1>3
<1> HIDE DEF e
<1> QED BY <1>4, <1>5, <1>6, <1>7 DEF Goes

LEMMA GoesFirst ==
    ASSUME NEW ops \in Seq(Op), NEW h, NEW k, Goes(h, ops, k), ops # <<>>
    PROVE  /\ h \in Holdings /\ MayDo(h, Head(ops))
           /\ Goes(After(h, Head(ops)), Tail(ops), k)
<1> DEFINE n == Len(ops)
<1>1. PICK c \in [1 .. n + 1 -> Holdings] :
        /\ c[1] = h /\ c[n + 1] = k
        /\ \A i \in 1 .. n : MayDo(c[i], ops[i]) /\ c[i + 1] = After(c[i], ops[i])
    BY DEF Goes
<1>2. n \in Nat \ {0} /\ Head(ops) = ops[1] /\ Len(Tail(ops)) = n - 1
      /\ \A i \in 1 .. n - 1 : Tail(ops)[i] = ops[i + 1]
    OBVIOUS
<1>3. h \in Holdings /\ MayDo(h, Head(ops)) /\ c[2] = After(h, Head(ops))
    BY <1>1, <1>2
<1> DEFINE d == [i \in 1 .. n |-> c[i + 1]]
<1>4. d \in [1 .. Len(Tail(ops)) + 1 -> Holdings]
    BY <1>2
<1>5. d[1] = After(h, Head(ops)) /\ d[Len(Tail(ops)) + 1] = k
    BY <1>1, <1>2, <1>3
<1>6. ASSUME NEW i \in 1 .. Len(Tail(ops))
      PROVE  MayDo(d[i], Tail(ops)[i]) /\ d[i + 1] = After(d[i], Tail(ops)[i])
  <2>1. i + 1 \in 1 .. n /\ d[i] = c[i + 1] /\ d[i + 1] = c[i + 2] /\ Tail(ops)[i] = ops[i + 1]
    BY <1>2
  <2>2. MayDo(c[i + 1], ops[i + 1]) /\ c[i + 1 + 1] = After(c[i + 1], ops[i + 1])
    BY <1>1, <2>1
  <2> QED BY <2>1, <2>2
<1> HIDE DEF d
<1> QED BY <1>3, <1>4, <1>5, <1>6 DEF Goes

LEMMA GoesNoFurther ==
    ASSUME NEW h, NEW k, Goes(h, <<>>, k)
    PROVE  h = k /\ h \in Holdings
BY DEF Goes

(* The name of a call changes nothing.                                     *)
LEMMA NameIsNothing ==
    ASSUME NEW h, NEW o, NEW u, o.op = u.op, o.mutex = u.mutex
    PROVE  (MayDo(h, o) => MayDo(h, u)) /\ After(h, o) = After(h, u)
<1>1. MayDo(h, o) => MayDo(h, u)
    BY DEF MayDo, Fits, InOrder, GivesBack
<1>2. After(h, o) = After(h, u)
    BY DEF After
<1> QED BY <1>1, <1>2

LEMMA GoesNamed ==
    ASSUME NEW ops \in Seq(Op), NEW h, NEW k, Goes(h, ops, k), NEW name \in CallName
    PROVE  LET named == [i \in DOMAIN ops |-> [ops[i] EXCEPT !.call = name]]
           IN  named \in Seq(Op) /\ Goes(h, named, k)
<1> DEFINE named == [i \in DOMAIN ops |-> [ops[i] EXCEPT !.call = name]]
<1>1. DOMAIN ops = 1 .. Len(ops) /\ Len(ops) \in Nat /\ \A i \in 1 .. Len(ops) : ops[i] \in Op
    OBVIOUS
<1>2. ASSUME NEW o \in Op
      PROVE  LET u == [o EXCEPT !.call = name] IN u \in Op /\ u.op = o.op /\ u.mutex = o.mutex
    BY DEF Op
<1>3. named \in [1 .. Len(ops) -> Op]
    BY <1>1, <1>2
<1>4. named \in Seq(Op) /\ Len(named) = Len(ops)
    BY <1>1, <1>3
<1>5. \A i \in 1 .. Len(ops) : ops[i].op = named[i].op /\ ops[i].mutex = named[i].mutex
    BY <1>1, <1>2
<1>6. PICK c \in [1 .. Len(ops) + 1 -> Holdings] :
        /\ c[1] = h /\ c[Len(ops) + 1] = k
        /\ \A i \in 1 .. Len(ops) : MayDo(c[i], ops[i]) /\ c[i + 1] = After(c[i], ops[i])
    BY DEF Goes
<1> HIDE DEF named
<1>7. \A i \in 1 .. Len(ops) : MayDo(c[i], named[i]) /\ c[i + 1] = After(c[i], named[i])
    BY <1>5, <1>6, NameIsNothing
<1>8. Goes(h, named, k)
    BY <1>4, <1>6, <1>7 DEF Goes
<1> QED BY <1>4, <1>8 DEF named

------------------------------------------------------------------------------
(* The calls: each gives back what it takes.                               *)

Cycle(h) == {ops \in Seq(Op) : Goes(h, ops, h)}

LEMMA CycleJoin ==
    ASSUME NEW h \in Holdings
    PROVE  <<>> \in Cycle(h) /\ \A a, b \in Cycle(h) : a \o b \in Cycle(h)
BY GoesNowhere, GoesOn DEF Cycle

LEMMA CycleEach ==
    ASSUME NEW h \in Holdings, NEW Z \in SUBSET Zone, NEW zones \in SetToSeqs(Z),
           NEW calls \in [DOMAIN zones -> Cycle(h)]
    PROVE  FlattenSeq(calls) \in Cycle(h)
<1>1. Cardinality(Z) \in Nat
    BY LockAssumption, FS_Subset, FS_CardinalityType
<1>2. DOMAIN zones = 1 .. Cardinality(Z)
    BY DEF SetToSeqs
<1>3. calls \in Seq(Cycle(h))
    BY <1>1, <1>2
<1>4. Cycle(h) \in SUBSET Seq(Op)
    BY DEF Cycle
<1> QED BY <1>3, <1>4, CycleJoin, FlattenSeqType

LEMMA ZonesAreZones ==
    ASSUME NEW Z \in SUBSET Zone, NEW zones \in SetToSeqs(Z)
    PROVE  \A i \in DOMAIN zones : zones[i] \in Zone
BY DEF SetToSeqs

Step(op, m) == [op |-> op, mutex |-> m, call |-> ""]

LEMMA ReadCycles ==
    ASSUME NEW h \in Holdings, NEW m \in Mutex, NEW g, g = After(h, Step("RLock", m)),
           MayDo(h, Step("RLock", m)), InOrder(g, Step("RUnlock", m))
    PROVE  Read(m) \in Cycle(h)
<1>1. Step("RLock", m) \in Op /\ Step("RUnlock", m) \in Op
    BY DEF Step, Op, CallName
<1>2. g \in Holdings
    BY <1>1, AfterType
<1>3. h[m] \in {"no", "read"} /\ g[m] = (IF h[m] = "no" THEN "read" ELSE "again")
    BY DEF MayDo, Fits, Step, After, Holdings
<1>4. MayDo(g, Step("RUnlock", m))
    BY <1>3 DEF MayDo, Fits, Step
<1>5. After(g, Step("RUnlock", m)) = h
    BY <1>2, <1>3 DEF After, Step, Holdings
<1>6. Goes(h, <<Step("RLock", m)>>, g) /\ Goes(g, <<Step("RUnlock", m)>>, h)
    BY <1>1, <1>2, <1>4, <1>5, GoesOne
<1>7. <<Step("RLock", m)>> \in Seq(Op) /\ <<Step("RUnlock", m)>> \in Seq(Op)
    BY <1>1
<1>8. Goes(h, <<Step("RLock", m)>> \o <<Step("RUnlock", m)>>, h)
    BY <1>6, <1>7, GoesOn, Zenon
<1>9. <<Step("RLock", m)>> \o <<Step("RUnlock", m)>> \in Cycle(h)
    BY <1>7, <1>8 DEF Cycle
<1> QED BY <1>9 DEF Read, RLock, RUnlock, Step

LEMMA WriteCycles ==
    ASSUME NEW h \in Holdings, NEW m \in Mutex, NEW g, g = After(h, Step("Lock", m)),
           MayDo(h, Step("Lock", m)), InOrder(g, Step("Unlock", m))
    PROVE  Write(m) \in Cycle(h)
<1>1. Step("Lock", m) \in Op /\ Step("Unlock", m) \in Op
    BY DEF Step, Op, CallName
<1>2. g \in Holdings
    BY <1>1, AfterType
<1>3. h[m] = "no" /\ g[m] = "write"
    BY DEF MayDo, Fits, Step, After, Holdings
<1>4. MayDo(g, Step("Unlock", m))
    BY <1>3 DEF MayDo, Fits, Step
<1>5. After(g, Step("Unlock", m)) = h
    BY <1>2, <1>3 DEF After, Step, Holdings
<1>6. Goes(h, <<Step("Lock", m)>>, g) /\ Goes(g, <<Step("Unlock", m)>>, h)
    BY <1>1, <1>2, <1>4, <1>5, GoesOne
<1>7. <<Step("Lock", m)>> \in Seq(Op) /\ <<Step("Unlock", m)>> \in Seq(Op)
    BY <1>1
<1>8. Goes(h, <<Step("Lock", m)>> \o <<Step("Unlock", m)>>, h)
    BY <1>6, <1>7, GoesOn, Zenon
<1>9. <<Step("Lock", m)>> \o <<Step("Unlock", m)>> \in Cycle(h)
    BY <1>7, <1>8 DEF Cycle
<1> QED BY <1>9 DEF Write, Lock, Unlock, Step

(* What the calls have while they do more than take a mutex and give it    *)
(* back: nothing, the read lock of a zone, the write lock of the serials.  *)
Looking(z) == [Idle EXCEPT ![z] = "read"]
Raising    == [Idle EXCEPT !["serials"] = "write"]

LEMMA ContextTypes ==
    Idle \in Holdings /\ Raising \in Holdings /\ \A z \in Zone : Looking(z) \in Holdings
BY DEF Idle, Raising, Looking, Holdings, Hold

LEMMA AloneCycles ==
    ASSUME NEW m \in Mutex
    PROVE  Read(m) \in Cycle(Idle) /\ Write(m) \in Cycle(Idle)
<1> USE DEF Idle, MayDo, Fits, InOrder, GivesBack, Step, After, Mutex
<1>1. MayDo(Idle, Step("RLock", m)) /\ MayDo(Idle, Step("Lock", m))
    OBVIOUS
<1>2. InOrder(After(Idle, Step("RLock", m)), Step("RUnlock", m))
    BY LockAssumption
<1>3. InOrder(After(Idle, Step("Lock", m)), Step("Unlock", m))
    BY LockAssumption
<1> HIDE DEF Idle, MayDo, Fits, InOrder, GivesBack, Step, After, Mutex
<1> QED BY <1>1, <1>2, <1>3, ReadCycles, WriteCycles, ContextTypes

LEMMA RaisingCycles ==
    ASSUME NEW m \in Mutex \ {"serials"}
    PROVE  Write(m) \in Cycle(Raising)
<1> USE DEF Idle, Raising, MayDo, Fits, InOrder, GivesBack, Step, After, Mutex
<1>1. MayDo(Raising, Step("Lock", m))
    BY LockAssumption
<1>2. InOrder(After(Raising, Step("Lock", m)), Step("Unlock", m))
    BY LockAssumption
<1> HIDE DEF Idle, Raising, MayDo, Fits, InOrder, GivesBack, Step, After, Mutex
<1> QED BY <1>1, <1>2, WriteCycles, ContextTypes

LEMMA LookingCycles ==
    ASSUME NEW z \in Zone, NEW m \in {"cache", z}
    PROVE  Read(m) \in Cycle(Looking(z))
<1> USE DEF Idle, Looking, MayDo, Fits, InOrder, GivesBack, Step, After, Mutex
<1>1. MayDo(Looking(z), Step("RLock", m))
    BY LockAssumption
<1>2. InOrder(After(Looking(z), Step("RLock", m)), Step("RUnlock", m))
    BY LockAssumption
<1> HIDE DEF Idle, Looking, MayDo, Fits, InOrder, GivesBack, Step, After
<1> QED BY <1>1, <1>2, ReadCycles, ContextTypes DEF Mutex

LEMMA IdleJoin ==
    <<>> \in Cycle(Idle) /\ \A a, b \in Cycle(Idle) : a \o b \in Cycle(Idle)
BY CycleJoin, ContextTypes

LEMMA EachZoneCycles ==
    EachZone(Read) \cup EachZone(Write) \subseteq Cycle(Idle)
<1> SUFFICES ASSUME NEW Z \in SUBSET Zone, NEW zones \in SetToSeqs(Z)
             PROVE  /\ FlattenSeq([i \in DOMAIN zones |-> Read(zones[i])]) \in Cycle(Idle)
                    /\ FlattenSeq([i \in DOMAIN zones |-> Write(zones[i])]) \in Cycle(Idle)
    BY ZenonT(40) DEF EachZone
<1>1. \A i \in DOMAIN zones : zones[i] \in Mutex
    BY ZonesAreZones DEF Mutex
<1>2. [i \in DOMAIN zones |-> Read(zones[i])] \in [DOMAIN zones -> Cycle(Idle)]
    BY <1>1, AloneCycles
<1>3. [i \in DOMAIN zones |-> Write(zones[i])] \in [DOMAIN zones -> Cycle(Idle)]
    BY <1>1, AloneCycles
<1> QED BY <1>2, <1>3, CycleEach, ContextTypes

LEMMA RaiseCycles == RaiseSerials \subseteq Cycle(Idle)
<1> SUFFICES ASSUME NEW Z \in SUBSET Zone, NEW zones \in SetToSeqs(Z)
             PROVE  LET each == FlattenSeq([i \in DOMAIN zones |-> SetZoneSerial(zones[i])])
                    IN  Lock("serials") \o each \o Unlock("serials") \in Cycle(Idle)
    BY DEF RaiseSerials, EachZone
<1> DEFINE each == FlattenSeq([i \in DOMAIN zones |-> SetZoneSerial(zones[i])])
<1>1. \A i \in DOMAIN zones : zones[i] \in Mutex \ {"serials"}
    BY ZonesAreZones, LockAssumption DEF Mutex
<1>2. "cache" \in Mutex \ {"serials"}
    BY DEF Mutex
<1>3. \A i \in DOMAIN zones : SetZoneSerial(zones[i]) \in Cycle(Raising)
    BY <1>1, <1>2, RaisingCycles, CycleJoin, ContextTypes DEF SetZoneSerial
<1>4. each \in Cycle(Raising)
    BY <1>3, CycleEach, ContextTypes
<1> HIDE DEF each
<1>5. each \in Seq(Op) /\ Goes(Raising, each, Raising)
    BY <1>4 DEF Cycle
<1>6. Step("Lock", "serials") \in Op /\ Step("Unlock", "serials") \in Op
    BY DEF Step, Op, CallName, Mutex
<1> DEFINE take == <<Step("Lock", "serials")>>
           give == <<Step("Unlock", "serials")>>
<1>7. MayDo(Idle, Step("Lock", "serials")) /\ After(Idle, Step("Lock", "serials")) = Raising
    BY LockAssumption DEF MayDo, Fits, InOrder, GivesBack, Step, After, Idle, Raising, Mutex
<1>8. MayDo(Raising, Step("Unlock", "serials")) /\ After(Raising, Step("Unlock", "serials")) = Idle
    BY LockAssumption DEF MayDo, Fits, InOrder, GivesBack, Step, After, Idle, Raising, Mutex
<1>9. take \in Seq(Op) /\ give \in Seq(Op) /\ take \o each \in Seq(Op)
    BY <1>5, <1>6
<1>10. Goes(Idle, take, Raising) /\ Goes(Raising, give, Idle)
    BY <1>6, <1>7, <1>8, GoesOne, ContextTypes
<1> HIDE DEF take, give
<1>11. Goes(Idle, take \o each, Raising)
    BY <1>5, <1>9, <1>10, GoesOn, Zenon
<1>12. Goes(Idle, (take \o each) \o give, Idle)
    BY <1>9, <1>10, <1>11, GoesOn, Zenon
<1>13. (take \o each) \o give \in Seq(Op)
    BY <1>9
<1>14. (take \o each) \o give \in Cycle(Idle)
    BY <1>12, <1>13 DEF Cycle
<1> QED BY <1>14 DEF take, give, each, Lock, Unlock, Step

LEMMA RepeatCycles ==
    ASSUME NEW h \in Holdings, NEW ops \in Cycle(h), NEW n \in Nat
    PROVE  Repeat(n, ops) \in Cycle(h)
<1>1. [i \in 1 .. n |-> ops] \in Seq(Cycle(h))
    OBVIOUS
<1>2. Cycle(h) \in SUBSET Seq(Op)
    BY DEF Cycle
<1> QED BY <1>1, <1>2, CycleJoin, FlattenSeqType DEF Repeat

(* The search for a wildcard, made with nothing or with the read lock of   *)
(* the zone.                                                               *)
LEMMA FindCycles ==
    ASSUME NEW z \in Zone
    PROVE  findWildcardRecords(z) \subseteq Cycle(Idle) \cap Cycle(Looking(z))
<1>1. ASSUME NEW h \in {Idle, Looking(z)}, NEW n \in 0 .. MaxLabels - 1
      PROVE  Read("cache") \in Cycle(h) /\ Read("cache") \o Repeat(n, Read(z)) \in Cycle(h)
  <2>1. h \in Holdings
    BY ContextTypes
  <2>2. Read("cache") \in Cycle(h) /\ Read(z) \in Cycle(h)
    BY AloneCycles, LookingCycles DEF Mutex
  <2>3. n \in Nat
    BY LockAssumption
  <2> QED BY <2>1, <2>2, <2>3, RepeatCycles, CycleJoin
<1>2. 0 \in 0 .. MaxLabels - 1
    BY LockAssumption
<1> QED BY <1>1, <1>2 DEF findWildcardRecords

LEMMA LookCycles ==
    ASSUME NEW z \in Zone, NEW find \in Cycle(Looking(z))
    PROVE  Read("cache") \o RLock(z) \o find \o RUnlock(z) \in Cycle(Idle)
<1> DEFINE read == Read("cache")
           take == RLock(z)
           give == RUnlock(z)
<1>1. Step("RLock", z) \in Op /\ Step("RUnlock", z) \in Op
    BY DEF Step, Op, CallName, Mutex
<1>2. MayDo(Idle, Step("RLock", z)) /\ After(Idle, Step("RLock", z)) = Looking(z)
    BY LockAssumption DEF MayDo, Fits, InOrder, GivesBack, Step, After, Idle, Looking, Mutex
<1>3. MayDo(Looking(z), Step("RUnlock", z)) /\ After(Looking(z), Step("RUnlock", z)) = Idle
    BY LockAssumption DEF MayDo, Fits, InOrder, GivesBack, Step, After, Idle, Looking, Mutex
<1>4. Goes(Idle, take, Looking(z)) /\ Goes(Looking(z), give, Idle)
    BY <1>1, <1>2, <1>3, GoesOne, ContextTypes DEF Step, RLock, RUnlock
<1>5. take \in Seq(Op) /\ give \in Seq(Op)
  <2>1. take = <<Step("RLock", z)>> /\ give = <<Step("RUnlock", z)>>
    BY DEF Step, RLock, RUnlock
  <2> HIDE DEF take, give
  <2> QED BY <1>1, <2>1
<1>6. read \in Seq(Op) /\ Goes(Idle, read, Idle)
    BY AloneCycles DEF Cycle, Mutex
<1>7. find \in Seq(Op) /\ Goes(Looking(z), find, Looking(z))
    BY DEF Cycle
<1> HIDE DEF read, take, give
<1>8. read \o take \in Seq(Op) /\ (read \o take) \o find \in Seq(Op)
      /\ ((read \o take) \o find) \o give \in Seq(Op)
    BY <1>5, <1>6, <1>7
<1>9. Goes(Idle, read \o take, Looking(z))
    BY <1>4, <1>5, <1>6, GoesOn, Zenon
<1>10. Goes(Idle, (read \o take) \o find, Looking(z))
    BY <1>7, <1>8, <1>9, GoesOn, Zenon
<1>11. Goes(Idle, ((read \o take) \o find) \o give, Idle)
    BY <1>4, <1>5, <1>8, <1>10, GoesOn, Zenon
<1>12. ((read \o take) \o find) \o give \in Cycle(Idle)
    BY <1>8, <1>11 DEF Cycle
<1> QED BY <1>12 DEF read, take, give

LEMMA GetRecordsCycles ==
    ASSUME NEW z \in Zone
    PROVE  GetRecords(z) \subseteq Cycle(Idle)
<1>1. Read("cache") \in Cycle(Idle) /\ Read(z) \in Cycle(Idle)
    BY AloneCycles DEF Mutex
<1> HIDE DEF Cycle
<1>2. GetRecordsHit(z) \subseteq Cycle(Idle)
    BY <1>1, IdleJoin DEF GetRecordsHit
<1>3. \A find \in findWildcardRecords(z) : Read("cache") \o find \in Cycle(Idle)
    BY <1>1, FindCycles, IdleJoin
<1>4. \A find \in findWildcardRecords(z) :
        Read("cache") \o RLock(z) \o find \o RUnlock(z) \in Cycle(Idle)
    BY FindCycles, LookCycles
<1> QED BY <1>2, <1>3, <1>4 DEF GetRecords, GetRecordsMiss

LEMMA OneZoneCycles ==
    ASSUME NEW z \in Zone
    PROVE  AddRecord(z) \cup RemoveRecord(z) \cup ReadZone(z) \subseteq Cycle(Idle)
<1>1. /\ Read("cache") \in Cycle(Idle) /\ Write("cache") \in Cycle(Idle)
      /\ Read(z) \in Cycle(Idle) /\ Write(z) \in Cycle(Idle)
    BY AloneCycles DEF Mutex
<1> QED BY <1>1, IdleJoin DEF AddRecord, RemoveRecord, ReadZone

(* Only who has nothing may send.                                          *)
LEMMA TransferCycles ==
    ASSUME NEW z \in Zone
    PROVE  Transfer(z) \subseteq Cycle(Idle)
<1>1. Read("cache") \in Cycle(Idle) /\ Read(z) \in Cycle(Idle)
    BY AloneCycles DEF Mutex
<1>2. Send(z) \in Cycle(Idle)
  <2>1. Step("Send", z) \in Op
    BY DEF Step, Op, CallName, Mutex
  <2>2. MayDo(Idle, Step("Send", z))
    BY LockAssumption DEF MayDo, Fits, InOrder, Step, Idle, Mutex
  <2>3. After(Idle, Step("Send", z)) = Idle
    BY DEF After, Step, Idle, Mutex
  <2>4. Goes(Idle, <<Step("Send", z)>>, Idle)
    BY <2>1, <2>2, <2>3, GoesOne, ContextTypes
  <2>5. <<Step("Send", z)>> \in Cycle(Idle)
    BY <2>1, <2>4 DEF Cycle
  <2> QED BY <2>5 DEF Send, Step
<1> QED BY <1>1, <1>2, IdleJoin DEF Transfer

LEMMA NamedCycles ==
    ASSUME NEW calls \in SUBSET Cycle(Idle), NEW name \in CallName
    PROVE  Named(name, calls) \subseteq Cycle(Idle)
BY GoesNamed DEF Named, Cycle

(* Every call gives back what it takes, in the order of the locks.         *)
LEMMA CallsCycle ==
    ASSUME NEW p \in Process
    PROVE  CallsOf(p) \subseteq Cycle(Idle)
<1>1. /\ OfSomeZone(AddRecord) \subseteq Cycle(Idle)
      /\ OfSomeZone(RemoveRecord) \subseteq Cycle(Idle)
      /\ OfSomeZone(ReadZone) \subseteq Cycle(Idle)
      /\ OfSomeZone(GetRecords) \subseteq Cycle(Idle)
      /\ OfSomeZone(Transfer) \subseteq Cycle(Idle)
    BY OneZoneCycles, GetRecordsCycles, TransferCycles DEF OfSomeZone
<1>2. /\ RemoveAllPTRRecordsForName \subseteq Cycle(Idle)
      /\ updateMetrics \subseteq Cycle(Idle) /\ ReadSerials \subseteq Cycle(Idle)
  <2>1. Read("cache") \in Cycle(Idle) /\ Read("serials") \in Cycle(Idle)
    BY AloneCycles DEF Mutex
  <2> QED BY <2>1, IdleJoin, EachZoneCycles
          DEF RemoveAllPTRRecordsForName, updateMetrics, ReadSerials
<1>3. WatcherCalls \subseteq Cycle(Idle)
    BY <1>1, <1>2, RaiseCycles, NamedCycles DEF WatcherCalls, CallName
<1>4. ClientCalls \subseteq Cycle(Idle)
    BY <1>1, <1>2, NamedCycles DEF ClientCalls, CallName
<1>5. Named("updateMetrics", updateMetrics) \subseteq Cycle(Idle)
    BY <1>2, NamedCycles DEF CallName
<1> QED BY <1>3, <1>4, <1>5 DEF CallsOf

------------------------------------------------------------------------------
(* The inductive invariant: what a process has of the mutexes is what the  *)
(* rest of its call gives back, a writer that waits is about to lock, and  *)
(* the readers it keeps out are about to read.                             *)

HoldOf(l, p) ==
    IF l.owner = p /\ l.locked THEN "write"
    ELSE IF l.readers[p] = 0 THEN "no" ELSE IF l.readers[p] = 1 THEN "read" ELSE "again"

Holding(p) == [m \in Mutex |-> HoldOf(lock[m], p)]

LockType == [owner : Process \cup {NoOne}, locked : BOOLEAN,
             readers : [Process -> 0 .. 2], queued : SUBSET Process]

IType    == lock \in [Mutex -> LockType] /\ todo \in [Process -> Seq(Op)]
Returns  == \A p \in Process : Goes(Holding(p), todo[p], Idle)
WriterOK(m) ==
    /\ lock[m].locked => (lock[m].owner # NoOne /\ NoReaders(m))
    /\ (lock[m].owner # NoOne /\ ~lock[m].locked) =>
            (AtOp(lock[m].owner, "Lock") /\ On(lock[m].owner) = m)
QueueOK(m) ==
    \A q \in lock[m].queued : lock[m].owner # NoOne /\ AtOp(q, "RLock") /\ On(q) = m

LocksOK == \A m \in Mutex : WriterOK(m) /\ QueueOK(m)

Inv == IType /\ Returns /\ LocksOK

LEMMA InitInv == Init => Inv
<1> SUFFICES ASSUME Init PROVE Inv
    OBVIOUS
<1>1. Free \in LockType
    BY DEF Free, LockType
<1>2. IType
    BY <1>1 DEF Init, IType
<1>3. \A p \in Process : Holding(p) = Idle
    BY LockAssumption DEF Init, Holding, HoldOf, Idle, Free
<1>4. Returns
    BY <1>3, GoesNowhere, ContextTypes DEF Init, Returns
<1>5. LocksOK
    BY DEF Init, LocksOK, WriterOK, QueueOK, Free
<1> QED BY <1>2, <1>4, <1>5 DEF Inv

(* What a process at an operation has, and what is left after it.          *)
LEMMA AtHead ==
    ASSUME Inv, NEW p \in Process, todo[p] # <<>>
    PROVE  /\ Head(todo[p]) \in Op /\ Tail(todo[p]) \in Seq(Op) /\ On(p) \in Mutex
           /\ MayDo(Holding(p), Head(todo[p]))
           /\ Goes(After(Holding(p), Head(todo[p])), Tail(todo[p]), Idle)
           /\ Holding(p)[On(p)] = HoldOf(lock[On(p)], p)
<1>1. todo[p] \in Seq(Op) /\ Goes(Holding(p), todo[p], Idle)
    BY DEF Inv, IType, Returns
<1>2. Head(todo[p]) \in Op /\ Tail(todo[p]) \in Seq(Op)
    BY <1>1
<1>3. On(p) \in Mutex
    BY <1>2 DEF On, Op
<1> QED BY <1>1, <1>2, <1>3, GoesFirst DEF Holding

LEMMA HoldingMoves ==
    ASSUME Inv, NEW m \in Mutex, NEW q \in Process, NEW new,
           lock' = [lock EXCEPT ![m] = new]
    PROVE  Holding(q)' = [Holding(q) EXCEPT ![m] = HoldOf(new, q)]
BY DEF Inv, IType, Holding, HoldOf

(* Whoever waits for a mutex that a step leaves alone has not moved.       *)
LEMMA Elsewhere ==
    ASSUME Inv, NEW m \in Mutex, lock'[m] = lock[m],
           \A q \in Process : (AtOp(q, "Lock") \/ AtOp(q, "RLock")) /\ On(q) = m =>
                todo'[q] = todo[q]
    PROVE  WriterOK(m)' /\ QueueOK(m)'
<1>1. WriterOK(m) /\ QueueOK(m) /\ lock[m] \in LockType
    BY DEF Inv, LocksOK, IType
<1>2. lock[m].owner \in Process \cup {NoOne} /\ lock[m].queued \subseteq Process
    BY <1>1 DEF LockType
<1>3. WriterOK(m)'
    BY <1>1, <1>2 DEF WriterOK, NoReaders, AtOp, On
<1>4. QueueOK(m)'
    BY <1>1, <1>2 DEF QueueOK, AtOp, On
<1> QED BY <1>3, <1>4

LEMMA AdvanceType ==
    ASSUME Inv, NEW P \in SUBSET Process, Advance(P), \A q \in P : todo[q] # <<>>
    PROVE  /\ todo' \in [Process -> Seq(Op)]
           /\ \A q \in Process : todo'[q] = IF q \in P THEN Tail(todo[q]) ELSE todo[q]
<1>1. \A q \in P : Tail(todo[q]) \in Seq(Op)
    BY AtHead
<1> QED BY <1>1 DEF Advance, Inv, IType

(* A step in which some go on by one operation and the others stay.        *)
LEMMA ReturnsKept ==
    ASSUME Inv, NEW P \in SUBSET Process, Advance(P), \A q \in P : todo[q] # <<>>,
           \A q \in P : Holding(q)' = After(Holding(q), Head(todo[q])),
           \A q \in Process \ P : Holding(q)' = Holding(q)
    PROVE  Returns'
<1> SUFFICES ASSUME NEW q \in Process
             PROVE  Goes(Holding(q)', todo'[q], Idle)
    BY DEF Returns, Goes
<1>1. CASE q \in P
    BY <1>1, AtHead, AdvanceType
<1>2. CASE q \notin P
    BY <1>2, AdvanceType DEF Inv, Returns
<1> QED BY <1>1, <1>2

(* The conjuncts of the invariant that follow alike for every step.        *)
LEMMA StepOf ==
    ASSUME Inv, NEW P \in SUBSET Process, Advance(P), \A q \in P : todo[q] # <<>>,
           NEW m \in Mutex, NEW new \in LockType, lock' = [lock EXCEPT ![m] = new],
           \A q \in P : [Holding(q) EXCEPT ![m] = HoldOf(new, q)] = After(Holding(q), Head(todo[q])),
           \A q \in Process \ P : HoldOf(new, q) = HoldOf(lock[m], q),
           \A q \in P : On(q) = m,
           WriterOK(m)' /\ QueueOK(m)'
    PROVE  Inv'
<1>1. IType'
    BY AdvanceType DEF IType, Inv
<1>2. \A q \in P : Holding(q)' = After(Holding(q), Head(todo[q]))
    BY ZenonT(40), HoldingMoves
<1>3. \A q \in Process \ P : Holding(q)' = Holding(q)
    BY HoldingMoves DEF Holding
<1>4. Returns'
    BY <1>2, <1>3, ReturnsKept
<1>5. ASSUME NEW k \in Mutex \ {m}
      PROVE  WriterOK(k)' /\ QueueOK(k)'
  <2>1. lock'[k] = lock[k]
    BY DEF Inv, IType
  <2>2. \A q \in Process : On(q) = k => todo'[q] = todo[q]
    BY AdvanceType
  <2> QED BY <2>1, <2>2, Elsewhere
<1> QED BY <1>1, <1>4, <1>5 DEF Inv, LocksOK

LEMMA ReadStep ==
    ASSUME Inv, NEW p \in Process, AtOp(p, "RLock"), NEW m, m = On(p),
           lock[m].owner = NoOne,
           lock' = [lock EXCEPT ![m].readers[p] = @ + 1], Advance({p})
    PROVE  Inv'
<1>1. todo[p] # <<>> /\ Head(todo[p]).op = "RLock"
    BY DEF AtOp
<1>2. m \in Mutex /\ lock[m] \in LockType /\ Head(todo[p]).mutex = m
    BY <1>1, AtHead DEF Inv, IType, On
<1>3. MayDo(Holding(p), Head(todo[p])) /\ Holding(p)[m] = HoldOf(lock[m], p)
    BY <1>1, AtHead
<1>4. NoOne # p
    BY LockAssumption
<1>5. lock[m].readers[p] \in {0, 1}
    BY <1>1, <1>2, <1>3, <1>4 DEF MayDo, Fits, HoldOf, LockType
<1>6. PICK new : new = [lock[m] EXCEPT !.readers[p] = @ + 1]
    OBVIOUS
<1>7. lock' = [lock EXCEPT ![m] = new] /\ new \in LockType
    BY <1>2, <1>5, <1>6 DEF LockType
<1>8. new.owner = NoOne /\ new.locked = lock[m].locked /\ new.queued = lock[m].queued
      /\ new.readers = [lock[m].readers EXCEPT ![p] = @ + 1]
    BY <1>2, <1>6 DEF LockType
<1>9. \A q \in Process \ {p} : HoldOf(new, q) = HoldOf(lock[m], q)
    BY <1>2, <1>8 DEF HoldOf, LockType
<1>10. HoldOf(new, p) = IF HoldOf(lock[m], p) = "no" THEN "read" ELSE "again"
    BY <1>2, <1>4, <1>5, <1>8 DEF HoldOf, LockType
<1>11. [Holding(p) EXCEPT ![m] = HoldOf(new, p)] = After(Holding(p), Head(todo[p]))
    BY <1>1, <1>2, <1>3, <1>10 DEF After
<1>12. lock'[m] = new
    BY <1>2, <1>7 DEF Inv, IType
<1>13. WriterOK(m)' /\ QueueOK(m)'
  <2>1. WriterOK(m) /\ QueueOK(m)
    BY <1>2 DEF Inv, LocksOK
  <2>2. lock[m].queued = {} /\ ~lock[m].locked
    BY <2>1 DEF WriterOK, QueueOK
  <2> QED BY <2>2, <1>8, <1>12 DEF WriterOK, QueueOK
<1>14. PICK P \in SUBSET Process : P = {p}
    OBVIOUS
<1>15. /\ Advance(P)
       /\ \A q \in P : todo[q] # <<>>
       /\ \A q \in P : On(q) = m
       /\ \A q \in P : [Holding(q) EXCEPT ![m] = HoldOf(new, q)] = After(Holding(q), Head(todo[q]))
       /\ \A q \in Process \ P : HoldOf(new, q) = HoldOf(lock[m], q)
    BY <1>1, <1>9, <1>11, <1>14
<1> QED BY <1>2, <1>7, <1>13, <1>15, StepOf

(* A step that moves nobody on.                                            *)
LEMMA WaitingStep ==
    ASSUME Inv, UNCHANGED todo,
           NEW m \in Mutex, NEW new \in LockType, lock' = [lock EXCEPT ![m] = new],
           \A q \in Process : HoldOf(new, q) = HoldOf(lock[m], q),
           WriterOK(m)' /\ QueueOK(m)'
    PROVE  Inv'
<1>1. PICK P \in SUBSET Process : P = {}
    OBVIOUS
<1>2. /\ Advance(P)
      /\ \A q \in P : todo[q] # <<>>
      /\ \A q \in P : On(q) = m
      /\ \A q \in P : [Holding(q) EXCEPT ![m] = HoldOf(new, q)] = After(Holding(q), Head(todo[q]))
      /\ \A q \in Process \ P : HoldOf(new, q) = HoldOf(lock[m], q)
    BY <1>1 DEF Advance, Inv, IType
<1> QED BY <1>2, StepOf

LEMMA QueueStep ==
    ASSUME Inv, NEW p \in Process, AtOp(p, "RLock"), NEW m, m = On(p),
           lock[m].owner # NoOne,
           lock' = [lock EXCEPT ![m].queued = @ \cup {p}], UNCHANGED todo
    PROVE  Inv'
<1>1. todo[p] # <<>>
    BY DEF AtOp
<1>2. m \in Mutex /\ lock[m] \in LockType
    BY <1>1, AtHead DEF Inv, IType
<1>3. PICK new : new = [lock[m] EXCEPT !.queued = @ \cup {p}]
    OBVIOUS
<1>4. lock' = [lock EXCEPT ![m] = new] /\ new \in LockType
    BY <1>2, <1>3 DEF LockType
<1>5. /\ new.owner = lock[m].owner /\ new.locked = lock[m].locked
      /\ new.readers = lock[m].readers /\ new.queued = lock[m].queued \cup {p}
    BY <1>2, <1>3 DEF LockType
<1>6. \A q \in Process : HoldOf(new, q) = HoldOf(lock[m], q)
    BY <1>5 DEF HoldOf
<1>7. lock'[m] = new
    BY <1>2, <1>4 DEF Inv, IType
<1>8. WriterOK(m) /\ QueueOK(m)
    BY <1>2 DEF Inv, LocksOK
<1>9. WriterOK(m)'
    BY <1>5, <1>7, <1>8 DEF WriterOK, NoReaders, AtOp, On
<1>10. QueueOK(m)'
    BY <1>5, <1>7, <1>8 DEF QueueOK, AtOp, On
<1> QED BY <1>2, <1>4, <1>6, <1>9, <1>10, WaitingStep

LEMMA AnnounceStep ==
    ASSUME Inv, NEW p \in Process, AtOp(p, "Lock"), NEW m, m = On(p),
           lock[m].owner = NoOne,
           lock' = [lock EXCEPT ![m].owner = p], UNCHANGED todo
    PROVE  Inv'
<1>1. todo[p] # <<>>
    BY DEF AtOp
<1>2. m \in Mutex /\ lock[m] \in LockType
    BY <1>1, AtHead DEF Inv, IType
<1>3. WriterOK(m) /\ QueueOK(m)
    BY <1>2 DEF Inv, LocksOK
<1>4. ~lock[m].locked /\ lock[m].queued = {}
    BY <1>3 DEF WriterOK, QueueOK
<1>5. PICK new : new = [lock[m] EXCEPT !.owner = p]
    OBVIOUS
<1>6. lock' = [lock EXCEPT ![m] = new] /\ new \in LockType
    BY <1>2, <1>5 DEF LockType
<1>7. /\ new.owner = p /\ new.locked = FALSE
      /\ new.readers = lock[m].readers /\ new.queued = {}
    BY <1>2, <1>4, <1>5 DEF LockType
<1>8. \A q \in Process : HoldOf(new, q) = HoldOf(lock[m], q)
    BY <1>4, <1>7 DEF HoldOf
<1>9. lock'[m] = new
    BY <1>2, <1>6 DEF Inv, IType
<1>10. WriterOK(m)' /\ QueueOK(m)'
    BY <1>7, <1>9 DEF WriterOK, QueueOK, AtOp, On
<1> QED BY <1>2, <1>6, <1>8, <1>10, WaitingStep

(* A step that moves one process on.                                       *)
LEMMA OwnStep ==
    ASSUME Inv, NEW p \in Process, todo[p] # <<>>, Advance({p}),
           NEW m \in Mutex, m = On(p),
           NEW new \in LockType, lock' = [lock EXCEPT ![m] = new],
           [Holding(p) EXCEPT ![m] = HoldOf(new, p)] = After(Holding(p), Head(todo[p])),
           \A q \in Process \ {p} : HoldOf(new, q) = HoldOf(lock[m], q),
           WriterOK(m)' /\ QueueOK(m)'
    PROVE  Inv'
<1>1. PICK P \in SUBSET Process : P = {p}
    OBVIOUS
<1>2. /\ Advance(P)
      /\ \A q \in P : todo[q] # <<>>
      /\ \A q \in P : On(q) = m
      /\ \A q \in P : [Holding(q) EXCEPT ![m] = HoldOf(new, q)] = After(Holding(q), Head(todo[q]))
      /\ \A q \in Process \ P : HoldOf(new, q) = HoldOf(lock[m], q)
    BY <1>1
<1> QED BY <1>2, StepOf

LEMMA RUnlockStep ==
    ASSUME Inv, NEW p \in Process, AtOp(p, "RUnlock"), NEW m, m = On(p),
           lock' = [lock EXCEPT ![m].readers[p] = @ - 1], Advance({p})
    PROVE  Inv'
<1>1. todo[p] # <<>> /\ Head(todo[p]).op = "RUnlock"
    BY DEF AtOp
<1>2. m \in Mutex /\ lock[m] \in LockType /\ Head(todo[p]).mutex = m
    BY <1>1, AtHead DEF Inv, IType, On
<1>3. MayDo(Holding(p), Head(todo[p])) /\ Holding(p)[m] = HoldOf(lock[m], p)
    BY <1>1, AtHead
<1>4. HoldOf(lock[m], p) \in {"read", "again"}
    BY <1>1, <1>2, <1>3 DEF MayDo, Fits
<1>5. lock[m].readers[p] \in {1, 2} /\ ~(lock[m].owner = p /\ lock[m].locked)
      /\ (lock[m].readers[p] = 1 <=> HoldOf(lock[m], p) = "read")
    BY <1>2, <1>4 DEF HoldOf, LockType
<1>6. PICK new : new = [lock[m] EXCEPT !.readers[p] = @ - 1]
    OBVIOUS
<1>7. lock' = [lock EXCEPT ![m] = new] /\ new \in LockType
    BY <1>2, <1>5, <1>6 DEF LockType
<1>8. /\ new.owner = lock[m].owner /\ new.locked = lock[m].locked /\ new.queued = lock[m].queued
      /\ new.readers = [lock[m].readers EXCEPT ![p] = @ - 1]
    BY <1>2, <1>6 DEF LockType
<1>9. \A q \in Process \ {p} : HoldOf(new, q) = HoldOf(lock[m], q)
    BY <1>2, <1>8 DEF HoldOf, LockType
<1>10. HoldOf(new, p) = IF HoldOf(lock[m], p) = "again" THEN "read" ELSE "no"
    BY <1>2, <1>4, <1>5, <1>8 DEF HoldOf, LockType
<1>11. [Holding(p) EXCEPT ![m] = HoldOf(new, p)] = After(Holding(p), Head(todo[p]))
    BY <1>1, <1>2, <1>3, <1>10 DEF After
<1>12. lock'[m] = new
    BY <1>2, <1>7 DEF Inv, IType
<1>13. WriterOK(m) /\ QueueOK(m)
    BY <1>2 DEF Inv, LocksOK
<1>14. ~lock[m].locked
    BY <1>5, <1>13 DEF WriterOK, NoReaders
<1>15. ASSUME NEW q \in Process, q # p
       PROVE  todo'[q] = todo[q]
    BY <1>15 DEF Advance
<1>16. WriterOK(m)'
  <2>1. new.owner # NoOne => new.owner # p /\ new.owner \in Process
    BY <1>1, <1>2, <1>8, <1>13, <1>14 DEF WriterOK, AtOp, LockType
  <2> QED BY ZenonT(40), <2>1, <1>8, <1>12, <1>13, <1>14, <1>15 DEF WriterOK, AtOp, On
<1>17. QueueOK(m)'
  <2>1. \A q \in new.queued : q # p /\ q \in Process
    BY <1>1, <1>2, <1>8, <1>13 DEF QueueOK, AtOp, LockType
  <2> QED BY ZenonT(40), <2>1, <1>8, <1>12, <1>13, <1>15 DEF QueueOK, AtOp, On
<1> QED BY ZenonT(40), <1>1, <1>2, <1>7, <1>9, <1>11, <1>16, <1>17, OwnStep

LEMMA AcquireStep ==
    ASSUME Inv, NEW p \in Process, AtOp(p, "Lock"), NEW m, m = On(p),
           lock[m].owner = p, NoReaders(m),
           lock' = [lock EXCEPT ![m].locked = TRUE], Advance({p})
    PROVE  Inv'
<1>1. todo[p] # <<>> /\ Head(todo[p]).op = "Lock"
    BY DEF AtOp
<1>2. m \in Mutex /\ lock[m] \in LockType /\ Head(todo[p]).mutex = m
    BY <1>1, AtHead DEF Inv, IType, On
<1>3. PICK new : new = [lock[m] EXCEPT !.locked = TRUE]
    OBVIOUS
<1>4. lock' = [lock EXCEPT ![m] = new] /\ new \in LockType
    BY <1>2, <1>3 DEF LockType
<1>5. /\ new.owner = p /\ new.locked = TRUE /\ new.queued = lock[m].queued
      /\ new.readers = lock[m].readers
    BY <1>2, <1>3 DEF LockType
<1>6. \A q \in Process \ {p} : HoldOf(new, q) = HoldOf(lock[m], q)
    BY <1>5 DEF HoldOf
<1>7. HoldOf(new, p) = "write"
    BY <1>5 DEF HoldOf
<1>8. [Holding(p) EXCEPT ![m] = HoldOf(new, p)] = After(Holding(p), Head(todo[p]))
    BY <1>1, <1>2, <1>7 DEF After
<1>9. lock'[m] = new
    BY <1>2, <1>4 DEF Inv, IType
<1>10. QueueOK(m)
    BY <1>2 DEF Inv, LocksOK
<1>11. WriterOK(m)'
    BY <1>5, <1>9, LockAssumption DEF WriterOK, NoReaders
<1>12. QueueOK(m)'
  <2>1. \A q \in new.queued : q # p /\ q \in Process
    BY <1>1, <1>2, <1>5, <1>10 DEF QueueOK, AtOp, LockType
  <2>2. \A q \in new.queued : todo'[q] = todo[q]
    BY <1>1, <2>1, AdvanceType
  <2>3. new.owner # NoOne /\ \A q \in new.queued : AtOp(q, "RLock") /\ On(q) = m
    BY <1>5, LockAssumption, <1>10 DEF QueueOK
  <2>4. \A q \in new.queued : AtOp(q, "RLock")' /\ On(q)' = m
    BY <2>2, <2>3, Zenon DEF AtOp, On
  <2> QED BY <1>9, <2>3, <2>4, ZenonT(40) DEF QueueOK
<1> QED BY ZenonT(40), <1>1, <1>2, <1>4, <1>6, <1>8, <1>11, <1>12, OwnStep

LEMMA UnlockStep ==
    ASSUME Inv, NEW p \in Process, AtOp(p, "Unlock"), NEW m, m = On(p),
           NEW next, next = lock[m].queued,
           lock' = [lock EXCEPT
               ![m].owner = NoOne, ![m].locked = FALSE, ![m].queued = {},
               ![m].readers = [q \in Process |-> IF q \in next THEN @[q] + 1 ELSE @[q]]],
           Advance({p} \cup next)
    PROVE  Inv'
<1>1. todo[p] # <<>> /\ Head(todo[p]).op = "Unlock"
    BY DEF AtOp
<1>2. m \in Mutex /\ lock[m] \in LockType /\ Head(todo[p]).mutex = m
    BY <1>1, AtHead DEF Inv, IType, On
<1>3. MayDo(Holding(p), Head(todo[p])) /\ Holding(p)[m] = HoldOf(lock[m], p)
    BY <1>1, AtHead
<1>4. lock[m].owner = p /\ lock[m].locked
    BY <1>1, <1>2, <1>3 DEF MayDo, Fits, HoldOf
<1>5. WriterOK(m) /\ QueueOK(m)
    BY <1>2 DEF Inv, LocksOK
<1>6. \A q \in Process : lock[m].readers[q] = 0
    BY <1>4, <1>5 DEF WriterOK, NoReaders
<1>7. next \in SUBSET Process /\ p \notin next
    BY <1>1, <1>2, <1>5 DEF LockType, QueueOK, AtOp
<1>8. PICK new : new = [lock[m] EXCEPT
        !.owner = NoOne, !.locked = FALSE, !.queued = {},
        !.readers = [q \in Process |-> IF q \in next THEN @[q] + 1 ELSE @[q]]]
    OBVIOUS
<1>9. lock' = [lock EXCEPT ![m] = new]
    BY <1>2, <1>8
<1>10. /\ new.owner = NoOne /\ new.locked = FALSE /\ new.queued = {}
       /\ new.readers = [q \in Process |-> IF q \in next THEN 1 ELSE 0]
    BY <1>2, <1>6, <1>8 DEF LockType
<1>11. new \in LockType
  <2>1. new = [owner |-> NoOne, locked |-> FALSE, queued |-> {},
               readers |-> [q \in Process |-> IF q \in next THEN 1 ELSE 0]]
    <3>1. new = [owner |-> NoOne, locked |-> FALSE, queued |-> {}, readers |-> new.readers]
      BY <1>2, <1>8 DEF LockType
    <3> QED BY <3>1, <1>10
  <2>2. [q \in Process |-> IF q \in next THEN 1 ELSE 0] \in [Process -> 0 .. 2]
    OBVIOUS
  <2> QED BY <2>1, <2>2 DEF LockType
<1>12. \A q \in Process : HoldOf(new, q) = IF q \in next THEN "read" ELSE "no"
    BY <1>10, LockAssumption DEF HoldOf
<1>13. \A q \in Process \ {p} : HoldOf(lock[m], q) = "no"
    BY <1>4, <1>6 DEF HoldOf
<1>14. \A q \in next : todo[q] # <<>> /\ Head(todo[q]).op = "RLock" /\ Head(todo[q]).mutex = m
                         /\ On(q) = m
    BY <1>5 DEF QueueOK, AtOp, On
<1>15. PICK P \in SUBSET Process : P = {p} \cup next
    BY <1>7
<1>16. /\ Advance(P)
       /\ \A q \in P : todo[q] # <<>>
       /\ \A q \in P : On(q) = m
    BY <1>1, <1>14, <1>15
<1>17. ASSUME NEW q \in P
       PROVE  [Holding(q) EXCEPT ![m] = HoldOf(new, q)] = After(Holding(q), Head(todo[q]))
  <2>1. CASE q = p
    BY <2>1, <1>1, <1>2, <1>7, <1>12 DEF After
  <2>2. CASE q \in next
    <3>1. Holding(q)[m] = "no"
      BY <2>2, <1>2, <1>7, <1>13 DEF Holding
    <3> QED BY <2>2, <3>1, <1>7, <1>12, <1>14 DEF After
  <2> QED BY <2>1, <2>2, <1>15
<1>18. \A q \in Process \ P : HoldOf(new, q) = HoldOf(lock[m], q)
    BY <1>12, <1>13, <1>15
<1>19. lock'[m] = new
    BY <1>2, <1>9 DEF Inv, IType
<1>20. WriterOK(m)' /\ QueueOK(m)'
    BY <1>10, <1>19 DEF WriterOK, QueueOK
<1> QED BY <1>2, <1>9, <1>11, <1>16, <1>17, <1>18, <1>20, StepOf

(* Who sends has nothing to do with the mutexes.                           *)
LEMMA ReceiveStep ==
    ASSUME Inv, NEW p \in Process, Receive(p)
    PROVE  Inv'
<1>1. todo[p] # <<>> /\ Head(todo[p]).op = "Send" /\ Advance({p}) /\ lock' = lock
    BY DEF Receive, AtOp
<1>2. PICK m \in Mutex : m = On(p)
    BY <1>1, AtHead
<1>3. MayDo(Holding(p), Head(todo[p])) /\ Holding(p)[m] = HoldOf(lock[m], p)
    BY <1>1, <1>2, AtHead
<1>4. Holding(p)[m] = "no"
    BY <1>1, <1>3 DEF MayDo, Fits
<1>5. PICK new \in LockType : new = lock[m]
    BY <1>2 DEF Inv, IType
<1>6. lock' = [lock EXCEPT ![m] = new]
    BY <1>1, <1>5 DEF Inv, IType
<1>7. [Holding(p) EXCEPT ![m] = HoldOf(new, p)] = After(Holding(p), Head(todo[p]))
    BY <1>1, <1>2, <1>3, <1>4, <1>5 DEF After, On
<1>8. \A q \in Process : (AtOp(q, "Lock") \/ AtOp(q, "RLock")) => todo'[q] = todo[q]
    BY <1>1, AdvanceType DEF AtOp
<1>9. WriterOK(m)' /\ QueueOK(m)'
    BY <1>1, <1>8, Elsewhere
<1>10. \A q \in Process \ {p} : HoldOf(new, q) = HoldOf(lock[m], q)
    BY <1>5
<1> QED BY ZenonT(40), <1>1, <1>2, <1>5, <1>6, <1>7, <1>9, <1>10, OwnStep

LEMMA CallStep ==
    ASSUME Inv, NEW p \in Process, Call(p)
    PROVE  Inv'
<1>1. PICK ops \in CallsOf(p) : todo' = [todo EXCEPT ![p] = ops]
    BY DEF Call
<1>2. ops \in Seq(Op) /\ Goes(Idle, ops, Idle)
    BY CallsCycle DEF Cycle
<1>3. lock' = lock /\ todo[p] = <<>>
    BY DEF Call
<1>4. IType'
    BY <1>1, <1>2, <1>3 DEF Inv, IType
<1>5. todo'[p] = ops /\ \A q \in Process \ {p} : todo'[q] = todo[q]
    BY <1>1 DEF Inv, IType
<1>6. Holding(p) = Idle
    BY <1>3, GoesNoFurther DEF Inv, Returns
<1>7. \A q \in Process : Holding(q)' = Holding(q)
    BY <1>3 DEF Holding, HoldOf
<1>8. Returns'
  <2> SUFFICES ASSUME NEW q \in Process
               PROVE  Goes(Holding(q)', todo'[q], Idle)
    BY DEF Returns, Goes
  <2>1. CASE q = p
    BY <2>1, <1>2, <1>5, <1>6, <1>7
  <2>2. CASE q # p
    BY <2>2, <1>5, <1>7 DEF Inv, Returns
  <2> QED BY <2>1, <2>2
<1>9. LocksOK'
  <2> SUFFICES ASSUME NEW m \in Mutex PROVE WriterOK(m)' /\ QueueOK(m)'
    BY DEF LocksOK
  <2>1. \A q \in Process : (AtOp(q, "Lock") \/ AtOp(q, "RLock")) => todo'[q] = todo[q]
    BY <1>3, <1>5 DEF AtOp
  <2>2. lock'[m] = lock[m]
    BY <1>3
  <2> QED BY <2>1, <2>2, Elsewhere
<1> QED BY <1>4, <1>8, <1>9 DEF Inv

LEMMA StepInv == Inv /\ [Next]_vars => Inv'
<1> SUFFICES ASSUME Inv, [Next]_vars PROVE Inv'
    OBVIOUS
<1>1. CASE UNCHANGED vars
  <2>1. lock' = lock /\ todo' = todo
    BY <1>1 DEF vars
  <2>2. IType'
    BY <2>1 DEF Inv, IType
  <2>3. Returns'
    <3>1. \A q \in Process : Holding(q)' = Holding(q)
      BY <2>1 DEF Holding, HoldOf
    <3> SUFFICES ASSUME NEW q \in Process
                 PROVE  Goes(Holding(q)', todo'[q], Idle)
      BY DEF Returns, Goes
    <3> QED BY <2>1, <3>1 DEF Inv, Returns
  <2>4. LocksOK'
    BY <2>1, Elsewhere DEF LocksOK
  <2> QED BY <2>2, <2>3, <2>4 DEF Inv
<1>2. ASSUME NEW p \in Process, Call(p)
      PROVE  Inv'
    BY <1>2, CallStep
<1>3. ASSUME NEW p \in Process, StartRLock(p)
      PROVE  Inv'
  <2>1. CASE lock[On(p)].owner = NoOne
    BY <1>3, <2>1, ReadStep DEF StartRLock
  <2>2. CASE lock[On(p)].owner # NoOne
    BY <1>3, <2>2, QueueStep DEF StartRLock
  <2> QED BY <2>1, <2>2
<1>4. ASSUME NEW p \in Process, DoRUnlock(p)
      PROVE  Inv'
    BY <1>4, RUnlockStep DEF DoRUnlock
<1>5. ASSUME NEW p \in Process, Announce(p)
      PROVE  Inv'
    BY <1>5, AnnounceStep DEF Announce
<1>6. ASSUME NEW p \in Process, Acquire(p)
      PROVE  Inv'
    BY <1>6, AcquireStep DEF Acquire
<1>7. ASSUME NEW p \in Process, DoUnlock(p)
      PROVE  Inv'
    BY <1>7, UnlockStep DEF DoUnlock
<1>8. ASSUME NEW p \in Process, Receive(p)
      PROVE  Inv'
    BY <1>8, ReceiveStep
<1> QED BY <1>1, <1>2, <1>3, <1>4, <1>5, <1>6, <1>7, <1>8 DEF Next, Work

LEMMA InvAlways == Spec => []Inv
<1>1. Init => Inv
    BY InitInv
<1>2. Inv /\ [Next]_vars => Inv'
    BY StepInv
<1> QED BY <1>1, <1>2, PTL DEF Spec

(* No goroutine ever has more than two read locks of a mutex, and all      *)
(* variables keep their types, for any number of goroutines and zones      *)
(* (the calls of cache.go).                                                *)
THEOREM TypeCorrect == Spec => []TypeOK
<1>1. Inv => TypeOK
  <2> SUFFICES ASSUME Inv PROVE TypeOK
    OBVIOUS
  <2>1. \A p \in Process : todo[p] \in Seq(Op)
    BY DEF Inv, IType
  <2>2. \A p \in Process : \A i \in DOMAIN todo[p] : todo[p][i] \in Op
    BY <2>1
  <2> QED BY <2>2 DEF Inv, IType, LockType, TypeOK, Op
<1> QED BY <1>1, InvAlways, PTL

LEMMA HasNothing ==
    ASSUME Inv, NEW p \in Process, NEW m \in Mutex, Holding(p)[m] = "no", ~AtOp(p, "Lock")
    PROVE  ~Holds(p, m)
<1>1. HoldOf(lock[m], p) = "no"
    BY DEF Holding
<1>2. lock[m] \in LockType /\ WriterOK(m)
    BY DEF Inv, IType, LocksOK
<1>3. lock[m].readers[p] = 0 /\ ~(lock[m].owner = p /\ lock[m].locked)
    BY <1>1, <1>2 DEF HoldOf
<1>4. lock[m].owner # p
    BY <1>2, <1>3, LockAssumption DEF WriterOK
<1> QED BY <1>3, <1>4 DEF Holds

(* A call that has returned holds nothing, whichever of its returns it     *)
(* took (every early return of cache.go).                                  *)
THEOREM NothingHeld == Spec => []NothingHeldAfterReturn
<1>1. Inv => NothingHeldAfterReturn
  <2> SUFFICES ASSUME Inv, NEW p \in Process, todo[p] = <<>>, NEW m \in Mutex
               PROVE  ~Holds(p, m)
    BY DEF NothingHeldAfterReturn, Busy
  <2>1. Holding(p)[m] = "no"
    BY GoesNoFurther DEF Inv, Returns, Idle
  <2>2. ~AtOp(p, "Lock")
    BY DEF AtOp
  <2> QED BY <2>1, <2>2, HasNothing
<1> QED BY <1>1, InvAlways, PTL

(* A transfer holds nothing while it waits for its reader, for any number  *)
(* of transfers at a time (plugin.go:337).                                 *)
THEOREM StalledTransfersHoldNothing == Spec => []StalledTransferHoldsNothing
<1>1. Inv => StalledTransferHoldsNothing
  <2> SUFFICES ASSUME Inv, NEW p \in Process, AtOp(p, "Send"), NEW m \in Mutex
               PROVE  ~Holds(p, m)
    BY DEF StalledTransferHoldsNothing
  <2>1. todo[p] # <<>> /\ Head(todo[p]).op = "Send"
    BY DEF AtOp
  <2>2. Holding(p)[m] = "no"
    BY <2>1, AtHead DEF MayDo, Fits
  <2>3. ~AtOp(p, "Lock")
    BY <2>1 DEF AtOp
  <2> QED BY <2>2, <2>3, HasNothing
<1> QED BY <1>1, InvAlways, PTL

------------------------------------------------------------------------------
(* Who waits for whom.                                                     *)

LEMMA WhoWaits ==
    ASSUME Inv, NEW p \in Process, NEW q \in WaitsFor(p)
    PROVE  /\ todo[p] # <<>> /\ Head(todo[p]).op \in {"RLock", "Lock"}
           /\ Head(todo[p]).mutex = On(p) /\ On(p) \in Mutex
           /\ \/ q = lock[On(p)].owner /\ q # NoOne
              \/ lock[On(p)].owner = p /\ lock[On(p)].readers[q] > 0
           /\ AtOp(p, "Lock") /\ lock[On(p)].owner = p => lock[On(p)].readers[q] > 0
<1>1. todo[p] # <<>>
    BY DEF WaitsFor, Busy
<1>2. On(p) \in Mutex /\ WriterOK(On(p)) /\ QueueOK(On(p)) /\ lock[On(p)] \in LockType
    BY <1>1, AtHead DEF Inv, LocksOK, IType
<1>3. CASE p \in lock[On(p)].queued
  <2>1. lock[On(p)].owner # NoOne /\ AtOp(p, "RLock")
    BY <1>2, <1>3 DEF QueueOK
  <2>2. ~AtOp(p, "Lock")
    BY <2>1 DEF AtOp
  <2>3. q = lock[On(p)].owner
    BY <1>1, <1>3, <2>2 DEF WaitsFor, Busy
  <2> QED BY <1>1, <1>2, <2>1, <2>2, <2>3 DEF AtOp, On
<1>4. CASE p \notin lock[On(p)].queued /\ AtOp(p, "Lock") /\ lock[On(p)].owner = p
  <2>1. q \in {r \in Process : lock[On(p)].readers[r] > 0}
    BY <1>1, <1>4 DEF WaitsFor, Busy
  <2> QED BY <1>1, <1>2, <1>4, <2>1 DEF AtOp, On
<1>5. CASE p \notin lock[On(p)].queued /\ AtOp(p, "Lock") /\ lock[On(p)].owner \notin {p, NoOne}
  <2>1. q = lock[On(p)].owner
    BY <1>1, <1>5 DEF WaitsFor, Busy
  <2> QED BY <1>1, <1>2, <1>5, <2>1 DEF AtOp, On
<1>6. CASE p \notin lock[On(p)].queued /\ ~(AtOp(p, "Lock") /\ lock[On(p)].owner # NoOne)
  <2>1. WaitsFor(p) = {}
    BY <1>1, <1>6, LockAssumption DEF WaitsFor, Busy
  <2> QED BY <2>1
<1> QED BY <1>3, <1>4, <1>5, <1>6

(* Among processes that wait for each other, one has what another wants.   *)
LEMMA HolderInside ==
    ASSUME Inv, NEW P \in SUBSET Process, Deadlocked(P), NEW p \in P
    PROVE  \E r \in P : Holding(r)[On(p)] # "no"
<1>1. PICK q \in P : q \in WaitsFor(p)
    BY DEF Deadlocked
<1>2. PICK m \in Mutex : m = On(p)
    BY <1>1, WhoWaits
<1>3. lock[m] \in LockType /\ WriterOK(m)
    BY DEF Inv, IType, LocksOK
<1>4. \A r \in Process : lock[m].readers[r] > 0 => Holding(r)[m] # "no"
    BY <1>3 DEF Holding, HoldOf, LockType
<1>5. CASE lock[m].readers[q] > 0
    BY <1>2, <1>4, <1>5
<1>6. CASE q = lock[m].owner /\ lock[m].locked
    BY <1>2, <1>6 DEF Holding, HoldOf
<1>7. CASE q = lock[m].owner /\ q # NoOne /\ ~lock[m].locked
  <2>1. AtOp(q, "Lock") /\ On(q) = m
    BY <1>3, <1>7 DEF WriterOK
  <2>2. PICK r \in P : r \in WaitsFor(q)
    BY DEF Deadlocked
  <2>3. lock[m].readers[r] > 0
    BY <1>7, <2>1, <2>2, WhoWaits
  <2> QED BY <1>2, <1>4, <2>3
<1> QED BY <1>1, <1>2, <1>5, <1>6, <1>7, WhoWaits

(* Each of them is about to take something, as the order of locks allows.  *)
LEMMA StuckTakes ==
    ASSUME Inv, NEW P \in SUBSET Process, Deadlocked(P), NEW p \in P
    PROVE  /\ todo[p] # <<>> /\ Head(todo[p]).op \in {"RLock", "Lock"}
           /\ Head(todo[p]).mutex = On(p) /\ On(p) \in Mutex
           /\ MayDo(Holding(p), Head(todo[p]))
           /\ \A m : ~GivesBack(Head(todo[p]), m)
<1>1. PICK q \in P : q \in WaitsFor(p)
    BY DEF Deadlocked
<1>2. /\ todo[p] # <<>> /\ Head(todo[p]).op \in {"RLock", "Lock"}
      /\ Head(todo[p]).mutex = On(p) /\ On(p) \in Mutex
    BY <1>1, WhoWaits
<1>3. MayDo(Holding(p), Head(todo[p]))
    BY <1>2, AtHead
<1> QED BY <1>2, <1>3 DEF GivesBack

LEMMA NobodyStuckOnCache ==
    ASSUME Inv, NEW P \in SUBSET Process, Deadlocked(P), NEW p \in P
    PROVE  On(p) # "cache"
<1> SUFFICES ASSUME On(p) = "cache" PROVE FALSE
    OBVIOUS
<1>1. PICK r \in P : Holding(r)["cache"] # "no"
    BY HolderInside
<1> QED BY <1>1, StuckTakes DEF MayDo, InOrder

LEMMA StuckOnZone ==
    ASSUME Inv, NEW P \in SUBSET Process, Deadlocked(P), NEW p \in P, On(p) \in Zone
    PROVE  \E r \in P : TryingAgain(r)
<1>1. PICK z \in Zone : z = On(p)
    OBVIOUS
<1>2. PICK r \in P : Holding(r)[z] # "no"
    BY <1>1, HolderInside
<1>3. z \in Mutex /\ lock[z] \in LockType
    BY DEF Mutex, Inv, IType
<1>4. Holding(r)[z] = HoldOf(lock[z], r)
    BY <1>3 DEF Holding
<1>5. Holding(r)[z] = "read"
    BY <1>2, <1>4, StuckTakes DEF MayDo, InOrder, HoldOf
<1>6. On(r) = z
    BY <1>5, StuckTakes, NobodyStuckOnCache DEF MayDo, InOrder
<1>7. Head(todo[r]).op = "RLock" /\ todo[r] # <<>>
    BY <1>5, <1>6, StuckTakes DEF MayDo, Fits
<1>8. lock[z].readers[r] > 0
    BY <1>3, <1>4, <1>5 DEF HoldOf, LockType
<1> QED BY <1>6, <1>7, <1>8 DEF TryingAgain, AtOp

(* Processes that wait for each other for ever include a query that asks   *)
(* for the read lock of a zone it has already (GetRecords and              *)
(* findWildcardRecords): for any number of goroutines and zones, nothing   *)
(* else in cache.go or around the serials can hang.                        *)
THEOREM HangsOnlyByWildcards == Spec => []OnlyWildcardsHang
<1>1. Inv => OnlyWildcardsHang
  <2> SUFFICES ASSUME Inv, NEW P \in SUBSET Process, Deadlocked(P)
               PROVE  \E r \in P : TryingAgain(r)
    BY DEF OnlyWildcardsHang
  <2>1. PICK p \in P : TRUE
    BY DEF Deadlocked
  <2>2. \A q \in P : On(q) \in Zone \cup {"serials"}
    BY StuckTakes, NobodyStuckOnCache DEF Mutex
  <2>3. CASE \E q \in P : On(q) \in Zone
    BY <2>3, StuckOnZone
  <2>4. CASE \A q \in P : On(q) = "serials"
    <3>1. PICK r \in P : Holding(r)["serials"] # "no"
      BY <2>1, <2>4, HolderInside
    <3>2. Holding(r)["serials"] \in {"read", "again", "write"}
      BY <3>1 DEF Holding, HoldOf, Mutex
    <3> QED BY <3>2, <2>4, StuckTakes DEF MayDo, InOrder
  <2> QED BY <2>2, <2>3, <2>4
<1> QED BY <1>1, InvAlways, PTL
==============================================================================
