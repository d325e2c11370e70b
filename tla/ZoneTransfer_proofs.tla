------------------------- MODULE ZoneTransfer_proofs -------------------------
(***************************************************************************)
(* Theorems about ZoneTransfer for any replicas, handlers, zones, serials  *)
(* and bounds.                                                             *)
(***************************************************************************)
EXTENDS ZoneTransfer, ZoneSerials_proofs

------------------------------------------------------------------------------
(* The serials among records, transfers and secondaries behave as they do  *)
(* alone.                                                                  *)

LEMMA TransferStepIsStep == [TransferNext]_allVars => [Next]_vars
<1> SUFFICES ASSUME [TransferNext]_allVars PROVE [Next]_vars
    OBVIOUS
<1>1. CASE \E h \in Handler : HandleEvent(h)
    BY <1>1 DEF HandleEvent, Next
<1>2. CASE Persist
    BY <1>2 DEF Persist, Next, ReplicaStep
<1>3. CASE Follow \/ LoseTransfer
    BY <1>3 DEF Follow, LoseTransfer, EndTransfer, SeeNewSerial, StartTransfer
<1>4. CASE UNCHANGED allVars
    BY <1>4 DEF allVars
<1> QED BY <1>1, <1>2, <1>3, <1>4 DEF TransferNext

(* The composition with records and a secondary implements ZoneSerials:    *)
(* every theorem about the serials and the ConfigMap holds in it too.      *)
THEOREM TransferImplementsSerials == TransferSpec => Spec
<1>1. TransferInit => Init
    BY DEF TransferInit
<1> QED BY <1>1, TransferStepIsStep, PTL DEF TransferSpec, Spec

------------------------------------------------------------------------------
(* The inductive invariant.                                                *)

Secondary == [at : {"idle", "ask", "receive"}, primary : Replica \cup {None},
              serial : Serial \cup {None}, records : SUBSET Nat]
Stream == [serial : Serial, records : SUBSET Nat]

(* An event that has a number keeps it while its records are edited and    *)
(* its serials raised.                                                     *)
IType ==
    /\ TypeOK
    /\ working \in [Handler -> Event \cup {0}]
    /\ \A h \in Handler : pc[h] \in {"records", "raise"} => working[h] \in Event
    /\ content \in [Replica -> SUBSET Event] /\ raised \in [Replica -> SUBSET Event]
    /\ secondary \in Secondary /\ stream \in Stream /\ lost \in 0 .. MaxLost

(* What was raised was changed before: by then the records are there.      *)
ChangedFirst ==
    /\ \A r \in Replica : raised[r] \subseteq content[r]
    /\ \A h \in Handler : pc[h] = "raise" /\ Followed \in job[h].zones => working[h] \in content[h[1]]

(* The replica asked, then the copy made, has what the serial told of.     *)
HasHeard ==
    /\ secondary.at = "ask" => secondary.primary \in Replica /\ heard \subseteq content[secondary.primary]
    /\ secondary.at = "receive" => heard \subseteq stream.records

TInv == IType /\ ChangedFirst /\ HasHeard

LEMMA TransferInitInv == TransferInit => TInv
<1> SUFFICES ASSUME TransferInit PROVE TInv
    OBVIOUS
<1>1. TypeOK /\ events = 0 /\ \A h \in Handler : pc[h] = "idle"
    BY InitType, HandlerProcess DEF TransferInit, Init
<1>2. 0 \in Serial /\ 0 \in 0 .. MaxLost
    BY SerialAssumption, LostAssumption DEF Serial
<1>3. secondary \in Secondary /\ stream \in Stream /\ lost \in 0 .. MaxLost
    BY <1>2 DEF TransferInit, Secondary, Stream
<1>4. /\ working \in [Handler -> Event \cup {0}]
      /\ content \in [Replica -> SUBSET Event] /\ raised \in [Replica -> SUBSET Event]
    BY DEF TransferInit
<1>5. ChangedFirst
    BY <1>1 DEF ChangedFirst, TransferInit
<1>6. HasHeard
    BY DEF HasHeard, TransferInit
<1> QED BY <1>1, <1>3, <1>4, <1>5, <1>6 DEF TInv, IType

(* What a step of a handler does to its place, its event and the others.   *)
LEMMA HandlerMoves ==
    ASSUME TypeOK, NEW h \in Handler, HandlerStep(h)
    PROVE  /\ \A q \in Process \ {h} : pc'[q] = pc[q] /\ job'[q] = job[q]
           /\ pc[h] = "idle" => pc'[h] = "records" /\ events' = events + 1
           /\ pc[h] # "idle" => events' = events /\ pc'[h] # "records"
           /\ pc'[h] = "raise" => pc[h] = "records" /\ job'[h] = job[h]
<1> h \in Process
    BY HandlerProcess
<1>1. CASE Receive(h)
    BY <1>1, GotoMoves DEF Receive, TypeOK
<1>2. CASE EditRecords(h)
    BY <1>2, GotoMoves DEF EditRecords, counters
<1>3. CASE RaiseSerials(h)
    BY <1>3, GotoMoves, FinishMoves DEF RaiseSerials, counters, TypeOK
<1>4. CASE SnapshotSerials(h)
    BY <1>4, GotoMoves DEF SnapshotSerials, counters, TypeOK
<1>5. CASE UpdateSucceeds(h)
    BY <1>5, GotoMoves DEF UpdateSucceeds, counters
<1>6. CASE UpdateConflicts(h) \/ UpdateFails(h) \/ Notify(h)
    BY <1>6, FinishMoves DEF UpdateConflicts, UpdateFails, Notify, counters
<1> QED BY <1>1, <1>2, <1>3, <1>4, <1>5, <1>6 DEF HandlerStep

(* The steps that are not of an event put no handler among its stages.     *)
LEMMA PersistMoves ==
    ASSUME TypeOK, Persist
    PROVE  /\ events' = events
           /\ \A h \in Handler : pc'[h] \in {"records", "raise"} =>
                 pc'[h] = pc[h] /\ job'[h] = job[h]
<1>1. ASSUME NEW p \in Process, LoadStep(p)
      PROVE  /\ events' = events /\ pc'[p] \notin {"records", "raise"}
             /\ \A q \in Process \ {p} : pc'[q] = pc[q] /\ job'[q] = job[q]
  <2>1. ASSUME Fetched(p)
        PROVE  pc'[p] = "store" /\ \A q \in Process \ {p} : pc'[q] = pc[q] /\ job'[q] = job[q]
    BY <2>1, GotoMoves DEF Fetched, TypeOK
  <2>2. CASE LoadGet(p)
    BY <2>1, <2>2, GotoMoves DEF LoadGet, counters
  <2>3. CASE LoadCreate(p)
    BY <2>1, <2>3, GotoMoves DEF LoadCreate, counters
  <2>4. CASE LoadGetAgain(p)
    BY <2>1, <2>4 DEF LoadGetAgain, counters
  <2>5. CASE LoadFails(p) \/ LoadStore(p)
    BY <2>5, FinishMoves DEF LoadFails, LoadStore, counters
  <2> QED BY <1>1, <2>2, <2>3, <2>4, <2>5 DEF LoadStep
<1>2. ASSUME NEW r \in Replica, StartReplica(r) \/ OnStartup(r)
      PROVE  /\ events' = events /\ job' = job /\ pc'[Starter(r)] \notin {"records", "raise"}
             /\ \A q \in Process \ {Starter(r)} : pc'[q] = pc[q]
    BY <1>2, GotoMoves, HandlerProcess DEF StartReplica, OnStartup, counters
<1>3. CASE LateUpdate
    BY <1>3 DEF LateUpdate, counters
<1>4. Handler \subseteq Process
    BY HandlerProcess
<1> QED BY <1>1, <1>2, <1>3, <1>4 DEF Persist

LEMMA HandleEventInv ==
    ASSUME TInv, NEW h \in Handler, HandleEvent(h)
    PROVE  TInv'
<1> DEFINE r == h[1]
           edited == Mark(h, RecordsChange)
           up == Mark(h, "raise")
<1>1. /\ TypeOK /\ h \in Process /\ r \in Replica /\ Handler \subseteq Process
      /\ HandlerStep(h) /\ TypeOK'
    BY HandlerProcess, HandlerStepType DEF HandleEvent, TInv, IType
<1>2. /\ \A q \in Process \ {h} : pc'[q] = pc[q] /\ job'[q] = job[q]
      /\ pc[h] = "idle" => pc'[h] = "records" /\ events' = events + 1
      /\ pc[h] # "idle" => events' = events /\ pc'[h] # "records"
      /\ pc'[h] = "raise" => pc[h] = "records" /\ job'[h] = job[h]
    BY <1>1, HandlerMoves
<1>3. events \in Nat /\ events' \in Nat /\ Event \subseteq Event'
      /\ (pc[h] = "idle" => events' \in Event')
    BY <1>1, <1>2 DEF TypeOK, Event
<1>4. /\ working' = IF pc[h] = "idle" THEN [working EXCEPT ![h] = events'] ELSE working
      /\ content' = [content EXCEPT ![r] = @ \cup edited]
      /\ raised' = [raised EXCEPT ![r] = @ \cup up]
      /\ UNCHANGED link
    BY DEF HandleEvent
<1>5. /\ working \in [Handler -> Event \cup {0}]
      /\ content \in [Replica -> SUBSET Event] /\ raised \in [Replica -> SUBSET Event]
      /\ \A g \in Handler : pc[g] \in {"records", "raise"} => working[g] \in Event
    BY DEF TInv, IType
<1>6. edited \subseteq Event /\ up \subseteq Event
    BY <1>5 DEF Mark, RecordsChange
<1>7. edited = IF pc[h] = "records" /\ Followed \in job[h].zones THEN {working[h]} ELSE {}
    BY DEF Mark, RecordsChange
<1>8. up = IF pc[h] = "raise" /\ Followed \in job[h].zones THEN {working[h]} ELSE {}
    BY DEF Mark
<1> HIDE DEF edited, up, r
<1>9. /\ working' \in [Handler -> Event' \cup {0}]
      /\ \A g \in Handler : working'[g] = IF pc[h] = "idle" /\ g = h THEN events' ELSE working[g]
    BY <1>3, <1>4, <1>5
<1>10. /\ content' \in [Replica -> SUBSET Event'] /\ raised' \in [Replica -> SUBSET Event']
       /\ \A x \in Replica : content'[x] = IF x = r THEN content[x] \cup edited ELSE content[x]
       /\ \A x \in Replica : raised'[x] = IF x = r THEN raised[x] \cup up ELSE raised[x]
    BY <1>1, <1>3, <1>4, <1>5, <1>6
<1>11. ASSUME NEW g \in Handler, pc'[g] \in {"records", "raise"}
       PROVE  working'[g] \in Event'
  <2>1. CASE g = h
    BY <1>2, <1>3, <1>5, <1>9, <1>11, <2>1
  <2>2. CASE g # h
    BY <1>1, <1>2, <1>3, <1>5, <1>9, <1>11, <2>2
  <2> QED BY <2>1, <2>2
<1>12. IType'
    BY <1>1, <1>4, <1>9, <1>10, <1>11 DEF TInv, IType, link
<1>13. ASSUME NEW x \in Replica
       PROVE  raised'[x] \subseteq content'[x]
  <2>1. raised[x] \subseteq content[x] /\ (x = r => up \subseteq content[x])
    BY <1>8 DEF TInv, ChangedFirst, r
  <2> QED BY <1>10, <2>1
<1>14. ASSUME NEW g \in Handler, pc'[g] = "raise", Followed \in job'[g].zones
       PROVE  working'[g] \in content'[g[1]]
  <2>1. g[1] \in Replica
    BY HandlerProcess
  <2>2. CASE g = h
    BY <1>2, <1>7, <1>9, <1>10, <1>14, <2>1, <2>2 DEF r
  <2>3. CASE g # h
    <3>1. pc[g] = "raise" /\ Followed \in job[g].zones /\ working'[g] = working[g]
      BY <1>1, <1>2, <1>9, <1>14, <2>3
    <3>2. working[g] \in content[g[1]]
      BY <3>1 DEF TInv, ChangedFirst
    <3> QED BY <1>10, <2>1, <3>1, <3>2
  <2> QED BY <2>2, <2>3
<1>15. ChangedFirst'
    BY <1>13, <1>14 DEF ChangedFirst
<1>16. HasHeard'
    BY <1>4, <1>10 DEF TInv, HasHeard, link
<1> QED BY <1>12, <1>15, <1>16 DEF TInv

LEMMA PersistInv ==
    ASSUME TInv, Persist, TypeOK'
    PROVE  TInv'
<1>1. /\ events' = events
      /\ \A h \in Handler : pc'[h] \in {"records", "raise"} => pc'[h] = pc[h] /\ job'[h] = job[h]
    BY PersistMoves DEF TInv, IType
<1>2. UNCHANGED <<working, content, raised, secondary, heard, stream, lost>> /\ Event' = Event
    BY <1>1 DEF Persist, marks, link, Event
<1>3. IType'
    BY <1>1, <1>2 DEF TInv, IType
<1>4. ChangedFirst'
    BY <1>1, <1>2 DEF TInv, ChangedFirst
<1>5. HasHeard'
    BY <1>2 DEF TInv, HasHeard
<1> QED BY <1>3, <1>4, <1>5 DEF TInv

(* The secondary changes nothing of the primary's.                         *)
LEMMA PrimaryStays ==
    ASSUME TInv, UNCHANGED <<vars, marks>>, secondary' \in Secondary, stream' \in Stream,
           lost' \in 0 .. MaxLost, HasHeard'
    PROVE  TInv'
<1>1. UNCHANGED <<working, content, raised, events, pc, job>> /\ Event' = Event
    BY DEF marks, vars, counters, Event
<1>2. TypeOK'
    BY StepType DEF TInv, IType
<1>3. IType'
    BY <1>1, <1>2 DEF TInv, IType
<1>4. ChangedFirst'
    BY <1>1 DEF TInv, ChangedFirst
<1> QED BY <1>3, <1>4 DEF TInv

LEMMA SeeNewSerialInv ==
    ASSUME TInv, NEW r \in Replica, SeeNewSerial(r)
    PROVE  TInv'
<1>1. secondary \in Secondary /\ stream \in Stream /\ lost \in 0 .. MaxLost /\ raised[r] \subseteq content[r]
    BY DEF TInv, IType, ChangedFirst
<1>2. /\ secondary' = [secondary EXCEPT !.at = "ask", !.primary = r] /\ heard' = raised[r]
      /\ UNCHANGED <<vars, marks, stream, lost>>
    BY DEF SeeNewSerial
<1>3. secondary' \in Secondary /\ secondary'.at = "ask" /\ secondary'.primary = r
    BY <1>1, <1>2 DEF Secondary
<1>4. content' = content
    BY <1>2 DEF marks
<1>5. HasHeard'
    BY <1>1, <1>2, <1>3, <1>4 DEF HasHeard
<1> QED BY <1>1, <1>2, <1>3, <1>5, PrimaryStays

LEMMA RequestedIsSerial ==
    ASSUME TInv
    PROVE  Requested \in Serial
<1>1. secondary.serial \in Serial \cup {None} /\ 0 \in Serial
    BY SerialAssumption DEF TInv, IType, Secondary, Serial
<1> QED BY <1>1 DEF Requested, HasZone

LEMMA StartTransferInv ==
    ASSUME TInv, NEW r \in Replica, StartTransfer(r)
    PROVE  TInv'
<1>1. /\ secondary \in Secondary /\ stream \in Stream /\ lost \in 0 .. MaxLost
      /\ secondary.at = "ask" /\ secondary.primary = r /\ UNCHANGED <<vars, marks, heard, lost>>
    BY DEF TInv, IType, StartTransfer
<1>2. heard \subseteq content[r]
    BY <1>1 DEF TInv, HasHeard
<1>3. content[r] \in SUBSET Nat
  <2>1. content[r] \in SUBSET Event
    BY DEF TInv, IType
  <2>2. Event \subseteq Nat
    BY DEF Event, TInv, IType, TypeOK
  <2> QED BY <2>1, <2>2
<1>4. CASE InCache(r)
  <2>1. /\ stream' = [serial |-> Requested, records |-> content[r]]
        /\ secondary' = [secondary EXCEPT !.at = "receive"]
    BY <1>4 DEF StartTransfer, SOASerial
  <2>2. stream' \in Stream /\ stream'.records = content[r]
    BY <1>3, <2>1, RequestedIsSerial DEF Stream
  <2>3. secondary' \in Secondary /\ secondary'.at = "receive"
    BY <1>1, <2>1 DEF Secondary
  <2>4. HasHeard'
    BY <1>1, <1>2, <2>2, <2>3 DEF HasHeard
  <2> QED BY <1>1, <2>2, <2>3, <2>4, PrimaryStays
<1>5. CASE ~ InCache(r)
  <2>1. stream' = stream /\ secondary' = [secondary EXCEPT !.at = "idle"]
    BY <1>5 DEF StartTransfer
  <2>2. secondary' \in Secondary /\ secondary'.at = "idle"
    BY <1>1, <2>1 DEF Secondary
  <2>3. HasHeard'
    BY <2>2 DEF HasHeard
  <2> QED BY <1>1, <2>1, <2>2, <2>3, PrimaryStays
<1> QED BY <1>4, <1>5

LEMMA LeaveTransferInv ==
    ASSUME TInv, EndTransfer \/ LoseTransfer
    PROVE  TInv'
<1>1. /\ secondary \in Secondary /\ stream \in Stream /\ lost \in 0 .. MaxLost
      /\ UNCHANGED <<vars, marks, stream>>
    BY DEF TInv, IType, EndTransfer, LoseTransfer
<1>2. secondary' \in Secondary /\ secondary'.at = "idle"
    BY <1>1 DEF EndTransfer, LoseTransfer, Secondary, Stream
<1>3. lost' \in 0 .. MaxLost
    BY <1>1, LostAssumption DEF EndTransfer, LoseTransfer
<1>4. HasHeard'
    BY <1>2 DEF HasHeard
<1> QED BY <1>1, <1>2, <1>3, <1>4, PrimaryStays

LEMMA TransferStepInv == TInv /\ [TransferNext]_allVars => TInv'
<1> SUFFICES ASSUME TInv, [TransferNext]_allVars PROVE TInv'
    OBVIOUS
<1>1. TypeOK'
    BY TransferStepIsStep, StepType DEF TInv, IType
<1>2. CASE UNCHANGED allVars
  <2>1. UNCHANGED <<vars, marks>> /\ UNCHANGED <<content, secondary, heard, stream, lost>>
    BY <1>2 DEF allVars, marks, link
  <2>2. HasHeard'
    BY <2>1 DEF TInv, HasHeard
  <2> QED BY <2>1, <2>2, PrimaryStays DEF TInv, IType
<1> QED BY <1>1, <1>2, HandleEventInv, PersistInv, SeeNewSerialInv, StartTransferInv, LeaveTransferInv
    DEF TransferNext, Follow

(* Every state of the composition has the types declared.                  *)
THEOREM TransferTypeCorrect == TransferSpec => []TransferTypeOK
<1>1. TInv => TransferTypeOK
    BY DEF TInv, IType, TransferTypeOK, Secondary, Stream
<1> QED BY <1>1, TransferInitInv, TransferStepInv, PTL DEF TransferSpec

(* A secondary that transfers after it saw a serial gets the changes the   *)
(* serial stands for, with any number of watchers and replicas: a watcher  *)
(* changes the records before it raises the serials (processEndpoints),    *)
(* and Transfer copies them after the SOA record was answered.             *)
THEOREM CopiesHaveWhatSerialsTold == TransferSpec => []CopyHasWhatSerialTold
<1>1. TInv => CopyHasWhatSerialTold
    BY DEF TInv, HasHeard, CopyHasWhatSerialTold
<1> QED BY <1>1, TransferInitInv, TransferStepInv, PTL DEF TransferSpec
==============================================================================
