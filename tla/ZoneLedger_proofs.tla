-------------------------- MODULE ZoneLedger_proofs --------------------------
(***************************************************************************)
(* The refinement of ZoneLedger, for any replicas, watchers, zones and     *)
(* bounds: every step of ZoneSerials stores larger serials and perhaps     *)
(* announces them, ends announcements, or leaves the ledger alone.         *)
(***************************************************************************)
EXTENDS ZoneLedger, ZoneSerials_proofs

LEMMA ReadableType == ASSUME NEW d \in Data PROVE Readable(d) \in Ledger!Serials
BY DEF Readable, Ledger!Serials

LEMMA ReadableGrows ==
    ASSUME NEW d \in Data, NEW e \in Data, Behind(d, e)
    PROVE  Ledger!NeverLess(Readable(d), Readable(e))
BY EntryAssumption, SerialAssumption DEF Behind, Readable, Ledger!NeverLess, Serial

Saving == \E h \in Handler : UpdateSucceeds(h)

(* In a step that stores serials nobody stops announcing.                  *)
LEMMA WhoStores ==
    ASSUME TypeOK, [Next]_vars, NEW h \in Handler, pc[h] = "notify",
           configMap' # configMap \/ Saving
    PROVE  pc'[h] = "notify" /\ job'[h] = job[h]
<1>1. h \in Process
  BY HandlerProcess
<1>2. Saving \/ LateUpdate \/ \E p \in Process : LoadCreate(p)
  BY DEF Saving, Next, HandlerStep, LoadStep, ReplicaStep, Receive, EditRecords, RaiseSerials,
         SnapshotSerials, UpdateConflicts, UpdateFails, Notify, LoadGet, LoadGetAgain,
         LoadFails, LoadStore, StartReplica, OnStartup, Crash, vars
<1>3. ASSUME NEW p \in Handler, UpdateSucceeds(p) PROVE pc'[h] = "notify" /\ job'[h] = job[h]
  BY <1>1, <1>3, HandlerProcess, GotoMoves DEF UpdateSucceeds
<1>4. ASSUME NEW p \in Process, LoadCreate(p) PROVE pc'[h] = "notify" /\ job'[h] = job[h]
  <2>1. p # h /\ (Fetched(p) \/ (Goto(p, "getagain") /\ UNCHANGED job))
    BY <1>4 DEF LoadCreate
  <2> QED BY <1>1, <2>1, GotoMoves DEF Fetched, TypeOK
<1>5. CASE LateUpdate
  BY <1>5 DEF LateUpdate
<1> QED BY <1>2, <1>3, <1>4, <1>5 DEF Saving

(* What a step may add to the announcements is what it stores, and only a  *)
(* save adds to them.                                                      *)
LEMMA AnnouncesStored ==
    ASSUME TypeOK, TypeOK', [Next]_vars
    PROVE  /\ Announcing' \subseteq Announcing \cup {Readable(configMap.data)'}
           /\ Saving \/ Announcing' \subseteq Announcing
<1>1. SUFFICES ASSUME NEW h \in Handler, pc'[h] = "notify"
               PROVE  \/ Saving /\ Readable(job'[h].data) = Readable(configMap'.data)
                      \/ Readable(job'[h].data) \in Announcing
  BY DEF Announcing
<1>2. CASE UpdateSucceeds(h)
  <2>1. job' = job /\ configMap'.data = job[h].data
    BY <1>2 DEF UpdateSucceeds, ServerStores
  <2> QED BY <1>2, <2>1 DEF Saving
<1>3. CASE pc[h] = "notify" /\ job'[h] = job[h]
  BY <1>3 DEF Announcing
<1> QED BY <1>1, <1>2, <1>3, WhoNotifies

LEMMA StepRefines ==
    ASSUME IInv, [Next]_vars
    PROVE  [Ledger!Next]_(Ledger!ledger)
<1>1. TypeOK /\ TypeOK' /\ Grows
  BY StepKeeps DEF IInv
<1>2. configMap.data \in Data /\ configMap'.data \in Data
  BY <1>1 DEF TypeOK, Stored, Data
<1>3. /\ Readable(configMap.data)' \in Ledger!Serials
      /\ Ledger!NeverLess(Readable(configMap.data), Readable(configMap.data)')
  <2>1. Readable(configMap.data)' = Readable(configMap'.data)
    OBVIOUS
  <2> QED BY <1>1, <1>2, <2>1, ReadableType, ReadableGrows DEF Grows
<1>4. /\ Announcing' \subseteq Announcing \cup {Readable(configMap.data)'}
      /\ Saving \/ Announcing' \subseteq Announcing
  BY <1>1, AnnouncesStored
<1>5. CASE configMap' # configMap \/ Saving
  <2>1. Announcing \subseteq Announcing'
    BY <1>1, <1>5, WhoStores DEF Announcing
  <2>2. Announcing' \in {Announcing, Announcing \cup {Readable(configMap.data)'}}
    BY <1>4, <2>1
  <2> QED BY <1>3, <2>2 DEF Ledger!Next, Ledger!Store
<1>6. CASE configMap' = configMap /\ ~Saving
  BY <1>4, <1>6 DEF Ledger!Next, Ledger!EndAnnouncements
<1> QED BY <1>5, <1>6

(* The serials the plugin keeps are a ledger: those in the ConfigMap only  *)
(* grow, and only what was stored in it is announced (saveZoneSerials,     *)
(* loadZoneSerials).                                                       *)
THEOREM LedgerImplemented == Spec => ImplementsLedger
<1>1. Init => Ledger!Init
  <2> SUFFICES ASSUME Init PROVE Ledger!Init
    OBVIOUS
  <2>1. configMap.data \in Data
    BY InitType DEF TypeOK, Stored, Data
  <2>2. Announcing = {}
    BY HandlerProcess DEF Init, Announcing
  <2> QED BY <2>1, <2>2, ReadableType DEF Ledger!Init
<1>2. IInv /\ [Next]_vars => [Ledger!Next]_(Ledger!ledger)
  BY StepRefines
<1> QED BY <1>1, <1>2, InductiveInvariant, PTL DEF Spec, ImplementsLedger, Ledger!Spec
==============================================================================
