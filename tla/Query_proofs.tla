----------------------------- MODULE Query_proofs -----------------------------
(***************************************************************************)
(* Theorems about Query for any names, zones, records, questions and       *)
(* bounds.                                                                 *)
(***************************************************************************)
EXTENDS Query, SequenceLemmas

Spec == Init /\ [][Next]_vars

Data   == {rr.data : rr \in Pool} \cup {Root}
Types  == {rr.type : rr \in Pool} \cup {"SOA"}
Record == [name : Name, type : Types, data : Data]
Task   == [name : Name, hops : 0 .. MaxHops]

------------------------------------------------------------------------------
(* What the lookups return.                                                *)

(* Records of the cache, under the name that was asked for.                *)
Shown(name, rrs) == {[name |-> name, type |-> rr.type, data |-> rr.data] : rr \in rrs}

Found(name, zone, type) ==
    IF Entry(name, zone, type) # {} THEN Shown(name, Entry(name, zone, type))
    ELSE IF Hits(name, zone, type) = {} THEN {}
    ELSE Shown(name, Entry(WildcardsOf(name)[Min(Hits(name, zone, type))], zone, type))

LEMMA AsIs ==
    ASSUME NEW name, NEW rrs \in SUBSET Pool
    PROVE  As(name, rrs) \in Seq(Shown(name, rrs)) /\ ToSet(As(name, rrs)) = Shown(name, rrs)
<1> DEFINE f == [rr \in rrs |-> [name |-> name, type |-> rr.type, data |-> rr.data]]
<1>1. IsFiniteSet(rrs)
    BY PoolAssumption, FS_Subset
<1>2. f \in Surjection(rrs, Shown(name, rrs))
    BY DEF Surjection, Shown
<1>3. IsFiniteSet(Shown(name, rrs))
    BY <1>1, <1>2, FS_Surjection
<1> QED BY <1>3, SetToSeqIs DEF As, Shown

LEMMA EmptyIs ==
    ASSUME NEW S, NEW s \in Seq(S)
    PROVE  (s = <<>>) <=> (ToSet(s) = {})
<1>1. DOMAIN s = 1 .. Len(s) /\ Len(s) \in Nat
    OBVIOUS
<1>2. CASE s = <<>>
    BY <1>2 DEF ToSet
<1>3. CASE s # <<>>
  <2>1. 1 \in DOMAIN s
    BY <1>1, <1>3
  <2>2. s[1] \in ToSet(s)
    BY <2>1 DEF ToSet
  <2> QED BY <1>3, <2>2
<1> QED BY <1>2, <1>3

LEMMA GetRecordsIs ==
    ASSUME cache \in SUBSET Pool, NEW name, NEW zone, NEW type
    PROVE  /\ GetRecords(name, zone, type) \in Seq(Found(name, zone, type))
           /\ ToSet(GetRecords(name, zone, type)) = Found(name, zone, type)
           /\ (GetRecords(name, zone, type) = <<>>) <=> (Found(name, zone, type) = {})
           /\ \A rr \in Found(name, zone, type) :
                 rr.name = name /\ rr.type = type /\ \E r \in cache : r.type = type /\ rr.data = r.data
           /\ \A rr \in Found(name, zone, type) :
                 rr = [name |-> rr.name, type |-> rr.type, data |-> rr.data]
<1>1. \A n : Entry(n, zone, type) \in SUBSET Pool
    BY DEF Entry
<1>2. /\ GetRecords(name, zone, type) \in Seq(Found(name, zone, type))
      /\ ToSet(GetRecords(name, zone, type)) = Found(name, zone, type)
  <2>1. CASE Entry(name, zone, type) # {}
    BY <1>1, <2>1, AsIs DEF GetRecords, Found
  <2>2. CASE Entry(name, zone, type) = {} /\ Hits(name, zone, type) = {}
    BY <2>2 DEF GetRecords, Found, findWildcardRecords, ToSet
  <2>3. CASE Entry(name, zone, type) = {} /\ Hits(name, zone, type) # {}
    BY <1>1, <2>3, AsIs DEF GetRecords, Found, findWildcardRecords
  <2> QED BY <2>1, <2>2, <2>3
<1>3. (GetRecords(name, zone, type) = <<>>) <=> (Found(name, zone, type) = {})
    BY <1>2, EmptyIs
<1>4. \A rr \in Found(name, zone, type) :
        /\ rr.name = name /\ rr.type = type /\ \E r \in cache : r.type = type /\ rr.data = r.data
        /\ rr = [name |-> rr.name, type |-> rr.type, data |-> rr.data]
    BY DEF Found, Shown, Entry
<1> QED BY <1>2, <1>3, <1>4

------------------------------------------------------------------------------
(* Types, and what the stages of a query have in common.                   *)

Rcode == {"", "NOERROR", "NODATA", "NXDOMAIN", "REFUSED", "NEXT", "SERVFAIL"}

IType ==
    /\ cache \in SUBSET Pool /\ cache \in seen /\ question \in Question
    /\ pc \in Label /\ rcode \in Rcode /\ ((pc = "done") <=> (rcode # ""))
    /\ changes \in 0 .. MaxChanges
    /\ todo \in Seq(Task) /\ answer \in Seq(Record)

(* Nothing is collected before the CNAME records of the name are found, a  *)
(* target whose CNAME records are due has hops left, and no record is of a *)
(* type that is not asked for.                                             *)
Stages ==
    /\ pc \in {"ask", "records", "cname", "none"} => answer = <<>> /\ todo = <<>>
    /\ pc = "followcname" => todo # <<>> /\ Head(todo).hops > 0
    /\ \A i \in DOMAIN answer : answer[i].type \in {question.type, "CNAME"}

(* The j-th of the records is a CNAME record that leads to the name.       *)
Leads(records, j, name) == records[j].type = "CNAME" /\ records[j].data = name

(* Every record is of the name or of the target of a record before it, and *)
(* the targets left are targets of records of the answer.                  *)
Rooted(records, name) ==
    \A i \in DOMAIN records :
        records[i].name = name \/ \E j \in 1 .. i - 1 : Leads(records, j, records[i].name)
Pending(records, tasks) ==
    \A t \in DOMAIN tasks : \E j \in DOMAIN records : Leads(records, j, tasks[t].name)

Inv == IType /\ Stages /\ Rooted(answer, question.name) /\ Pending(answer, todo)

LEMMA FoundType ==
    ASSUME cache \in SUBSET Pool, NEW name \in Name, NEW zone, NEW type
    PROVE  /\ GetRecords(name, zone, type) \in Seq(Record)
           /\ \A i \in DOMAIN GetRecords(name, zone, type) :
                 /\ GetRecords(name, zone, type)[i].name = name
                 /\ GetRecords(name, zone, type)[i].type = type
                 /\ type = "CNAME" => GetRecords(name, zone, type)[i].data \in Name
<1>1. Found(name, zone, type) \in SUBSET Record
  <2> SUFFICES ASSUME NEW rr \in Found(name, zone, type)
               PROVE  rr \in Record
    OBVIOUS
  <2>1. /\ rr.name = name /\ rr.type = type
        /\ rr = [name |-> rr.name, type |-> rr.type, data |-> rr.data]
        /\ \E r \in cache : r.type = type /\ rr.data = r.data
    BY GetRecordsIs
  <2> QED BY <2>1 DEF Record, Types, Data
<1>2. GetRecords(name, zone, type) \in Seq(Found(name, zone, type))
    BY GetRecordsIs
<1>3. GetRecords(name, zone, type) \in Seq(Record)
    BY <1>1, <1>2
<1>4. ASSUME NEW i \in DOMAIN GetRecords(name, zone, type)
      PROVE  GetRecords(name, zone, type)[i] \in Found(name, zone, type)
    BY <1>2
<1>5. \A rr \in Found(name, zone, type) :
         rr.name = name /\ rr.type = type /\ \E r \in Pool : r.type = type /\ rr.data = r.data
    BY GetRecordsIs
<1>6. \A rr \in Found(name, zone, type) : type = "CNAME" => rr.data \in Name
    BY <1>5, PoolAssumption
<1> QED BY <1>3, <1>4, <1>5, <1>6

LEMMA TargetsType ==
    ASSUME NEW rrs \in Seq(Record), NEW hops \in 0 .. MaxHops,
           \A i \in DOMAIN rrs : rrs[i].data \in Name
    PROVE  /\ Targets(rrs, hops) \in Seq(Task) /\ Len(Targets(rrs, hops)) = Len(rrs)
           /\ DOMAIN Targets(rrs, hops) = DOMAIN rrs
           /\ \A i \in DOMAIN rrs : Targets(rrs, hops)[i] = [name |-> rrs[i].data, hops |-> hops]
<1>1. DOMAIN rrs = 1 .. Len(rrs) /\ Len(rrs) \in Nat
    OBVIOUS
<1>2. ASSUME NEW i \in DOMAIN rrs
      PROVE  [name |-> rrs[i].data, hops |-> hops] \in Task
  <2>1. rrs[i].data \in Name
    OBVIOUS
  <2> QED BY <2>1 DEF Task
<1>3. Targets(rrs, hops) \in [1 .. Len(rrs) -> Task]
    BY <1>1, <1>2 DEF Targets
<1> QED BY <1>1, <1>3 DEF Targets

(* Records of a name that a record of the answer leads to.                 *)
LEMMA RootedGrows ==
    ASSUME NEW a \in Seq(Record), NEW rrs \in Seq(Record), NEW name, NEW of,
           Rooted(a, name), \E j \in DOMAIN a : Leads(a, j, of),
           \A i \in DOMAIN rrs : rrs[i].name = of
    PROVE  Rooted(a \o rrs, name)
<1>1. PICK k \in DOMAIN a : Leads(a, k, of)
    OBVIOUS
<1>2. /\ DOMAIN a = 1 .. Len(a) /\ DOMAIN rrs = 1 .. Len(rrs) /\ Len(a) \in Nat /\ Len(rrs) \in Nat
      /\ DOMAIN (a \o rrs) = 1 .. Len(a) + Len(rrs)
      /\ \A i \in 1 .. Len(a) : (a \o rrs)[i] = a[i]
      /\ \A i \in 1 .. Len(rrs) : (a \o rrs)[Len(a) + i] = rrs[i]
    OBVIOUS
<1>3. \A j \in DOMAIN a : \A n : Leads(a, j, n) => Leads(a \o rrs, j, n)
    BY <1>2 DEF Leads
<1> SUFFICES ASSUME NEW i \in DOMAIN (a \o rrs)
             PROVE  \/ (a \o rrs)[i].name = name
                    \/ \E j \in 1 .. i - 1 : Leads(a \o rrs, j, (a \o rrs)[i].name)
    BY DEF Rooted
<1>4. CASE i <= Len(a)
  <2>1. i \in DOMAIN a /\ (a \o rrs)[i] = a[i]
    BY <1>2, <1>4
  <2>2. a[i].name = name \/ \E j \in 1 .. i - 1 : Leads(a, j, a[i].name)
    BY <2>1 DEF Rooted
  <2>3. \A j \in 1 .. i - 1 : j \in DOMAIN a
    BY <1>2, <2>1
  <2> QED BY <2>1, <2>2, <2>3, <1>3
<1>5. CASE i > Len(a)
  <2>1. i - Len(a) \in 1 .. Len(rrs) /\ i = Len(a) + (i - Len(a))
    BY <1>2, <1>5
  <2>2. (a \o rrs)[i] = rrs[i - Len(a)]
    BY <1>2, <2>1
  <2>3. (a \o rrs)[i].name = of
    BY <1>2, <2>1, <2>2
  <2>4. k \in 1 .. i - 1 /\ Leads(a \o rrs, k, of)
    BY <1>1, <1>2, <1>3, <1>5
  <2> QED BY <2>3, <2>4
<1> QED BY <1>2, <1>4, <1>5

(* What the records lead to stays when records are appended.               *)
LEMMA PendingGrows ==
    ASSUME NEW a \in Seq(Record), NEW rrs \in Seq(Record), NEW tasks, Pending(a, tasks)
    PROVE  Pending(a \o rrs, tasks)
<1>1. /\ DOMAIN a \subseteq DOMAIN (a \o rrs)
      /\ \A i \in DOMAIN a : (a \o rrs)[i] = a[i]
    OBVIOUS
<1> QED BY <1>1 DEF Pending, Leads

LEMMA PendingTail ==
    ASSUME NEW a, NEW tasks \in Seq(Task), tasks # <<>>, Pending(a, tasks)
    PROVE  Tail(tasks) \in Seq(Task) /\ Pending(a, Tail(tasks))
<1>1. Tail(tasks) \in Seq(Task) /\ \A i \in DOMAIN Tail(tasks) : i + 1 \in DOMAIN tasks /\ Tail(tasks)[i] = tasks[i + 1]
    OBVIOUS
<1> QED BY <1>1 DEF Pending

(* The targets of CNAME records that are appended to the answer.           *)
LEMMA PendingTargets ==
    ASSUME NEW a \in Seq(Record), NEW rrs \in Seq(Record), NEW tasks \in Seq(Task),
           NEW hops \in 0 .. MaxHops, Pending(a, tasks),
           \A i \in DOMAIN rrs : rrs[i].type = "CNAME" /\ rrs[i].data \in Name
    PROVE  Pending(a \o rrs, Targets(rrs, hops) \o tasks)
<1> DEFINE new == Targets(rrs, hops)
<1>1. /\ new \in Seq(Task) /\ Len(new) = Len(rrs)
      /\ \A i \in DOMAIN rrs : new[i].name = rrs[i].data
  <2>1. /\ new \in Seq(Task) /\ Len(new) = Len(rrs)
        /\ \A i \in DOMAIN rrs : new[i] = [name |-> rrs[i].data, hops |-> hops]
    BY TargetsType, Zenon
  <2>2. ASSUME NEW i \in DOMAIN rrs
        PROVE  new[i].name = rrs[i].data
    <3>1. new[i] = [name |-> rrs[i].data, hops |-> hops]
      BY <2>1
    <3> HIDE DEF new
    <3> QED BY <3>1
  <2> QED BY <2>1, <2>2, Zenon
<1>2. Pending(a \o rrs, tasks)
    BY PendingGrows
<1> HIDE DEF new
<1> SUFFICES ASSUME NEW t \in DOMAIN (new \o tasks)
             PROVE  \E j \in DOMAIN (a \o rrs) : Leads(a \o rrs, j, (new \o tasks)[t].name)
    BY DEF Pending, new
<1>3. CASE t <= Len(new)
  <2>1. t \in DOMAIN rrs /\ (new \o tasks)[t] = new[t]
    BY <1>1, <1>3
  <2>2. Len(a) + t \in DOMAIN (a \o rrs) /\ (a \o rrs)[Len(a) + t] = rrs[t]
    BY <2>1
  <2>3. Leads(a \o rrs, Len(a) + t, (new \o tasks)[t].name)
    BY <2>1, <2>2, <1>1 DEF Leads
  <2> QED BY <2>2, <2>3
<1>4. CASE t > Len(new)
  <2>1. t - Len(new) \in DOMAIN tasks /\ (new \o tasks)[t] = tasks[t - Len(new)]
    BY <1>1, <1>4
  <2> QED BY <2>1, <1>2 DEF Pending
<1>5. t \in Nat /\ Len(new) \in Nat
    BY <1>1
<1> QED BY <1>3, <1>4, <1>5

------------------------------------------------------------------------------
(* The steps.                                                              *)

LEMMA Empties ==
    /\ <<>> \in Seq(Record) /\ <<>> \in Seq(Task) /\ DOMAIN <<>> = {}
    /\ \A name : Rooted(<<>>, name)
    /\ \A records : Pending(records, <<>>)
<1>1. <<>> \in Seq(Record) /\ <<>> \in Seq(Task) /\ DOMAIN <<>> = {}
    OBVIOUS
<1> QED BY <1>1 DEF Rooted, Pending

LEMMA InitInv == Init => Inv
<1> SUFFICES ASSUME Init PROVE Inv
    OBVIOUS
<1>1. todo = <<>> /\ answer = <<>> /\ pc = "ask" /\ rcode = "" /\ changes = 0
    BY DEF Init
<1>2. cache \in SUBSET Pool /\ cache \in seen /\ question \in Question
    BY DEF Init
<1>3. changes \in 0 .. MaxChanges
  <2>1. MaxChanges \in Nat
    BY BoundAssumption
  <2>2. changes = 0
    BY <1>1
  <2> QED BY <2>1, <2>2
<1>4. IType
    BY <1>1, <1>2, <1>3, Empties DEF IType, Label, Rcode
<1>5. Stages
    BY <1>1, Empties DEF Stages
<1> QED BY <1>1, <1>4, <1>5, Empties DEF Inv

(* A step of a query that leaves the cache alone and keeps the answer and  *)
(* the targets well formed.                                                *)
LEMMA StepType ==
    ASSUME Inv, Still, answer' \in Seq(Record), todo' \in Seq(Task),
           pc' \in Label, rcode' \in Rcode, (pc' = "done") <=> (rcode' # "")
    PROVE  IType'
BY DEF Inv, IType, Still, Label, Rcode

LEMMA QuestionType ==
    ASSUME IType
    PROVE  question.name \in Name
BY NameAssumption DEF IType

LEMMA ClassifyInv == Inv /\ Classify => Inv'
<1> SUFFICES ASSUME Inv, Classify PROVE Inv'
    OBVIOUS
<1>1. /\ answer = <<>> /\ todo = <<>> /\ Still /\ todo' = <<>>
      /\ question' = question /\ rcode = ""
    BY DEF Classify, Inv, Stages, IType, Still
<1>2. \/ answer' = <<>>
      \/ pc' = "done" /\ question.type = "SOA" /\ answer' = <<[name |-> question.name, type |-> "SOA", data |-> Root]>>
    BY <1>1 DEF Classify, Respond
<1>3. pc' \in {"records", "done"} /\ rcode' \in Rcode /\ ((pc' = "done") <=> (rcode' # ""))
    BY <1>1 DEF Classify, Respond, HandOn, Goto, Rcode
<1>4. [name |-> question.name, type |-> "SOA", data |-> Root] \in Record
    BY QuestionType DEF Inv, Record, Types, Data
<1>5. \A rr \in Record : <<rr>> \in Seq(Record) /\ DOMAIN <<rr>> = {1} /\ <<rr>>[1] = rr
    OBVIOUS
<1>6. answer' \in Seq(Record) /\ todo' \in Seq(Task)
    BY <1>1, <1>2, <1>4, <1>5, Empties
<1>7. IType'
    BY <1>1, <1>3, <1>6, StepType DEF Label
<1>8. \A i \in DOMAIN answer' : answer'[i].name = question.name /\ answer'[i].type = question.type
    BY <1>2, <1>4, <1>5, Empties
<1>9. Stages'
    BY <1>1, <1>2, <1>3, <1>8 DEF Stages
<1>10. Rooted(answer', question.name) /\ Pending(answer', todo')
    BY <1>1, <1>8, Empties DEF Rooted
<1> QED BY <1>1, <1>7, <1>9, <1>10 DEF Inv

LEMMA LookUpRecordsInv == Inv /\ LookUpRecords => Inv'
<1> SUFFICES ASSUME Inv, LookUpRecords PROVE Inv'
    OBVIOUS
<1> DEFINE found == GetRecords(question.name, ZoneOf[question.name], question.type)
<1>1. /\ answer = <<>> /\ todo = <<>> /\ Still /\ todo' = <<>>
      /\ question' = question /\ rcode = "" /\ answer' = found
    BY DEF LookUpRecords, Inv, Stages, IType, Still
<1>2. /\ found \in Seq(Record)
      /\ \A i \in DOMAIN found : found[i].name = question.name /\ found[i].type = question.type
  <2>1. question.name \in Name /\ cache \in SUBSET Pool
    BY QuestionType DEF Inv, IType
  <2>2. PICK name, zone : name = question.name /\ zone = ZoneOf[question.name]
    OBVIOUS
  <2>3. PICK type : type = question.type
    OBVIOUS
  <2>4. /\ GetRecords(name, zone, type) \in Seq(Record)
        /\ \A i \in DOMAIN GetRecords(name, zone, type) :
              /\ GetRecords(name, zone, type)[i].name = name
              /\ GetRecords(name, zone, type)[i].type = type
              /\ type = "CNAME" => GetRecords(name, zone, type)[i].data \in Name
    BY <2>1, <2>2, FoundType
  <2> QED BY <2>2, <2>3, <2>4, Zenon
<1> HIDE DEF found
<1>3. /\ pc' \in {"cname", "none", "done"} /\ rcode' \in Rcode /\ ((pc' = "done") <=> (rcode' # ""))
      /\ pc' # "done" => answer' = <<>>
    BY <1>1 DEF LookUpRecords, Respond, Goto, Rcode
<1>4. IType'
    BY <1>1, <1>2, <1>3, StepType, Empties DEF Label
<1>5. Stages'
    BY <1>1, <1>2, <1>3 DEF Stages
<1>6. Rooted(answer', question.name)
    BY <1>1, <1>2 DEF Rooted
<1>7. Pending(answer', todo')
    BY <1>1, Empties
<1> QED BY <1>1, <1>4, <1>5, <1>6, <1>7 DEF Inv

LEMMA LookUpCNAMEInv == Inv /\ LookUpCNAME => Inv'
<1> SUFFICES ASSUME Inv, LookUpCNAME PROVE Inv'
    OBVIOUS
<1> DEFINE found == GetRecords(question.name, ZoneOf[question.name], "CNAME")
<1>1. /\ answer = <<>> /\ todo = <<>> /\ Still /\ question' = question /\ rcode = "" /\ rcode' = ""
      /\ answer' = found /\ todo' = Targets(found, MaxHops)
    BY DEF LookUpCNAME, Inv, Stages, IType, Still, Goto
<1>2. /\ found \in Seq(Record)
      /\ \A i \in DOMAIN found : found[i].name = question.name /\ found[i].type = "CNAME"
            /\ found[i].data \in Name
  <2>1. question.name \in Name /\ cache \in SUBSET Pool
    BY QuestionType DEF Inv, IType
  <2>2. PICK name, zone : name = question.name /\ zone = ZoneOf[question.name]
    OBVIOUS
  <2>3. PICK type : type = "CNAME"
    OBVIOUS
  <2>4. /\ GetRecords(name, zone, type) \in Seq(Record)
        /\ \A i \in DOMAIN GetRecords(name, zone, type) :
              /\ GetRecords(name, zone, type)[i].name = name
              /\ GetRecords(name, zone, type)[i].type = type
              /\ type = "CNAME" => GetRecords(name, zone, type)[i].data \in Name
    BY <2>1, <2>2, FoundType
  <2> QED BY <2>2, <2>3, <2>4, Zenon
<1> HIDE DEF found
<1>3. pc' \in {"follow", "none"} /\ (pc' = "none" => answer' = <<>>)
    BY DEF LookUpCNAME, Goto
<1>4. MaxHops \in 0 .. MaxHops
    BY BoundAssumption
<1>5. todo' \in Seq(Task) /\ Len(todo') = Len(found)
    BY <1>1, <1>2, <1>4, TargetsType
<1>6. pc' = "none" => todo' = <<>>
  <2>1. \A s \in Seq(Task) : Len(s) = 0 => s = <<>>
    OBVIOUS
  <2> QED BY <2>1, <1>1, <1>3, <1>5
<1>7. IType'
    BY <1>1, <1>2, <1>3, <1>5, StepType DEF Label, Rcode
<1>8. Stages'
    BY <1>1, <1>2, <1>3, <1>6 DEF Stages
<1>9. Rooted(answer', question.name)
    BY <1>1, <1>2 DEF Rooted
<1>10. Pending(answer', todo')
  <2>1. Pending(<<>> \o found, Targets(found, MaxHops) \o <<>>)
    BY Empties, <1>2, <1>4, PendingTargets
  <2>2. \A s \in Seq(Record) : <<>> \o s = s
    OBVIOUS
  <2>3. \A s \in Seq(Task) : s \o <<>> = s
    OBVIOUS
  <2> QED BY <2>1, <2>2, <2>3, <1>1, <1>2, <1>5
<1> QED BY <1>1, <1>7, <1>8, <1>9, <1>10 DEF Inv

LEMMA GiveUpTargetInv == Inv /\ GiveUpTarget => Inv'
<1> SUFFICES ASSUME Inv, GiveUpTarget PROVE Inv'
    OBVIOUS
<1>1. Still /\ question' = question /\ pc = "follow" /\ pc' = pc /\ answer' = answer /\ rcode' = rcode
    BY DEF GiveUpTarget, Still
<1>2. todo' \in Seq(Task) /\ Pending(answer, todo')
    BY PendingTail DEF GiveUpTarget, Inv, IType
<1>3. IType'
    BY <1>1, <1>2, StepType DEF Inv, IType
<1>4. Stages'
    BY <1>1 DEF Inv, Stages
<1> QED BY <1>1, <1>2, <1>3, <1>4 DEF Inv

(* The name of the next target, and the record that leads to it.           *)
LEMMA TargetIs ==
    ASSUME Inv, todo # <<>>
    PROVE  /\ Target \in Task /\ Target.name \in Name
           /\ \E j \in DOMAIN answer : Leads(answer, j, Target.name)
           /\ Tail(todo) \in Seq(Task) /\ Pending(answer, Tail(todo))
<1>1. 1 \in DOMAIN todo /\ Target = todo[1] /\ todo \in Seq(Task)
  <2>1. todo \in Seq(Task)
    BY DEF Inv, IType
  <2> QED BY <2>1 DEF Target
<1>2. Target \in Task
    BY <1>1
<1>3. Tail(todo) \in Seq(Task) /\ Pending(answer, Tail(todo))
    BY <1>1, PendingTail DEF Inv
<1> QED BY <1>1, <1>2, <1>3 DEF Inv, Pending, Task

LEMMA LookUpTargetInv == Inv /\ LookUpTarget => Inv'
<1> SUFFICES ASSUME Inv, LookUpTarget PROVE Inv'
    OBVIOUS
<1> DEFINE found == GetRecords(Target.name, ZoneOf[Target.name], question.type)
<1>1. /\ Still /\ question' = question /\ pc = "follow" /\ rcode' = rcode /\ todo # <<>>
      /\ Target.hops > 0 /\ answer' = answer \o found
      /\ \/ todo' = Tail(todo) /\ pc' = pc
         \/ todo' = todo /\ pc' = "followcname"
    BY DEF LookUpTarget, Still, Goto
<1>2. /\ Target.name \in Name /\ \E j \in DOMAIN answer : Leads(answer, j, Target.name)
      /\ Tail(todo) \in Seq(Task) /\ Pending(answer, Tail(todo))
    BY <1>1, TargetIs
<1>3. /\ found \in Seq(Record)
      /\ \A i \in DOMAIN found : found[i].name = Target.name /\ found[i].type = question.type
  <2>1. Target.name \in Name /\ cache \in SUBSET Pool
    BY <1>2 DEF Inv, IType
  <2>2. PICK name, zone : name = Target.name /\ zone = ZoneOf[Target.name]
    OBVIOUS
  <2>3. PICK type : type = question.type
    OBVIOUS
  <2>4. /\ GetRecords(name, zone, type) \in Seq(Record)
        /\ \A i \in DOMAIN GetRecords(name, zone, type) :
              /\ GetRecords(name, zone, type)[i].name = name
              /\ GetRecords(name, zone, type)[i].type = type
              /\ type = "CNAME" => GetRecords(name, zone, type)[i].data \in Name
    BY <2>1, <2>2, FoundType
  <2> QED BY <2>2, <2>3, <2>4, Zenon
<1> HIDE DEF found
<1>4. answer \in Seq(Record) /\ answer' \in Seq(Record) /\ todo' \in Seq(Task)
  <2>1. answer \in Seq(Record) /\ todo \in Seq(Task)
    BY DEF Inv, IType
  <2>2. \A a, b \in Seq(Record) : a \o b \in Seq(Record)
    OBVIOUS
  <2> QED BY <2>1, <2>2, <1>1, <1>2, <1>3
<1>5. IType'
    BY <1>1, <1>4, StepType DEF Inv, IType, Label
<1>6. Stages'
    BY <1>1, <1>3, <1>4 DEF Inv, Stages, Target
<1>7. Rooted(answer', question.name)
    BY ZenonT(40), <1>1, <1>2, <1>3, <1>4, RootedGrows DEF Inv
<1>8. Pending(answer, todo')
    BY <1>1, <1>2 DEF Inv
<1>9. Pending(answer', todo')
    BY <1>1, <1>3, <1>4, <1>8, PendingGrows
<1> QED BY <1>1, <1>5, <1>6, <1>7, <1>9 DEF Inv

LEMMA LookUpTargetCNAMEInv == Inv /\ LookUpTargetCNAME => Inv'
<1> SUFFICES ASSUME Inv, LookUpTargetCNAME PROVE Inv'
    OBVIOUS
<1> DEFINE found == GetRecords(Target.name, ZoneOf[Target.name], "CNAME")
<1>1. /\ Still /\ question' = question /\ pc = "followcname" /\ pc' = "follow" /\ rcode' = rcode
      /\ answer' = answer \o found
      /\ todo' = Targets(found, HopsLeft(Target.hops)) \o Tail(todo)
    BY DEF LookUpTargetCNAME, Still, Goto
<1>2. todo # <<>> /\ Target.hops > 0
    BY <1>1 DEF Inv, Stages, Target
<1>3. /\ Target.name \in Name /\ \E j \in DOMAIN answer : Leads(answer, j, Target.name)
      /\ Tail(todo) \in Seq(Task) /\ Pending(answer, Tail(todo)) /\ Target \in Task
    BY <1>2, TargetIs
<1>4. /\ found \in Seq(Record)
      /\ \A i \in DOMAIN found : found[i].name = Target.name /\ found[i].type = "CNAME"
            /\ found[i].data \in Name
  <2>1. Target.name \in Name /\ cache \in SUBSET Pool
    BY <1>3 DEF Inv, IType
  <2>2. PICK name, zone : name = Target.name /\ zone = ZoneOf[Target.name]
    OBVIOUS
  <2>3. PICK type : type = "CNAME"
    OBVIOUS
  <2>4. /\ GetRecords(name, zone, type) \in Seq(Record)
        /\ \A i \in DOMAIN GetRecords(name, zone, type) :
              /\ GetRecords(name, zone, type)[i].name = name
              /\ GetRecords(name, zone, type)[i].type = type
              /\ type = "CNAME" => GetRecords(name, zone, type)[i].data \in Name
    BY <2>1, <2>2, FoundType
  <2> QED BY <2>2, <2>3, <2>4, Zenon
<1>5. HopsLeft(Target.hops) \in 0 .. MaxHops
    BY <1>2, <1>3, BoundAssumption DEF HopsLeft, Task
<1> HIDE DEF found
<1>6. Targets(found, HopsLeft(Target.hops)) \in Seq(Task)
    BY <1>4, <1>5, TargetsType
<1>7. answer \in Seq(Record) /\ answer' \in Seq(Record) /\ todo' \in Seq(Task)
  <2>1. answer \in Seq(Record)
    BY DEF Inv, IType
  <2>2. \A a, b \in Seq(Record) : a \o b \in Seq(Record)
    OBVIOUS
  <2>3. \A a, b \in Seq(Task) : a \o b \in Seq(Task)
    OBVIOUS
  <2> QED BY <2>1, <2>2, <2>3, <1>1, <1>3, <1>4, <1>6
<1>8. IType'
    BY <1>1, <1>7, StepType DEF Inv, IType, Label
<1>9. Stages'
    BY <1>1, <1>4, <1>7 DEF Inv, Stages
<1>10. Rooted(answer', question.name)
  <2>1. Rooted(answer, question.name)
    BY DEF Inv
  <2>2. PICK of : of = Target.name
    OBVIOUS
  <2>3. /\ \E j \in DOMAIN answer : Leads(answer, j, of)
        /\ \A i \in DOMAIN found : found[i].name = of
    BY <1>3, <1>4, <2>2
  <2> QED BY <1>1, <1>4, <1>7, <2>1, <2>3, RootedGrows
<1>11. Pending(answer', todo')
    BY <1>1, <1>3, <1>4, <1>5, <1>7, PendingTargets
<1> QED BY <1>1, <1>8, <1>9, <1>10, <1>11 DEF Inv

LEMMA LastStepInv == Inv /\ (Answer \/ NoRecords) => Inv'
<1> SUFFICES ASSUME Inv, Answer \/ NoRecords PROVE Inv'
    OBVIOUS
<1>1. /\ Still /\ question' = question /\ pc' = "done" /\ rcode' \in Rcode \ {""}
      /\ answer' = answer /\ todo' = todo
    BY DEF Answer, NoRecords, Still, Respond, HandOn, Rcode
<1>2. IType'
    BY <1>1, StepType DEF Inv, IType, Label
<1>3. Stages'
    BY <1>1 DEF Inv, Stages
<1> QED BY <1>1, <1>2, <1>3 DEF Inv

LEMMA ChangeInv ==
    ASSUME Inv, NEW rr \in Pool, AddRecord(rr) \/ RemoveRecord(rr) \/ RemoveAllRecords(rr)
    PROVE  Inv'
<1>1. PICK records \in SUBSET Pool : Become(records)
    BY DEF Inv, IType, AddRecord, RemoveRecord, RemoveAllRecords
<1>2. /\ cache' \in SUBSET Pool /\ cache' \in seen'
      /\ question' = question /\ pc' = pc /\ todo' = todo /\ answer' = answer /\ rcode' = rcode
    BY <1>1 DEF Become, query
<1>3. changes' \in 0 .. MaxChanges
  <2>1. changes < MaxChanges /\ changes' = changes + 1 /\ changes \in 0 .. MaxChanges
    BY <1>1 DEF Become, Inv, IType
  <2> QED BY <2>1, BoundAssumption
<1>4. IType'
    BY <1>2, <1>3 DEF Inv, IType
<1>5. Stages'
    BY <1>2 DEF Inv, Stages
<1> QED BY <1>2, <1>4, <1>5 DEF Inv

LEMMA StepInv == Inv /\ [Next]_vars => Inv'
<1> SUFFICES ASSUME Inv, [Next]_vars PROVE Inv'
    OBVIOUS
<1>1. CASE UNCHANGED vars
  <2>1. UNCHANGED <<cache, question, pc, todo, answer, rcode, seen, changes>>
    BY <1>1 DEF vars, query
  <2> QED BY <2>1 DEF Inv, IType, Stages
<1>2. CASE Step
    BY <1>2, ClassifyInv, LookUpRecordsInv, LookUpCNAMEInv, GiveUpTargetInv, LookUpTargetInv,
       LookUpTargetCNAMEInv, LastStepInv DEF Step
<1>3. CASE \E rr \in Pool : AddRecord(rr) \/ RemoveRecord(rr) \/ RemoveAllRecords(rr)
    BY <1>3, ChangeInv
<1> QED BY <1>1, <1>2, <1>3 DEF Next

(* Every state of a query has the types declared, whatever the cache does. *)
THEOREM TypeCorrect == Spec => []TypeOK
<1>1. Inv => TypeOK
  <2> SUFFICES ASSUME Inv PROVE TypeOK
    OBVIOUS
  <2>1. \A i \in DOMAIN todo : todo[i].hops \in 0 .. MaxHops
    <3>1. todo \in Seq(Task)
      BY DEF Inv, IType
    <3>2. \A i \in DOMAIN todo : todo[i] \in Task
      BY <3>1
    <3> QED BY <3>2 DEF Task
  <2> QED BY <2>1 DEF TypeOK, Inv, IType, Stages, Rcode
<1> QED BY <1>1, InitInv, StepInv, PTL DEF Spec

(* An answer hangs together for any records, names and depths: the records *)
(* ServeDNS and resolveCNAMETarget collect are of the name in question or  *)
(* of the target of a CNAME record before them, however watchers change    *)
(* the cache between the lookups.                                          *)
THEOREM AnswersHang == Spec => []AnswersHangTogether
<1>1. Inv => AnswersHangTogether
    BY DEF Inv, Rooted, Leads, AnswersHangTogether
<1> QED BY <1>1, InitInv, StepInv, PTL DEF Spec

------------------------------------------------------------------------------
(* The first hit among the wildcards is the closest record that covers the *)
(* name.                                                                   *)

LEMMA NameIs ==
    ASSUME NEW name \in Name
    PROVE  name \in Seq(STRING) /\ name \in Seq(STRING \cup {Star}) /\ Len(name) \in Nat
<1>1. name \in Seq(STRING)
    BY NameAssumption
<1> QED BY <1>1

LEMMA WildcardIs ==
    ASSUME NEW name \in Name, NEW i \in DOMAIN WildcardsOf(name)
    PROVE  /\ i \in 1 .. Len(name) - 1
           /\ Len(WildcardsOf(name)[i]) = Len(name) - i + 1
           /\ Covers(WildcardsOf(name)[i], name)
<1> DEFINE w == WildcardsOf(name)[i]
           rest == SubSeq(name, i + 1, Len(name))
<1>1. name \in Seq(STRING \cup {Star}) /\ Len(name) \in Nat
    BY NameIs
<1>2. i \in 1 .. Len(name) - 1 /\ w = <<Star>> \o rest
    BY DEF WildcardsOf
<1>3. rest \in Seq(STRING \cup {Star}) /\ Len(rest) = Len(name) - i
    BY <1>1, <1>2
<1>4. \A r \in Seq(STRING \cup {Star}) :
         /\ <<Star>> \o r # Root /\ Head(<<Star>> \o r) = Star
         /\ Tail(<<Star>> \o r) = r /\ Len(<<Star>> \o r) = Len(r) + 1
    BY DEF Root
<1>5. /\ IsWildcard(w) /\ Tail(w) = rest /\ Len(w) = Len(name) - i + 1
    BY <1>2, <1>3, <1>4 DEF IsWildcard
<1>6. InZone(name, Tail(w))
  <2>1. Len(name) - Len(rest) = i /\ i >= 0
    BY <1>1, <1>2, <1>3
  <2>2. InZone(name, rest)
    BY <2>1 DEF InZone
  <2> HIDE DEF w, rest
  <2> QED BY <2>2, <1>5
<1> HIDE DEF w, rest
<1>7. Len(w) > 1 /\ Len(name) >= Len(w)
    BY <1>1, <1>2, <1>5
<1> QED BY <1>2, <1>5, <1>6, <1>7 DEF Covers, w

LEMMA CoverIs ==
    ASSUME NEW name \in Name, NEW owner \in Name, Covers(owner, name), owner # name
    PROVE  \E i \in DOMAIN WildcardsOf(name) : WildcardsOf(name)[i] = owner
<1> DEFINE i == Len(name) - Len(Tail(owner))
<1>1. /\ name \in Seq(STRING \cup {Star}) /\ Len(name) \in Nat
      /\ owner \in Seq(STRING \cup {Star}) /\ Len(owner) \in Nat
    BY NameIs
<1>2. /\ owner # <<>> /\ Head(owner) = Star /\ Len(owner) > 1
      /\ Len(name) >= Len(owner) /\ InZone(name, Tail(owner))
    BY DEF Covers, IsWildcard, Root
<1>3. \A s \in Seq(STRING \cup {Star}) :
         s # <<>> => s = <<Head(s)>> \o Tail(s) /\ Len(Tail(s)) = Len(s) - 1
    OBVIOUS
<1>4. owner = <<Star>> \o Tail(owner) /\ Len(Tail(owner)) = Len(owner) - 1
    BY <1>1, <1>2, <1>3
<1>5. i \in 1 .. Len(name) - 1
    BY <1>1, <1>2, <1>4
<1>6. SubSeq(name, i + 1, Len(name)) = Tail(owner)
    BY <1>2 DEF InZone
<1> HIDE DEF i
<1>7. i \in DOMAIN WildcardsOf(name) /\ WildcardsOf(name)[i] = owner
    BY <1>4, <1>5, <1>6 DEF WildcardsOf
<1> QED BY <1>7

(* A record that covers the name is of the name or of one of the hits.     *)
LEMMA CoveredIsHit ==
    ASSUME cache \in SUBSET Pool, NEW name \in Name, NEW zone, NEW type, NEW rr \in cache,
           rr.zone = zone, rr.type = type, Covers(rr.name, name)
    PROVE  \/ rr.name = name /\ rr \in Entry(name, zone, type)
           \/ /\ rr.name # name
              /\ \E i \in Hits(name, zone, type) : WildcardsOf(name)[i] = rr.name
<1>1. rr.name \in Name
    BY PoolAssumption
<1>2. CASE rr.name = name
    BY <1>2 DEF Entry
<1>3. CASE rr.name # name
  <2>1. PICK i \in DOMAIN WildcardsOf(name) : WildcardsOf(name)[i] = rr.name
    BY <1>1, <1>3, CoverIs
  <2>2. rr \in Entry(WildcardsOf(name)[i], zone, type)
    BY <2>1 DEF Entry
  <2>3. i \in Hits(name, zone, type)
    BY <2>2 DEF Hits
  <2> QED BY <2>1, <2>3, <1>3
<1> QED BY <1>2, <1>3

LEMMA FirstHit ==
    ASSUME NEW name \in Name, NEW zone, NEW type, Hits(name, zone, type) # {}
    PROVE  LET m == Min(Hits(name, zone, type))
           IN  /\ m \in Hits(name, zone, type) /\ m \in DOMAIN WildcardsOf(name)
               /\ Entry(WildcardsOf(name)[m], zone, type) # {}
               /\ \A i \in Hits(name, zone, type) : m <= i
<1>1. Hits(name, zone, type) \in SUBSET Nat
  <2>1. DOMAIN WildcardsOf(name) = 1 .. Len(name) - 1
    BY DEF WildcardsOf
  <2>2. Len(name) \in Nat
    BY NameIs
  <2> QED BY <2>1, <2>2 DEF Hits
<1> DEFINE m == Min(Hits(name, zone, type))
<1>2. m \in Hits(name, zone, type) /\ \A i \in Hits(name, zone, type) : m <= i
    BY <1>1, MinIs
<1> HIDE DEF m
<1>3. m \in DOMAIN WildcardsOf(name) /\ Entry(WildcardsOf(name)[m], zone, type) # {}
    BY <1>2 DEF Hits
<1> QED BY <1>2, <1>3 DEF m

(* A lookup finds something when a record of the zone covers the name.     *)
LEMMA CoveredIsFound ==
    ASSUME cache \in SUBSET Pool, NEW name \in Name, NEW zone, NEW type, NEW rr \in cache,
           rr.zone = zone, rr.type = type, Covers(rr.name, name)
    PROVE  GetRecords(name, zone, type) # <<>>
<1>1. CASE Entry(name, zone, type) # {}
  <2>1. Found(name, zone, type) # {}
    BY <1>1 DEF Found, Shown
  <2> QED BY <2>1, GetRecordsIs
<1>2. CASE Entry(name, zone, type) = {}
  <2>1. Hits(name, zone, type) # {}
    BY <1>2, CoveredIsHit
  <2>2. Entry(WildcardsOf(name)[Min(Hits(name, zone, type))], zone, type) # {}
    BY <2>1, FirstHit
  <2>3. Found(name, zone, type) # {}
    BY <1>2, <2>1, <2>2 DEF Found, Shown
  <2> QED BY <2>3, GetRecordsIs
<1> QED BY <1>1, <1>2

(* A lookup finds the records of the closest names, and no more.           *)
LEMMA FoundIsAnswering ==
    ASSUME cache \in SUBSET Pool, NEW name \in Name, NEW type
    PROVE  ToSet(GetRecords(name, ZoneOf[name], type)) = Answering(name, type)
<1> DEFINE zone == ZoneOf[name]
           covering == {rr \in cache : rr.zone = zone /\ rr.type = type /\ Covers(rr.name, name)}
           closest ==
               {rr \in covering : \A other \in covering : Closer(rr.name, other.name, name)}
<1>1. Answering(name, type) = {[name |-> name, type |-> type, data |-> rr.data] : rr \in closest}
    BY DEF Answering
<1>2. \A E \in SUBSET cache : closest = E => Answering(name, type) = Shown(name, E)
    BY <1>1 DEF Shown
<1>3. \A n : Entry(n, zone, type) \in SUBSET cache
    BY DEF Entry
<1>4. CASE Entry(name, zone, type) # {}
  <2>1. closest = Entry(name, zone, type)
    BY <1>4 DEF Entry, Closer, Covers
  <2> QED BY <1>2, <1>3, <1>4, <2>1, GetRecordsIs DEF Found
<1>5. CASE Entry(name, zone, type) = {} /\ Hits(name, zone, type) = {}
  <2>1. covering = {}
    BY <1>5, CoveredIsHit
  <2>2. Answering(name, type) = {}
    BY <1>1, <2>1
  <2> QED BY <1>5, <2>2, GetRecordsIs DEF Found
<1>6. CASE Entry(name, zone, type) = {} /\ Hits(name, zone, type) # {}
  <2> DEFINE m == Min(Hits(name, zone, type))
             w == WildcardsOf(name)[m]
  <2>1. /\ m \in DOMAIN WildcardsOf(name) /\ Entry(w, zone, type) # {}
        /\ \A i \in Hits(name, zone, type) : m <= i
    BY <1>6, FirstHit
  <2> HIDE DEF m
  <2>2. Covers(w, name) /\ Len(w) = Len(name) - m + 1 /\ m \in 1 .. Len(name) - 1 /\ Len(name) \in Nat
    BY <2>1, WildcardIs, NameIs
  <2>3. ASSUME NEW rr \in covering
        PROVE  /\ rr.name # name
               /\ \E i \in Nat : /\ rr.name = WildcardsOf(name)[i] /\ m <= i
                                /\ Len(rr.name) = Len(name) - i + 1
    <3>1. PICK i \in Hits(name, zone, type) : rr.name # name /\ WildcardsOf(name)[i] = rr.name
      BY <1>6, CoveredIsHit
    <3>2. i \in DOMAIN WildcardsOf(name)
      BY DEF Hits
    <3>3. i \in Nat /\ Len(rr.name) = Len(name) - i + 1
      BY <3>1, <3>2, WildcardIs
    <3> QED BY <3>1, <3>3, <2>1
  <2>4. \A rr \in Entry(w, zone, type) : rr \in covering /\ rr.name = w
    BY <2>2 DEF Entry
  <2>5. ASSUME NEW rr \in Entry(w, zone, type), NEW other \in covering
        PROVE  Closer(rr.name, other.name, name)
    <3>1. rr.name = w /\ Len(rr.name) = Len(name) - m + 1
      BY <2>2, <2>4
    <3>2. other.name # name /\ \E i \in Nat : m <= i /\ Len(other.name) = Len(name) - i + 1
      BY <2>3
    <3>3. Len(rr.name) >= Len(other.name)
      BY <3>1, <3>2, <2>2
    <3> QED BY <3>2, <3>3 DEF Closer
  <2>6. ASSUME NEW rr \in closest
        PROVE  rr \in Entry(w, zone, type)
    <3>1. PICK e \in Entry(w, zone, type) : TRUE
      BY <2>1
    <3>2. e.name = w /\ Closer(rr.name, e.name, name)
      BY <2>4
    <3>3. PICK i \in Nat : /\ rr.name = WildcardsOf(name)[i] /\ m <= i
                           /\ Len(rr.name) = Len(name) - i + 1
      BY <2>3
    <3>4. rr.name # name
      BY <2>3
    <3>5. Len(rr.name) >= Len(w)
      BY <3>2, <3>4 DEF Closer
    <3>6. i = m
      BY <3>3, <3>5, <2>2
    <3> QED BY <3>3, <3>6 DEF Entry
  <2>7. closest = Entry(w, zone, type)
    BY <2>4, <2>5, <2>6
  <2>8. Found(name, zone, type) = Shown(name, Entry(w, zone, type))
    BY <1>6 DEF Found, m
  <2> HIDE DEF w
  <2> QED BY <1>2, <1>3, <2>7, <2>8, GetRecordsIs
<1> QED BY <1>4, <1>5, <1>6

------------------------------------------------------------------------------
(* What was there all the time is found.                                   *)

NoSteady(type) ==
    ~ \E rr \in Steady : rr.type = type /\ Covers(rr.name, question.name) /\ rr.zone = ZoneOf[question.name]

(* What the lookups that failed tell of the records that were there all    *)
(* the time.                                                               *)
Missing ==
    /\ pc = "cname" => IsAddress(question.type) /\ NoSteady(question.type)
    /\ (pc = "none" \/ rcode \in {"NODATA", "NXDOMAIN", "NEXT"}) => ~ \E rr \in Steady : Answers(rr)
    /\ rcode = "NXDOMAIN" =>
          ~ \E rr \in Steady : rr.name = question.name /\ rr.zone = ZoneOf[question.name]

LEMMA SteadyIsThere ==
    ASSUME IType
    PROVE  Steady \subseteq cache
BY DEF IType, Steady

(* A lookup that returns nothing.                                          *)
LEMMA NothingFound ==
    ASSUME IType, NEW type, GetRecords(question.name, ZoneOf[question.name], type) = <<>>
    PROVE  NoSteady(type)
<1> SUFFICES ASSUME NEW rr \in Steady, rr.type = type, Covers(rr.name, question.name),
                    rr.zone = ZoneOf[question.name]
             PROVE  FALSE
    BY DEF NoSteady
<1>1. PICK name, zone : name = question.name /\ zone = ZoneOf[question.name]
    OBVIOUS
<1>2. rr \in cache /\ cache \in SUBSET Pool /\ name \in Name
    BY <1>1, SteadyIsThere, QuestionType DEF IType
<1>3. GetRecords(name, zone, type) # <<>>
    BY <1>1, <1>2, CoveredIsFound
<1> QED BY <1>1, <1>3

(* The query steps leave what was there all the time alone.                *)
LEMMA StillMissing ==
    ASSUME Still
    PROVE  /\ question' = question /\ Steady' = Steady
           /\ \A type : NoSteady(type)' <=> NoSteady(type)
           /\ (\E rr \in Steady : Answers(rr))' <=> (\E rr \in Steady : Answers(rr))
<1>1. question' = question /\ Steady' = Steady
    BY DEF Still, Steady
<1> QED BY <1>1 DEF NoSteady, Answers

LEMMA ClassifyMissing == Inv /\ Missing /\ Classify => Missing'
<1> SUFFICES ASSUME Inv, Classify PROVE Missing'
    OBVIOUS
<1>1. pc' \in {"records", "done"} /\ rcode' \in {"", "REFUSED", "NOERROR", "SERVFAIL"}
    BY DEF Classify, Inv, IType, Respond, HandOn, Goto
<1> QED BY <1>1 DEF Missing

LEMMA LookUpRecordsMissing == Inv /\ Missing /\ LookUpRecords => Missing'
<1> SUFFICES ASSUME Inv, LookUpRecords PROVE Missing'
    OBVIOUS
<1>1. Still /\ rcode = "" /\ IType
    BY DEF LookUpRecords, Inv, IType
<1>2. CASE answer' # <<>>
  <2>1. pc' = "done" /\ rcode' \in {"NOERROR", "SERVFAIL"}
    BY <1>2 DEF LookUpRecords, Respond
  <2> QED BY <2>1 DEF Missing
<1>3. CASE answer' = <<>>
  <2>1. rcode' = "" /\ pc' = IF IsAddress(question.type) THEN "cname" ELSE "none"
    BY <1>1, <1>3 DEF LookUpRecords, Goto
  <2>2. GetRecords(question.name, ZoneOf[question.name], question.type) = <<>>
    BY <1>3 DEF LookUpRecords
  <2>3. NoSteady(question.type)
    BY <1>1, <2>2, NothingFound
  <2>4. ~ IsAddress(question.type) => ~ \E rr \in Steady : Answers(rr)
    BY <2>3 DEF NoSteady, Answers
  <2>5. NoSteady(question.type)' /\ (pc' = "none" => ~ (\E rr \in Steady : Answers(rr))')
    BY <1>1, <2>1, <2>3, <2>4, StillMissing
  <2>6. pc' = "cname" => IsAddress(question.type)'
    BY <1>1, <2>1, StillMissing
  <2> QED BY <2>1, <2>5, <2>6 DEF Missing
<1> QED BY <1>2, <1>3

LEMMA LookUpCNAMEMissing == Inv /\ Missing /\ LookUpCNAME => Missing'
<1> SUFFICES ASSUME Inv, Missing, LookUpCNAME PROVE Missing'
    OBVIOUS
<1>1. Still /\ rcode' = "" /\ IType /\ IsAddress(question.type) /\ NoSteady(question.type)
    BY DEF LookUpCNAME, Inv, IType, Goto, Missing
<1>2. CASE answer' # <<>>
  <2>1. pc' = "follow"
    BY <1>2 DEF LookUpCNAME, Goto
  <2> QED BY <1>1, <2>1 DEF Missing
<1>3. CASE answer' = <<>>
  <2>1. pc' = "none" /\ GetRecords(question.name, ZoneOf[question.name], "CNAME") = <<>>
    BY <1>3 DEF LookUpCNAME, Goto
  <2>2. NoSteady("CNAME")
    BY <1>1, <2>1, NothingFound
  <2>3. ~ \E rr \in Steady : Answers(rr)
    BY <1>1, <2>2 DEF NoSteady, Answers
  <2>4. ~ (\E rr \in Steady : Answers(rr))'
    BY <1>1, <2>3, StillMissing
  <2> QED BY <1>1, <2>1, <2>4 DEF Missing
<1> QED BY <1>2, <1>3

LEMMA FollowMissing ==
    Inv /\ Missing /\ (GiveUpTarget \/ LookUpTarget \/ LookUpTargetCNAME \/ Answer) => Missing'
<1> SUFFICES ASSUME Inv, GiveUpTarget \/ LookUpTarget \/ LookUpTargetCNAME \/ Answer PROVE Missing'
    OBVIOUS
<1>1. pc \in {"follow", "followcname"} /\ rcode = ""
    BY DEF GiveUpTarget, LookUpTarget, LookUpTargetCNAME, Answer, Inv, IType
<1>2. pc' \in {"follow", "followcname", "done"} /\ rcode' \in {"", "NOERROR", "SERVFAIL"}
    BY <1>1 DEF GiveUpTarget, LookUpTarget, LookUpTargetCNAME, Answer, Respond, Goto
<1> QED BY <1>2 DEF Missing

LEMMA NoRecordsMissing == Inv /\ Missing /\ NoRecords => Missing'
<1> SUFFICES ASSUME Inv, Missing, NoRecords PROVE Missing'
    OBVIOUS
<1>1. Still /\ pc' = "done" /\ ~ \E rr \in Steady : Answers(rr)
    BY DEF NoRecords, Missing, Respond, HandOn
<1>2. ~ (\E rr \in Steady : Answers(rr))'
    BY <1>1, StillMissing
<1>3. rcode' = "NXDOMAIN" => ~ DomainExists(question.name, ZoneOf[question.name])
    BY DEF NoRecords, Respond, HandOn
<1>4. rcode' = "NXDOMAIN" =>
        ~ \E rr \in Steady : rr.name = question.name /\ rr.zone = ZoneOf[question.name]
    BY <1>3, SteadyIsThere DEF DomainExists, Inv
<1>5. question' = question /\ Steady' = Steady
    BY <1>1, StillMissing
<1> QED BY <1>1, <1>2, <1>4, <1>5 DEF Missing

LEMMA ChangeMissing ==
    ASSUME Inv, Missing, NEW rr \in Pool, AddRecord(rr) \/ RemoveRecord(rr) \/ RemoveAllRecords(rr)
    PROVE  Missing'
<1>1. seen \subseteq seen' /\ question' = question /\ pc' = pc /\ rcode' = rcode
    BY DEF AddRecord, RemoveRecord, RemoveAllRecords, Become, query
<1>2. Steady' \subseteq Steady
    BY <1>1 DEF Steady
<1>3. \A r : Answers(r)' <=> Answers(r)
    BY <1>1 DEF Answers
<1> QED BY <1>1, <1>2, <1>3 DEF Missing, NoSteady

LEMMA StepMissing == Inv /\ Missing /\ [Next]_vars => Missing'
<1> SUFFICES ASSUME Inv, Missing, [Next]_vars PROVE Missing'
    OBVIOUS
<1>1. CASE UNCHANGED vars
    BY <1>1 DEF vars, query, Missing, NoSteady, Steady, Answers
<1>2. CASE Step
    BY <1>2, ClassifyMissing, LookUpRecordsMissing, LookUpCNAMEMissing, FollowMissing, NoRecordsMissing
    DEF Step
<1>3. CASE \E rr \in Pool : AddRecord(rr) \/ RemoveRecord(rr) \/ RemoveAllRecords(rr)
    BY <1>3, ChangeMissing
<1> QED BY <1>1, <1>2, <1>3 DEF Next

(* A client is told that there is nothing, or handed to the next plugin,   *)
(* only when no record that answers was there all the time, though         *)
(* ServeDNS looks up the type, CNAME records and the name one after the    *)
(* other while watchers change the cache.                                  *)
THEOREM PresentAnswered == Spec => []PresentIsAnswered
<1>1. Init => Missing
    BY DEF Init, Missing
<1>2. Inv /\ Missing => PresentIsAnswered
    BY DEF Missing, PresentIsAnswered, FromCache
<1> QED BY <1>1, <1>2, InitInv, StepInv, StepMissing, PTL DEF Spec

------------------------------------------------------------------------------
(* Where CNAME records lead, for given records that each name leads to.    *)

Level == 0 .. MaxHops

NamesOf(rrs) == {rr.data : rr \in {rr \in rrs : rr.type = "CNAME"}}

(* The names so many CNAME records away from the name.                     *)
IsAway(away, leads, name) ==
    /\ away \in [Level -> SUBSET Name] /\ away[0] = {name}
    /\ \A n \in 1 .. MaxHops : away[n] = NamesOf(UNION {leads[m] : m \in away[n - 1]})

Reached(away, leads) == UNION {leads[m] : m \in UNION {away[n] : n \in Level}}

(* The targets left are as far away as the hops left for them say, and no  *)
(* record is of a name that is farther away.                               *)
Sound(records, tasks, leads, away) ==
    /\ ToSet(records) \subseteq Reached(away, leads)
    /\ \A t \in DOMAIN tasks :
          tasks[t].hops > 0 => tasks[t].name \in away[MaxHops + 1 - tasks[t].hops]

(* What the names looked up so far lead to has been collected, and each    *)
(* name one more CNAME record away has been looked up or is left to do.    *)
Complete(records, tasks, leads, visited) ==
    \A m \in Name, n \in Level : <<m, n>> \in visited =>
        /\ leads[m] \subseteq ToSet(records)
        /\ \A x \in NamesOf(leads[m]) : n < MaxHops =>
              \/ <<x, n + 1>> \in visited
              \/ \E t \in DOMAIN tasks : tasks[t].name = x /\ tasks[t].hops = MaxHops - n

Explored(records, tasks, leads, name) ==
    /\ \A away : IsAway(away, leads, name) => Sound(records, tasks, leads, away)
    /\ \E visited \in SUBSET (Name \X Level) :
          <<name, 0>> \in visited /\ Complete(records, tasks, leads, visited)

(* The targets of the CNAME records among rrs, with the hops left.         *)
AreTargets(tasks, rrs, hops) ==
    /\ \A t \in DOMAIN tasks : tasks[t].hops = hops /\ tasks[t].name \in NamesOf(rrs)
    /\ \A x \in NamesOf(rrs) : \E t \in DOMAIN tasks : tasks[t].name = x /\ tasks[t].hops = hops

LEMMA AwayReached ==
    ASSUME NEW leads, NEW name, NEW away, IsAway(away, leads, name),
           NEW n \in Level, NEW m \in away[n]
    PROVE  /\ leads[m] \subseteq Reached(away, leads)
           /\ n < MaxHops => NamesOf(leads[m]) \subseteq away[n + 1]
<1>1. leads[m] \subseteq Reached(away, leads)
    BY DEF Reached
<1>2. ASSUME n < MaxHops
      PROVE  NamesOf(leads[m]) \subseteq away[n + 1]
  <2>1. n + 1 \in 1 .. MaxHops /\ (n + 1) - 1 = n
    BY <1>2, BoundAssumption DEF Level
  <2>2. away[n + 1] = NamesOf(UNION {leads[k] : k \in away[n]})
    BY <2>1 DEF IsAway
  <2>3. leads[m] \subseteq UNION {leads[k] : k \in away[n]}
    OBVIOUS
  <2> QED BY <2>2, <2>3 DEF NamesOf
<1> QED BY <1>1, <1>2

LEMMA ExploredFirst ==
    ASSUME NEW leads, NEW name \in Name, NEW a \in Seq(Record), ToSet(a) = leads[name],
           NEW tasks \in Seq(Task), AreTargets(tasks, leads[name], MaxHops)
    PROVE  Explored(a, tasks, leads, name)
<1> DEFINE visited == {<<name, 0>>}
<1>1. 0 \in Level
    BY BoundAssumption DEF Level
<1>2. ASSUME NEW away, IsAway(away, leads, name)
      PROVE  Sound(a, tasks, leads, away)
  <2>1. name \in away[0]
    BY <1>2 DEF IsAway
  <2>2. leads[name] \subseteq Reached(away, leads)
    BY <1>1, <1>2, <2>1, AwayReached
  <2>3. ASSUME NEW t \in DOMAIN tasks, tasks[t].hops > 0
        PROVE  tasks[t].name \in away[MaxHops + 1 - tasks[t].hops]
    <3>1. tasks[t].hops = MaxHops /\ tasks[t].name \in NamesOf(leads[name])
      BY DEF AreTargets
    <3>2. 0 < MaxHops /\ MaxHops + 1 - tasks[t].hops = 0 + 1
      BY <2>3, <3>1, BoundAssumption
    <3>3. NamesOf(leads[name]) \subseteq away[0 + 1]
      BY <1>1, <1>2, <2>1, <3>2, AwayReached
    <3> QED BY <3>1, <3>2, <3>3
  <2> QED BY <2>2, <2>3 DEF Sound
<1>3. Complete(a, tasks, leads, visited)
  <2> SUFFICES ASSUME NEW m \in Name, NEW n \in Level, <<m, n>> \in visited
               PROVE  /\ leads[m] \subseteq ToSet(a)
                      /\ \A x \in NamesOf(leads[m]) :
                            \E t \in DOMAIN tasks : tasks[t].name = x /\ tasks[t].hops = MaxHops - n
    BY DEF Complete
  <2>1. m = name /\ n = 0 /\ MaxHops - n = MaxHops
    BY BoundAssumption
  <2> QED BY <2>1 DEF AreTargets
<1>4. visited \in SUBSET (Name \X Level) /\ <<name, 0>> \in visited
    BY <1>1
<1> HIDE DEF visited
<1> QED BY <1>2, <1>3, <1>4 DEF Explored

(* A target with no hops left is not looked up.                            *)
LEMMA ExploredTail ==
    ASSUME NEW leads, NEW name, NEW a, NEW tasks \in Seq(Task), tasks # <<>>,
           Head(tasks).hops = 0, Explored(a, tasks, leads, name)
    PROVE  Explored(a, Tail(tasks), leads, name)
<1> DEFINE rest == Tail(tasks)
<1>1. /\ DOMAIN tasks = 1 .. Len(tasks) /\ Len(tasks) \in Nat /\ Head(tasks) = tasks[1]
      /\ DOMAIN rest = 1 .. Len(tasks) - 1
      /\ \A t \in DOMAIN rest : t + 1 \in DOMAIN tasks /\ rest[t] = tasks[t + 1]
    OBVIOUS
<1> HIDE DEF rest
<1>2. \A t \in DOMAIN tasks : tasks[t].hops # 0 => t - 1 \in DOMAIN rest /\ rest[t - 1] = tasks[t]
    BY <1>1
<1>3. ASSUME NEW away, IsAway(away, leads, name)
      PROVE  Sound(a, rest, leads, away)
    BY <1>1, <1>3 DEF Explored, Sound
<1>4. ASSUME NEW visited, Complete(a, tasks, leads, visited)
      PROVE  Complete(a, rest, leads, visited)
  <2> SUFFICES ASSUME NEW m \in Name, NEW n \in Level, <<m, n>> \in visited
               PROVE  /\ leads[m] \subseteq ToSet(a)
                      /\ \A x \in NamesOf(leads[m]) : n < MaxHops =>
                            \/ <<x, n + 1>> \in visited
                            \/ \E t \in DOMAIN rest : rest[t].name = x /\ rest[t].hops = MaxHops - n
    BY DEF Complete
  <2>1. leads[m] \subseteq ToSet(a)
    BY <1>4 DEF Complete
  <2>2. ASSUME NEW x \in NamesOf(leads[m]), n < MaxHops, <<x, n + 1>> \notin visited
        PROVE  \E t \in DOMAIN rest : rest[t].name = x /\ rest[t].hops = MaxHops - n
    <3>1. PICK t \in DOMAIN tasks : tasks[t].name = x /\ tasks[t].hops = MaxHops - n
      BY <1>4, <2>2 DEF Complete
    <3>2. MaxHops - n # 0
      BY <2>2, BoundAssumption DEF Level
    <3> QED BY <1>2, <3>1, <3>2
  <2> QED BY <2>1, <2>2
<1> QED BY <1>3, <1>4 DEF Explored, rest

(* A target is looked up.                                                  *)
LEMMA ExploredMore ==
    ASSUME NEW leads, NEW name, NEW a \in Seq(Record), NEW rrs \in Seq(Record),
           NEW tasks \in Seq(Task), tasks # <<>>, NEW new \in Seq(Task),
           NEW of, of = Head(tasks).name, NEW hops, hops = Head(tasks).hops, hops > 0,
           Explored(a, tasks, leads, name),
           ToSet(rrs) = leads[of], AreTargets(new, leads[of], hops - 1)
    PROVE  Explored(a \o rrs, new \o Tail(tasks), leads, name)
<1> DEFINE rest == Tail(tasks)
           next == new \o rest
           place == MaxHops + 1 - hops
<1>1. /\ DOMAIN tasks = 1 .. Len(tasks) /\ Len(tasks) \in Nat /\ Head(tasks) = tasks[1]
      /\ DOMAIN rest = 1 .. Len(tasks) - 1 /\ rest \in Seq(Task)
      /\ \A t \in DOMAIN rest : t + 1 \in DOMAIN tasks /\ rest[t] = tasks[t + 1]
    OBVIOUS
<1>2. Head(tasks) \in Task /\ 1 \in DOMAIN tasks
    BY <1>1
<1>3. of \in Name /\ hops \in 1 .. MaxHops
    BY <1>2, BoundAssumption DEF Task
<1>4. place \in 1 .. MaxHops /\ place \in Level
    BY SMTT(40), <1>3, BoundAssumption DEF Level
<1> HIDE DEF rest
<1>5. ToSet(a \o rrs) = ToSet(a) \cup leads[of]
    BY ToSetConcat
<1>6. /\ \A t \in DOMAIN next :
           (\E u \in DOMAIN new : next[t] = new[u]) \/ (\E u \in DOMAIN rest : next[t] = rest[u])
      /\ \A u \in DOMAIN new : \E t \in DOMAIN next : next[t] = new[u]
      /\ \A u \in DOMAIN rest : \E t \in DOMAIN next : next[t] = rest[u]
  <2>1. /\ DOMAIN new = 1 .. Len(new) /\ Len(new) \in Nat
        /\ DOMAIN rest = 1 .. Len(rest) /\ Len(rest) \in Nat
        /\ DOMAIN next = 1 .. Len(new) + Len(rest)
        /\ \A t \in DOMAIN new : next[t] = new[t] /\ t \in DOMAIN next
        /\ \A t \in DOMAIN rest : next[Len(new) + t] = rest[t] /\ Len(new) + t \in DOMAIN next
    <3>1. \A s, r \in Seq(Task) :
             /\ DOMAIN s = 1 .. Len(s) /\ Len(s) \in Nat /\ DOMAIN r = 1 .. Len(r) /\ Len(r) \in Nat
             /\ DOMAIN (s \o r) = 1 .. Len(s) + Len(r)
             /\ \A t \in DOMAIN s : (s \o r)[t] = s[t] /\ t \in DOMAIN (s \o r)
             /\ \A t \in DOMAIN r : (s \o r)[Len(s) + t] = r[t] /\ Len(s) + t \in DOMAIN (s \o r)
      BY SMTT(40)
    <3> QED BY <1>1, <3>1
  <2> HIDE DEF next
  <2>2. ASSUME NEW t \in DOMAIN next, t > Len(new)
        PROVE  \E u \in DOMAIN rest : next[t] = rest[u]
    <3>1. t - Len(new) \in DOMAIN rest /\ t = Len(new) + (t - Len(new))
      BY <2>1, <2>2
    <3> QED BY <2>1, <3>1
  <2>3. ASSUME NEW t \in DOMAIN next, ~ (t > Len(new))
        PROVE  \E u \in DOMAIN new : next[t] = new[u]
    BY <2>1, <2>3
  <2> QED BY <2>1, <2>2, <2>3
<1> HIDE DEF next
<1>7. ASSUME NEW away, IsAway(away, leads, name)
      PROVE  Sound(a \o rrs, next, leads, away)
  <2>1. Sound(a, tasks, leads, away)
    BY <1>7 DEF Explored
  <2>2. of \in away[place]
    BY <1>1, <1>2, <1>3, <2>1 DEF Sound
  <2>3. leads[of] \subseteq Reached(away, leads)
    BY <1>4, <1>7, <2>2, AwayReached
  <2>4. ASSUME NEW u \in DOMAIN new, new[u].hops > 0
        PROVE  new[u].name \in away[MaxHops + 1 - new[u].hops]
    <3>1. new[u].hops = hops - 1 /\ new[u].name \in NamesOf(leads[of])
      BY DEF AreTargets
    <3>2. place < MaxHops /\ MaxHops + 1 - new[u].hops = place + 1
      <4>1. \A h \in 1 .. MaxHops : h - 1 > 0 =>
                /\ MaxHops + 1 - h < MaxHops
                /\ MaxHops + 1 - (h - 1) = (MaxHops + 1 - h) + 1
        BY BoundAssumption
      <4> QED BY <1>3, <2>4, <3>1, <4>1
    <3> HIDE DEF place
    <3>3. NamesOf(leads[of]) \subseteq away[place + 1]
      BY <1>4, <1>7, <2>2, <3>2, AwayReached
    <3> QED BY <3>1, <3>2, <3>3
  <2>5. ASSUME NEW u \in DOMAIN rest, rest[u].hops > 0
        PROVE  rest[u].name \in away[MaxHops + 1 - rest[u].hops]
    BY <1>1, <2>1, <2>5 DEF Sound
  <2>6. \A t \in DOMAIN next : next[t].hops > 0 => next[t].name \in away[MaxHops + 1 - next[t].hops]
    BY <1>6, <2>4, <2>5
  <2> QED BY <1>5, <2>1, <2>3, <2>6 DEF Sound
<1>8. PICK visited \in SUBSET (Name \X Level) :
         <<name, 0>> \in visited /\ Complete(a, tasks, leads, visited)
    BY DEF Explored
<1> DEFINE more == visited \cup {<<of, place>>}
<1>9. Complete(a \o rrs, next, leads, more)
  <2> SUFFICES ASSUME NEW m \in Name, NEW n \in Level, <<m, n>> \in more
               PROVE  /\ leads[m] \subseteq ToSet(a \o rrs)
                      /\ \A x \in NamesOf(leads[m]) : n < MaxHops =>
                            \/ <<x, n + 1>> \in more
                            \/ \E t \in DOMAIN next : next[t].name = x /\ next[t].hops = MaxHops - n
    BY DEF Complete
  <2>1. CASE <<m, n>> \in visited
    <3>1. leads[m] \subseteq ToSet(a)
      BY <1>8, <2>1 DEF Complete
    <3>2. ASSUME NEW x \in NamesOf(leads[m]), n < MaxHops, <<x, n + 1>> \notin more
          PROVE  \E t \in DOMAIN next : next[t].name = x /\ next[t].hops = MaxHops - n
      <4>1. PICK t \in DOMAIN tasks : tasks[t].name = x /\ tasks[t].hops = MaxHops - n
        BY SMTT(40), <1>8, <2>1, <3>2 DEF Complete
      <4>2. t # 1
        <5>1. SUFFICES ASSUME t = 1 PROVE FALSE
          OBVIOUS
        <5>2. x = of /\ hops = MaxHops - n
          BY <1>1, <4>1, <5>1
        <5>3. n + 1 = place
          BY SMTT(40), <1>3, <5>2, BoundAssumption DEF Level
        <5> QED BY <3>2, <5>2, <5>3
      <4>3. t - 1 \in DOMAIN rest /\ rest[t - 1] = tasks[t]
        BY <1>1, <4>2
      <4> QED BY <1>6, <4>1, <4>3
    <3> QED BY <1>5, <3>1, <3>2
  <2>2. CASE m = of /\ n = place
    <3>1. MaxHops - n = hops - 1
      BY <2>2, <1>3, BoundAssumption
    <3>2. ASSUME NEW x \in NamesOf(leads[m])
          PROVE  \E t \in DOMAIN next : next[t].name = x /\ next[t].hops = MaxHops - n
      <4>1. PICK u \in DOMAIN new : new[u].name = x /\ new[u].hops = hops - 1
        BY <2>2 DEF AreTargets
      <4>2. PICK t \in DOMAIN next : next[t] = new[u]
        BY <1>6
      <4> QED BY <3>1, <4>1, <4>2
    <3> QED BY <1>5, <2>2, <3>2
  <2> QED BY <2>1, <2>2
<1>10. more \in SUBSET (Name \X Level) /\ <<name, 0>> \in more
    BY <1>3, <1>4, <1>8
<1> HIDE DEF more
<1> QED BY <1>7, <1>9, <1>10 DEF Explored, next, rest

(* Nothing is left: all that is reached has been collected.                *)
LEMMA ExploredAll ==
    ASSUME NEW leads, NEW name, NEW a, NEW away, IsAway(away, leads, name),
           Explored(a, <<>>, leads, name)
    PROVE  ToSet(a) = Reached(away, leads)
<1>1. PICK visited \in SUBSET (Name \X Level) :
         <<name, 0>> \in visited /\ Complete(a, <<>>, leads, visited)
    BY DEF Explored
<1> DEFINE P == {n \in Nat : n <= MaxHops => \A m \in away[n] : <<m, n>> \in visited}
<1>2. 0 \in P
    BY <1>1 DEF IsAway
<1>3. ASSUME NEW n \in Nat, n \in P
      PROVE  n + 1 \in P
  <2> SUFFICES ASSUME n + 1 <= MaxHops, NEW x \in away[n + 1]
               PROVE  <<x, n + 1>> \in visited
    OBVIOUS
  <2>1. n + 1 \in 1 .. MaxHops /\ (n + 1) - 1 = n /\ n \in Level /\ n < MaxHops
    BY BoundAssumption DEF Level
  <2>2. x \in NamesOf(UNION {leads[m] : m \in away[n]})
    BY <2>1 DEF IsAway
  <2>3. PICK m \in away[n] : x \in NamesOf(leads[m])
    BY <2>2 DEF NamesOf
  <2>4. <<m, n>> \in visited
    BY <1>3, <2>1, BoundAssumption
  <2>5. m \in Name
    BY <2>4
  <2>6. DOMAIN <<>> = {}
    OBVIOUS
  <2> QED BY <1>1, <2>1, <2>3, <2>4, <2>5, <2>6 DEF Complete
<1> HIDE DEF P
<1>4. Nat \subseteq P
    BY <1>2, <1>3, SetInduction
<1>5. ASSUME NEW n \in Level, NEW m \in away[n]
      PROVE  leads[m] \subseteq ToSet(a)
  <2>1. n \in Nat /\ n <= MaxHops
    BY BoundAssumption DEF Level
  <2>2. <<m, n>> \in visited
    <3>1. n \in P
      BY <1>4, <2>1
    <3>2. n <= MaxHops => \A k \in away[n] : <<k, n>> \in visited
      BY <3>1 DEF P
    <3> QED BY <3>2, <2>1
  <2> QED BY <1>1, <2>2 DEF Complete
<1>6. Reached(away, leads) \subseteq ToSet(a)
    BY <1>5 DEF Reached
<1>7. ToSet(a) \subseteq Reached(away, leads)
    BY DEF Explored, Sound
<1> QED BY <1>6, <1>7

------------------------------------------------------------------------------
(* The names of the definition, and those of the search.                   *)

LeadsFrom == [m \in Name |-> LeadsTo(m)]

LEMMA AnsweringIs ==
    ASSUME cache \in SUBSET Pool, NEW name, NEW type, NEW rr \in Answering(name, type)
    PROVE  rr.type = type /\ (rr.type = "CNAME" => rr.data \in Name)
<1>1. PICK r \in cache : r.type = type /\ rr = [name |-> name, type |-> type, data |-> r.data]
    BY DEF Answering
<1> QED BY <1>1, PoolAssumption

LEMMA LeadsToIs ==
    ASSUME cache \in SUBSET Pool, NEW name
    PROVE  /\ NamesOf(LeadsTo(name)) \subseteq Name
           /\ IsAddress(question.type) /\ Answering(name, question.type) # {}
                => LeadsTo(name) = Answering(name, question.type) /\ NamesOf(LeadsTo(name)) = {}
           /\ IsAddress(question.type) /\ Answering(name, question.type) = {}
                => LeadsTo(name) = Answering(name, "CNAME")
           /\ ~ IsAddress(question.type) => LeadsTo(name) = Answering(name, question.type)
<1>1. \A rr \in LeadsTo(name) : rr.type = "CNAME" => rr.data \in Name
    BY AnsweringIs DEF LeadsTo
<1>2. /\ IsAddress(question.type) /\ Answering(name, question.type) # {}
            => LeadsTo(name) = Answering(name, question.type)
      /\ IsAddress(question.type) /\ Answering(name, question.type) = {}
            => LeadsTo(name) = Answering(name, "CNAME")
      /\ ~ IsAddress(question.type) => LeadsTo(name) = Answering(name, question.type)
    BY DEF LeadsTo
<1>3. IsAddress(question.type) /\ Answering(name, question.type) # {} => NamesOf(LeadsTo(name)) = {}
  <2>1. IsAddress(question.type) => question.type # "CNAME"
    BY DEF IsAddress
  <2> QED BY <1>2, <2>1, AnsweringIs DEF NamesOf
<1> QED BY <1>1, <1>2, <1>3 DEF NamesOf

(* The definition, level by level.                                         *)
AreNames(names) ==
    names = [n \in 0 .. MaxHops |->
                IF n = 0 THEN {question.name}
                ELSE {rr.data : rr \in {rr \in UNION {LeadsTo(m) : m \in names[n - 1]} :
                                           IsAddress(question.type) /\ rr.type = "CNAME"}}]

LEMMA NamesExist ==
    ASSUME IType
    PROVE  \E names : /\ AreNames(names)
                      /\ Defined = UNION {LeadsTo(m) : m \in UNION {names[n] : n \in 0 .. MaxHops}}
<1> DEFINE following(M) == {rr.data : rr \in {rr \in UNION {LeadsTo(m) : m \in M} :
                                                IsAddress(question.type) /\ rr.type = "CNAME"}}
           next == [M \in SUBSET Name |-> following(M)]
<1>1. next \in [SUBSET Name -> SUBSET Name]
  <2>1. ASSUME NEW M \in SUBSET Name
        PROVE  following(M) \in SUBSET Name
    <3>1. \A m : NamesOf(LeadsTo(m)) \subseteq Name
      BY LeadsToIs DEF IType
    <3> QED BY <3>1 DEF NamesOf
  <2> QED BY <2>1
<1>2. {question.name} \in SUBSET Name
    BY QuestionType
<1>3. PICK f : Iterates(f, SUBSET Name, next, {question.name}, MaxHops)
  <2> HIDE DEF next
  <2>1. PICK S, step, start : S = SUBSET Name /\ step = next /\ start = {question.name}
    OBVIOUS
  <2>2. step \in [S -> S] /\ start \in S /\ MaxHops \in Nat
    BY <1>1, <1>2, <2>1, BoundAssumption
  <2>3. \E f : Iterates(f, S, step, start, MaxHops)
    BY <2>2, IterateExists
  <2> QED BY <2>1, <2>3
<1>4. /\ f \in [0 .. MaxHops -> SUBSET Name] /\ f[0] = {question.name}
      /\ \A i \in 1 .. MaxHops : f[i] = next[f[i - 1]]
  <2> HIDE DEF next
  <2> QED BY <1>3 DEF Iterates
<1>5. AreNames(f)
  <2>1. ASSUME NEW n \in 0 .. MaxHops
        PROVE  f[n] = IF n = 0 THEN {question.name} ELSE following(f[n - 1])
    <3>1. CASE n = 0
      BY <1>4, <3>1
    <3>2. CASE n # 0
      <4>1. n \in 1 .. MaxHops /\ f[n - 1] \in SUBSET Name
        BY <1>4, <3>2, BoundAssumption
      <4>2. f[n] = next[f[n - 1]]
        BY <1>4, <4>1
      <4> QED BY <3>2, <4>1, <4>2
    <3> QED BY <3>1, <3>2
  <2> HIDE DEF next
  <2>2. f = [n \in 0 .. MaxHops |-> f[n]]
    BY <1>4
  <2>3. f = [n \in 0 .. MaxHops |-> IF n = 0 THEN {question.name} ELSE following(f[n - 1])]
    BY <2>1, <2>2
  <2> QED BY <2>3 DEF AreNames
<1> HIDE DEF next
<1> DEFINE chosen == CHOOSE names : AreNames(names)
<1>6. AreNames(chosen)
    BY <1>5
<1>7. Defined = UNION {LeadsTo(m) : m \in UNION {chosen[n] : n \in 0 .. MaxHops}}
    BY DEF Defined, AreNames
<1> HIDE DEF chosen
<1> QED BY <1>6, <1>7

LEMMA DefinedIsReached ==
    ASSUME IType, IsAddress(question.type)
    PROVE  \E away : IsAway(away, LeadsFrom, question.name) /\ Defined = Reached(away, LeadsFrom)
<1>1. PICK names : /\ AreNames(names)
                   /\ Defined = UNION {LeadsTo(m) : m \in UNION {names[n] : n \in 0 .. MaxHops}}
    BY NamesExist
<1>2. /\ names = [n \in Level |-> names[n]]
      /\ names[0] = {question.name}
      /\ \A n \in 1 .. MaxHops : names[n] = NamesOf(UNION {LeadsTo(m) : m \in names[n - 1]})
  <2>1. 0 \in 0 .. MaxHops /\ \A n \in 1 .. MaxHops : n \in 0 .. MaxHops /\ n # 0
    BY BoundAssumption
  <2> QED BY <1>1, <2>1 DEF AreNames, NamesOf, Level
<1>3. ASSUME NEW n \in Level
      PROVE  names[n] \in SUBSET Name
  <2>1. CASE n = 0
    BY <1>2, <2>1, QuestionType
  <2>2. CASE n # 0
    <3>1. n \in 1 .. MaxHops
      BY <2>2, BoundAssumption DEF Level
    <3>2. names[n] = NamesOf(UNION {LeadsTo(m) : m \in names[n - 1]})
      BY <1>2, <3>1
    <3>3. \A m : NamesOf(LeadsTo(m)) \subseteq Name
      BY LeadsToIs DEF IType
    <3> QED BY <3>2, <3>3 DEF NamesOf
  <2> QED BY <2>1, <2>2
<1>4. names \in [Level -> SUBSET Name]
    BY <1>2, <1>3
<1>5. \A M \in SUBSET Name : {LeadsTo(m) : m \in M} = {LeadsFrom[m] : m \in M}
    BY DEF LeadsFrom
<1>6. ASSUME NEW n \in 1 .. MaxHops
      PROVE  names[n] = NamesOf(UNION {LeadsFrom[m] : m \in names[n - 1]})
  <2>1. n - 1 \in Level
    BY BoundAssumption DEF Level
  <2> QED BY <1>2, <1>3, <1>5, <2>1
<1>7. Defined = Reached(names, LeadsFrom)
  <2>1. UNION {names[n] : n \in Level} \in SUBSET Name
    BY <1>3
  <2>2. Defined = UNION {LeadsTo(m) : m \in UNION {names[n] : n \in Level}}
    BY <1>1 DEF Level
  <2> QED BY <1>5, <2>1, <2>2 DEF Reached
<1> QED BY <1>2, <1>4, <1>6, <1>7 DEF IsAway

(* A name that leads to no other name.                                     *)
LEMMA DefinedAlone ==
    ASSUME IType, ~ IsAddress(question.type) \/ NamesOf(LeadsTo(question.name)) = {}
    PROVE  Defined = LeadsTo(question.name)
<1>1. PICK names : /\ AreNames(names)
                   /\ Defined = UNION {LeadsTo(m) : m \in UNION {names[n] : n \in 0 .. MaxHops}}
    BY NamesExist
<1> DEFINE following(M) == {rr.data : rr \in {rr \in UNION {LeadsTo(m) : m \in M} :
                                                IsAddress(question.type) /\ rr.type = "CNAME"}}
<1>2. \A n \in 0 .. MaxHops : names[n] = IF n = 0 THEN {question.name} ELSE following(names[n - 1])
    BY <1>1 DEF AreNames
<1>3. following({question.name}) = {} /\ following({}) = {}
    BY DEF NamesOf
<1> HIDE DEF following
<1> DEFINE P == {n \in Nat : n + 1 <= MaxHops => names[n + 1] = {}}
<1>4. 0 \in P
  <2> SUFFICES ASSUME 1 <= MaxHops PROVE names[1] = {}
    OBVIOUS
  <2>1. 0 \in 0 .. MaxHops /\ 1 \in 0 .. MaxHops /\ 1 - 1 = 0
    BY BoundAssumption
  <2>2. names[0] = {question.name} /\ names[1] = following(names[0])
    BY <1>2, <2>1
  <2> QED BY <1>3, <2>2
<1>5. ASSUME NEW n \in Nat, n \in P
      PROVE  n + 1 \in P
  <2> SUFFICES ASSUME n + 1 + 1 <= MaxHops PROVE names[n + 1 + 1] = {}
    OBVIOUS
  <2>1. n + 1 + 1 \in 0 .. MaxHops /\ n + 1 + 1 # 0 /\ (n + 1 + 1) - 1 = n + 1 /\ n + 1 <= MaxHops
    BY BoundAssumption
  <2>2. names[n + 1 + 1] = following(names[n + 1]) /\ names[n + 1] = {}
    BY <1>2, <1>5, <2>1
  <2> QED BY <1>3, <2>2
<1> HIDE DEF P
<1>6. Nat \subseteq P
  <2>1. PICK p : p = P
    OBVIOUS
  <2> QED BY <1>4, <1>5, <2>1, SetInduction
<1>7. ASSUME NEW n \in 0 .. MaxHops, n # 0
      PROVE  names[n] = {}
  <2>1. n - 1 \in Nat /\ (n - 1) + 1 = n /\ n <= MaxHops
    BY <1>7, BoundAssumption
  <2>2. n - 1 \in P
    BY <1>6, <2>1
  <2>3. (n - 1) + 1 <= MaxHops => names[(n - 1) + 1] = {}
    BY <2>2 DEF P
  <2> QED BY <2>1, <2>3
<1>8. 0 \in 0 .. MaxHops /\ names[0] = {question.name}
    BY <1>2, BoundAssumption
<1>9. UNION {names[n] : n \in 0 .. MaxHops} = {question.name}
    BY <1>7, <1>8
<1> QED BY <1>1, <1>9

LEMMA StillSame ==
    ASSUME Still
    PROVE  /\ question' = question /\ cache' = cache /\ seen' = seen
           /\ LeadsFrom' = LeadsFrom /\ Defined' = Defined
           /\ \A name, type : Answering(name, type)' = Answering(name, type)
           /\ \A name : LeadsTo(name)' = LeadsTo(name)
<1>1. question' = question /\ cache' = cache /\ seen' = seen
    BY DEF Still
<1>2. \A name, type : Answering(name, type)' = Answering(name, type)
    BY <1>1 DEF Answering
<1>3. \A name : LeadsTo(name)' = LeadsTo(name)
    BY <1>1, <1>2 DEF LeadsTo
<1>4. LeadsFrom' = LeadsFrom
    BY <1>3 DEF LeadsFrom
<1> DEFINE chosen == CHOOSE names : AreNames(names)
<1>5. \A names : AreNames(names)' <=> AreNames(names)
    BY <1>1, <1>3 DEF AreNames
<1>6. chosen' = chosen
    BY <1>5, Zenon
<1>7. /\ Defined = UNION {LeadsTo(m) : m \in UNION {chosen[n] : n \in 0 .. MaxHops}}
      /\ Defined' = UNION {LeadsTo(m)' : m \in UNION {chosen'[n] : n \in 0 .. MaxHops}}
    BY DEF Defined, AreNames
<1> HIDE DEF chosen
<1>8. Defined' = Defined
    BY <1>3, <1>6, <1>7
<1> QED BY <1>1, <1>2, <1>3, <1>4, <1>8

------------------------------------------------------------------------------
(* The search arrives at the definition while nothing changes.             *)

Searched ==
    seen = {cache} =>
        /\ pc = "cname" => Answering(question.name, question.type) = {}
        /\ pc = "none" => LeadsTo(question.name) = {}
        /\ pc \in {"follow", "followcname"} =>
              IsAddress(question.type) /\ Explored(answer, todo, LeadsFrom, question.name)
        /\ pc = "followcname" => Answering(Target.name, question.type) = {}
        /\ FromCache => ToSet(answer) = Defined

LEMMA LookupIs ==
    ASSUME IType, NEW name \in Name, NEW type
    PROVE  LET rrs == GetRecords(name, ZoneOf[name], type)
           IN  /\ rrs \in Seq(Record) /\ ToSet(rrs) = Answering(name, type)
               /\ (rrs = <<>>) <=> (Answering(name, type) = {})
<1>1. cache \in SUBSET Pool
    BY DEF IType
<1>2. PICK zone : zone = ZoneOf[name]
    OBVIOUS
<1>3. GetRecords(name, zone, type) \in Seq(Record)
    BY <1>1, FoundType
<1>4. ToSet(GetRecords(name, ZoneOf[name], type)) = Answering(name, type)
    BY <1>1, FoundIsAnswering
<1>5. (GetRecords(name, zone, type) = <<>>) <=> (ToSet(GetRecords(name, zone, type)) = {})
    BY <1>3, EmptyIs
<1> QED BY <1>2, <1>3, <1>4, <1>5

LEMMA TargetsAre ==
    ASSUME NEW rrs \in Seq(Record), NEW hops \in 0 .. MaxHops,
           \A i \in DOMAIN rrs : rrs[i].type = "CNAME" /\ rrs[i].data \in Name
    PROVE  AreTargets(Targets(rrs, hops), ToSet(rrs), hops)
<1> DEFINE tasks == Targets(rrs, hops)
<1>1. /\ DOMAIN tasks = DOMAIN rrs
      /\ \A i \in DOMAIN rrs : tasks[i] = [name |-> rrs[i].data, hops |-> hops]
    BY TargetsType
<1> HIDE DEF tasks
<1>2. \A i \in DOMAIN rrs : tasks[i].name = rrs[i].data /\ tasks[i].hops = hops
    BY <1>1
<1>3. \A i \in DOMAIN rrs : rrs[i] \in ToSet(rrs)
    BY DEF ToSet
<1>4. \A x \in NamesOf(ToSet(rrs)) : \E i \in DOMAIN rrs : rrs[i].data = x
    BY DEF NamesOf, ToSet
<1>5. \A i \in DOMAIN rrs : rrs[i].data \in NamesOf(ToSet(rrs))
    BY <1>3 DEF NamesOf
<1> QED BY <1>1, <1>2, <1>4, <1>5 DEF AreTargets, tasks

LEMMA ClassifySearched == Inv /\ Searched /\ Classify => Searched'
<1> SUFFICES ASSUME Inv, Classify PROVE Searched'
    OBVIOUS
<1>1. Still /\ pc' \in {"records", "done"} /\ question' = question
    BY DEF Classify, Respond, HandOn, Goto, Still
<1>2. pc' = "records" => rcode' = ""
    BY DEF Classify, Respond, HandOn, Goto, Inv, IType
<1>3. pc' = "done" => rcode' = "REFUSED" \/ question.type = "SOA"
    BY DEF Classify, Respond, HandOn, Goto
<1> QED BY <1>1, <1>2, <1>3 DEF Searched, FromCache

LEMMA LookUpRecordsSearched == Inv /\ Searched /\ LookUpRecords => Searched'
<1> SUFFICES ASSUME Inv, LookUpRecords PROVE Searched'
    OBVIOUS
<1> DEFINE found == GetRecords(question.name, ZoneOf[question.name], question.type)
<1>1. Still /\ rcode = "" /\ IType /\ answer' = found /\ question.name \in Name
    BY QuestionType DEF LookUpRecords, Inv, IType
<1>2. /\ ToSet(found) = Answering(question.name, question.type)
      /\ (found = <<>>) <=> (Answering(question.name, question.type) = {})
  <2>1. PICK name, type : name = question.name /\ type = question.type
    OBVIOUS
  <2> QED BY <1>1, <2>1, LookupIs
<1> HIDE DEF found
<1>3. PICK none : none = Answering(question.name, question.type)
    OBVIOUS
<1>4. Answering(question.name, question.type)' = none /\ IsAddress(question.type)' = IsAddress(question.type)
    BY <1>1, <1>3, StillSame
<1>5. CASE found # <<>>
  <2>1. pc' = "done"
    BY <1>1, <1>5 DEF LookUpRecords, Respond
  <2>2. LeadsTo(question.name) = Answering(question.name, question.type)
    BY <1>1, <1>2, <1>5, LeadsToIs DEF IType
  <2>3. ~ IsAddress(question.type) \/ NamesOf(LeadsTo(question.name)) = {}
    BY <1>1, <1>2, <1>5, LeadsToIs DEF IType
  <2>4. Defined = ToSet(found)
    BY <1>1, <1>2, <2>2, <2>3, DefinedAlone
  <2>5. Defined' = ToSet(answer')
    BY <1>1, <2>4, StillSame
  <2> QED BY <2>1, <2>5 DEF Searched
<1>6. CASE found = <<>>
  <2>1. rcode' = "" /\ pc' = IF IsAddress(question.type) THEN "cname" ELSE "none"
    BY <1>1, <1>6 DEF LookUpRecords, Goto
  <2>2. none = {}
    BY <1>2, <1>3, <1>6
  <2>3. ~ IsAddress(question.type) => LeadsTo(question.name) = {}
    BY <1>1, <1>3, <2>2, LeadsToIs DEF IType
  <2>4. pc' = "none" => LeadsTo(question.name)' = {}
    BY <1>1, <2>1, <2>3, StillSame
  <2> QED BY <1>4, <2>1, <2>2, <2>4 DEF Searched, FromCache
<1> QED BY <1>5, <1>6

LEMMA LookUpCNAMESearched == Inv /\ Missing /\ Searched /\ LookUpCNAME => Searched'
<1> SUFFICES ASSUME Inv, Missing, Searched, LookUpCNAME, seen' = {cache'} PROVE Searched'
    BY DEF Searched
<1> DEFINE found == GetRecords(question.name, ZoneOf[question.name], "CNAME")
<1>1. /\ Still /\ rcode' = "" /\ IType /\ answer' = found /\ question.name \in Name
      /\ pc = "cname" /\ IsAddress(question.type) /\ todo' = Targets(found, MaxHops)
      /\ pc' = IF found # <<>> THEN "follow" ELSE "none"
    BY QuestionType DEF LookUpCNAME, Inv, IType, Missing, Goto
<1>2. /\ found \in Seq(Record) /\ ToSet(found) = Answering(question.name, "CNAME")
      /\ (found = <<>>) <=> (Answering(question.name, "CNAME") = {})
      /\ \A i \in DOMAIN found : found[i].type = "CNAME" /\ found[i].data \in Name
  <2>1. PICK name, zone : name = question.name /\ zone = ZoneOf[question.name]
    OBVIOUS
  <2>2. cache \in SUBSET Pool /\ name \in Name
    BY <1>1, <2>1 DEF IType
  <2>3. PICK type : type = "CNAME"
    OBVIOUS
  <2>4. \A i \in DOMAIN GetRecords(name, zone, type) :
           /\ GetRecords(name, zone, type)[i].type = type
           /\ type = "CNAME" => GetRecords(name, zone, type)[i].data \in Name
    BY <2>2, FoundType
  <2> QED BY <1>1, <2>1, <2>2, <2>3, <2>4, LookupIs
<1> HIDE DEF found
<1>3. seen = {cache} /\ Answering(question.name, question.type) = {}
    BY <1>1 DEF Still, Searched
<1>4. LeadsTo(question.name) = ToSet(found)
    BY <1>1, <1>2, <1>3, LeadsToIs DEF IType
<1>5. LeadsFrom[question.name] = ToSet(found)
    BY <1>1, <1>4 DEF LeadsFrom
<1>6. MaxHops \in 0 .. MaxHops
    BY BoundAssumption
<1>7. Targets(found, MaxHops) \in Seq(Task) /\ AreTargets(Targets(found, MaxHops), ToSet(found), MaxHops)
    BY <1>2, <1>6, TargetsAre, TargetsType
<1>8. PICK leads, name : leads = LeadsFrom /\ name = question.name
    OBVIOUS
<1>9. Explored(found, Targets(found, MaxHops), leads, name)
    BY <1>1, <1>2, <1>5, <1>7, <1>8, ExploredFirst
<1>10. Explored(answer', todo', LeadsFrom', question'.name) /\ IsAddress(question'.type)
    BY <1>1, <1>8, <1>9, StillSame
<1>11. pc' = "none" => LeadsTo(question.name)' = {}
  <2>1. pc' = "none" => LeadsTo(question.name) = {}
    BY <1>1, <1>2, <1>4
  <2> QED BY <1>1, <2>1, StillSame
<1>12. pc' \in {"follow", "none"}
    BY <1>1
<1> QED BY <1>1, <1>10, <1>11, <1>12 DEF Searched, FromCache

LEMMA GiveUpTargetSearched == Inv /\ Searched /\ GiveUpTarget => Searched'
<1> SUFFICES ASSUME Inv, Searched, GiveUpTarget, seen' = {cache'} PROVE Searched'
    BY DEF Searched
<1>1. /\ Still /\ pc = "follow" /\ pc' = pc /\ rcode = "" /\ rcode' = "" /\ answer' = answer
      /\ todo \in Seq(Task) /\ todo # <<>> /\ Head(todo).hops = 0 /\ todo' = Tail(todo)
    BY DEF GiveUpTarget, Inv, IType, Target
<1>2. IsAddress(question.type) /\ Explored(answer, todo, LeadsFrom, question.name)
    BY <1>1 DEF Still, Searched
<1>3. PICK leads, name, a, tasks : leads = LeadsFrom /\ name = question.name /\ a = answer /\ tasks = todo
    OBVIOUS
<1>4. Explored(a, Tail(tasks), leads, name)
    BY <1>1, <1>2, <1>3, ExploredTail
<1>5. Explored(answer', todo', LeadsFrom', question'.name) /\ IsAddress(question'.type)
    BY <1>1, <1>2, <1>3, <1>4, StillSame
<1> QED BY <1>1, <1>5 DEF Searched, FromCache

LEMMA LookUpTargetSearched == Inv /\ Searched /\ LookUpTarget => Searched'
<1> SUFFICES ASSUME Inv, Searched, LookUpTarget, seen' = {cache'} PROVE Searched'
    BY DEF Searched
<1> DEFINE found == GetRecords(Target.name, ZoneOf[Target.name], question.type)
<1>1. /\ Still /\ pc = "follow" /\ rcode = "" /\ rcode' = "" /\ answer' = answer \o found
      /\ todo \in Seq(Task) /\ answer \in Seq(Record) /\ todo # <<>> /\ Target.hops > 0 /\ IType
      /\ IF found # <<>> THEN todo' = Tail(todo) /\ pc' = pc
         ELSE todo' = todo /\ pc' = "followcname"
    BY DEF LookUpTarget, Inv, IType, Goto
<1>2. IsAddress(question.type) /\ Explored(answer, todo, LeadsFrom, question.name)
    BY <1>1 DEF Still, Searched
<1>3. Target \in Task /\ Target.name \in Name
    BY <1>1, TargetIs
<1>4. /\ found \in Seq(Record) /\ ToSet(found) = Answering(Target.name, question.type)
      /\ (found = <<>>) <=> (Answering(Target.name, question.type) = {})
  <2>1. PICK name, type : name = Target.name /\ type = question.type
    OBVIOUS
  <2> QED BY <1>1, <1>3, <2>1, LookupIs
<1> HIDE DEF found
<1>5. CASE found # <<>>
  <2>1. ToSet(found) = LeadsTo(Target.name) /\ NamesOf(LeadsTo(Target.name)) = {}
    BY <1>1, <1>2, <1>4, <1>5, LeadsToIs DEF IType
  <2>2. LeadsFrom[Target.name] = ToSet(found) /\ NamesOf(ToSet(found)) = {}
    BY <1>3, <2>1 DEF LeadsFrom
  <2>3. PICK leads, name, a, tasks, of, hops, rrs :
           /\ leads = LeadsFrom /\ name = question.name /\ a = answer /\ tasks = todo
           /\ of = Target.name /\ hops = Target.hops /\ rrs = found
    OBVIOUS
  <2>4. <<>> \in Seq(Task) /\ AreTargets(<<>>, leads[of], hops - 1)
    BY <2>2, <2>3, Empties DEF AreTargets
  <2>5. of = Head(tasks).name /\ hops = Head(tasks).hops
    BY <2>3 DEF Target
  <2>6. Explored(a \o rrs, <<>> \o Tail(tasks), leads, name)
    BY <1>1, <1>2, <1>4, <2>2, <2>3, <2>4, <2>5, ExploredMore
  <2>7. <<>> \o Tail(tasks) = Tail(tasks)
    <3>1. \A s \in Seq(Task) : s # <<>> => <<>> \o Tail(s) = Tail(s)
      OBVIOUS
    <3> QED BY <3>1, <1>1, <2>3
  <2>8. Explored(answer', todo', LeadsFrom', question'.name) /\ IsAddress(question'.type)
    BY <1>1, <1>2, <1>5, <2>3, <2>6, <2>7, StillSame
  <2> QED BY <1>1, <1>5, <2>8 DEF Searched, FromCache
<1>6. CASE found = <<>>
  <2>1. answer' = answer /\ todo' = todo /\ pc' = "followcname"
    <3>1. \A s \in Seq(Record) : s \o <<>> = s
      OBVIOUS
    <3> QED BY <3>1, <1>1, <1>6
  <2>2. Explored(answer', todo', LeadsFrom', question'.name) /\ IsAddress(question'.type)
    BY <1>1, <1>2, <2>1, StillSame
  <2>3. Target' = Target
    BY <2>1 DEF Target
  <2>4. Answering(Target.name, question.type)' = {}
    BY <1>1, <1>4, <1>6, <2>3, StillSame
  <2> QED BY <1>1, <2>1, <2>2, <2>4 DEF Searched, FromCache
<1> QED BY <1>5, <1>6

LEMMA LookUpTargetCNAMESearched == Inv /\ Searched /\ LookUpTargetCNAME => Searched'
<1> SUFFICES ASSUME Inv, Searched, LookUpTargetCNAME, seen' = {cache'} PROVE Searched'
    BY DEF Searched
<1> DEFINE found == GetRecords(Target.name, ZoneOf[Target.name], "CNAME")
<1>1. /\ Still /\ pc = "followcname" /\ pc' = "follow" /\ rcode = "" /\ rcode' = ""
      /\ answer' = answer \o found /\ todo' = Targets(found, HopsLeft(Target.hops)) \o Tail(todo)
      /\ todo \in Seq(Task) /\ answer \in Seq(Record) /\ todo # <<>> /\ Target.hops > 0 /\ IType
    BY DEF LookUpTargetCNAME, Inv, IType, Stages, Goto, Target
<1>2. /\ IsAddress(question.type) /\ Explored(answer, todo, LeadsFrom, question.name)
      /\ Answering(Target.name, question.type) = {}
    BY <1>1 DEF Still, Searched
<1>3. Target \in Task /\ Target.name \in Name
    BY <1>1, TargetIs
<1>4. /\ found \in Seq(Record) /\ ToSet(found) = Answering(Target.name, "CNAME")
      /\ \A i \in DOMAIN found : found[i].type = "CNAME" /\ found[i].data \in Name
  <2>1. PICK name, zone : name = Target.name /\ zone = ZoneOf[Target.name]
    OBVIOUS
  <2>2. cache \in SUBSET Pool /\ name \in Name
    BY <1>1, <1>3, <2>1 DEF IType
  <2>3. PICK type : type = "CNAME"
    OBVIOUS
  <2>4. \A i \in DOMAIN GetRecords(name, zone, type) :
           /\ GetRecords(name, zone, type)[i].type = type
           /\ type = "CNAME" => GetRecords(name, zone, type)[i].data \in Name
    BY <2>2, FoundType
  <2> QED BY <1>1, <1>3, <2>1, <2>2, <2>3, <2>4, LookupIs
<1> HIDE DEF found
<1>5. LeadsFrom[Target.name] = ToSet(found)
  <2>1. LeadsTo(Target.name) = ToSet(found)
    BY <1>1, <1>2, <1>4, LeadsToIs DEF IType
  <2> QED BY <1>3, <2>1 DEF LeadsFrom
<1>6. HopsLeft(Target.hops) = Target.hops - 1 /\ HopsLeft(Target.hops) \in 0 .. MaxHops
  <2>1. Target.hops \in 0 .. MaxHops
    BY <1>3 DEF Task
  <2>2. Target.hops > 0
    BY <1>1
  <2> QED BY <2>1, <2>2, BoundAssumption DEF HopsLeft
<1>7. PICK leads, name, a, tasks, of, hops, rrs, new :
         /\ leads = LeadsFrom /\ name = question.name /\ a = answer /\ tasks = todo
         /\ of = Target.name /\ hops = Target.hops /\ rrs = found
         /\ new = Targets(found, HopsLeft(Target.hops))
    OBVIOUS
<1>8. new \in Seq(Task) /\ AreTargets(new, ToSet(rrs), hops - 1)
    BY <1>4, <1>6, <1>7, TargetsAre, TargetsType
<1>9. of = Head(tasks).name /\ hops = Head(tasks).hops
    BY <1>7 DEF Target
<1>10. Explored(a \o rrs, new \o Tail(tasks), leads, name)
    BY <1>1, <1>2, <1>4, <1>5, <1>7, <1>8, <1>9, ExploredMore
<1>11. Explored(answer', todo', LeadsFrom', question'.name) /\ IsAddress(question'.type)
    BY <1>1, <1>2, <1>7, <1>10, StillSame
<1> QED BY <1>1, <1>11 DEF Searched, FromCache

LEMMA LastStepSearched == Inv /\ Searched /\ (Answer \/ NoRecords) => Searched'
<1> SUFFICES ASSUME Inv, Searched, Answer \/ NoRecords, seen' = {cache'} PROVE Searched'
    BY DEF Searched
<1>1. Still /\ pc' = "done" /\ answer' = answer /\ IType
    BY DEF Answer, NoRecords, Respond, HandOn, Inv
<1>2. seen = {cache}
    BY <1>1 DEF Still
<1>3. ToSet(answer) = Defined
  <2>1. CASE Answer
    <3>1. IsAddress(question.type) /\ Explored(answer, <<>>, LeadsFrom, question.name)
      BY <1>2, <2>1 DEF Answer, Searched
    <3>2. PICK leads, name, a : leads = LeadsFrom /\ name = question.name /\ a = answer
      OBVIOUS
    <3>3. PICK away : IsAway(away, leads, name) /\ Defined = Reached(away, leads)
      BY <1>1, <3>1, <3>2, DefinedIsReached
    <3>4. ToSet(a) = Reached(away, leads)
      BY <3>1, <3>2, <3>3, ExploredAll
    <3> QED BY <3>2, <3>3, <3>4
  <2>2. CASE NoRecords
    <3>1. LeadsTo(question.name) = {} /\ answer = <<>>
      BY <1>2, <2>2 DEF NoRecords, Searched, Inv, Stages
    <3>2. Defined = {}
      BY <1>1, <3>1, DefinedAlone DEF NamesOf
    <3> QED BY <3>1, <3>2, Empties DEF ToSet
  <2> QED BY <2>1, <2>2
<1>4. ToSet(answer') = Defined'
    BY <1>1, <1>3, StillSame
<1> QED BY <1>1, <1>4 DEF Searched

(* A change is seen, so the cache has not held still.                      *)
LEMMA ChangeSearched ==
    ASSUME Inv, NEW rr \in Pool, AddRecord(rr) \/ RemoveRecord(rr) \/ RemoveAllRecords(rr)
    PROVE  Searched'
<1>1. cache' # cache /\ seen' = seen \cup {cache'}
    BY DEF AddRecord, RemoveRecord, RemoveAllRecords, Become, Entry
<1>2. cache \in seen'
    BY <1>1 DEF Inv, IType
<1>3. seen' # {cache'}
    BY <1>1, <1>2
<1> QED BY <1>3 DEF Searched

LEMMA StepSearched == Inv /\ Missing /\ Searched /\ [Next]_vars => Searched'
<1> SUFFICES ASSUME Inv, Missing, Searched, [Next]_vars PROVE Searched'
    OBVIOUS
<1>1. CASE UNCHANGED vars
  <2>1. Still /\ UNCHANGED <<pc, todo, answer, rcode>>
    BY <1>1 DEF vars, query, Still
  <2>2. /\ question' = question /\ cache' = cache /\ seen' = seen
        /\ LeadsFrom' = LeadsFrom /\ Defined' = Defined /\ Target' = Target
        /\ \A name, type : Answering(name, type)' = Answering(name, type)
        /\ \A name : LeadsTo(name)' = LeadsTo(name)
    BY <2>1, StillSame DEF Target
  <2> QED BY <2>1, <2>2 DEF Searched, FromCache
<1>2. CASE Step
    BY <1>2, ClassifySearched, LookUpRecordsSearched, LookUpCNAMESearched, GiveUpTargetSearched,
       LookUpTargetSearched, LookUpTargetCNAMESearched, LastStepSearched DEF Step
<1>3. CASE \E rr \in Pool : AddRecord(rr) \/ RemoveRecord(rr) \/ RemoveAllRecords(rr)
    BY <1>3, ChangeSearched
<1> QED BY <1>1, <1>2, <1>3 DEF Next

(* While nothing changes, the loop and the recursion of ServeDNS and       *)
(* resolveCNAMETarget, depth first with a count of hops, collect exactly   *)
(* the records defined level by level, for any graph of CNAME records with *)
(* its loops and branches, any wildcards and any number of hops.           *)
THEOREM AnswersDefined == Spec => []AnswersAsDefined
<1>1. Init => Missing /\ Searched
    BY DEF Init, Missing, Searched, FromCache
<1>2. Searched => AnswersAsDefined
    BY DEF Searched, AnswersAsDefined
<1> QED BY <1>1, <1>2, InitInv, StepInv, StepMissing, StepSearched, PTL DEF Spec
==============================================================================
