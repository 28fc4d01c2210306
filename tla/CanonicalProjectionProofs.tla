--------------------- MODULE CanonicalProjectionProofs ---------------------
(***************************************************************************)
(* Theorems about CanonicalProjection for any pages, workers, edits and    *)
(* crashes: what scans and backfills leave in the canonical records.       *)
(***************************************************************************)
EXTENDS CanonicalProjection, SequenceTheorems, TLAPS

Projecting == {"reading", "waiting", "writing"}

\* Who holds the document and the backfill run, and where its holder is.
LockInv ==
    \A w \in Worker :
        /\ docLock = w => /\ pc[w] \in Projecting /\ runLock # w
                          /\ task[w].raw = Len(raw) + 1
        /\ runLock = w => pc[w] \in Projecting \cup {"examining", "finishing"}
        /\ pc[w] \in Projecting => w \in {docLock, runLock}
        /\ pc[w] \in {"examining", "finishing"} => runLock = w
        /\ pc[w] \in Projecting \cup {"examining"} => task[w].content \in Content

\* What a worker knows of the record it is about to write: a record it has seen
\* exists and is still of the identifier it was found under.
KnowledgeInv ==
    \A w \in Worker :
        /\ pc[w] \notin {"waiting", "writing", "finishing"} => prior[w] = NoPrior
        /\ pc[w] # "finishing" => outcome[w] = None
        /\ pc[w] = "waiting" => prior[w].known
        /\ prior[w].known => task[w].content \in Content /\ Matches(w)

SelectedIsProjected == \A n \in 1..Len(raw) : Selected(n) => Projected(n)

\* The backfill will write nothing but the version of an earlier release, and
\* nobody else will.
WillProject(w) ==
    pc[w] \in Projecting \/ (pc[w] = "finishing" /\ outcome[w] = "projected")

BackfillInv ==
    \A w \in Worker : runLock = w =>
        /\ pc[w] = "examining" => /\ task[w].raw \in 1..Len(raw)
                                  /\ Selected(1) => task[w].raw = 1
        /\ WillProject(w) => /\ task[w].raw = 1 /\ task[w].content \in Content
                             /\ raw # <<>> /\ ~ Projected(1)
        /\ pc[w] = "finishing" /\ outcome[w] = "projected" =>
             rowLock[TypeOf(w)] = w /\ ~ Clashes(w)
        /\ pc[w] = "finishing" /\ outcome[w] \in {None, "merged"} =>
             SelectedIsProjected

EndsWithFirst(t) ==
    record[t].history # <<>> /\ record[t].history[Len(record[t].history)] = 1

\* A scan that does not know the record it finds has been overtaken by the
\* backfill, whose version is the last one until the scan adds its own.
ScanInv ==
    \A w \in Worker : docLock = w =>
        /\ pc[w] = "waiting" =>
             \/ prior[w].from = Len(record[TypeOf(w)].history)
             \/ EndsWithFirst(TypeOf(w))
        /\ pc[w] = "writing" /\ ~ prior[w].known =>
             \/ record[TypeOf(w)] = NoRecord \/ Clashes(w)
             \/ EndsWithFirst(TypeOf(w))

\* A change belongs to a version of its record.
ChangesInv ==
    \A c \in changes : c.to \in DOMAIN record[c.type].history

IInv ==
    /\ TypeOK /\ LockInv /\ KnowledgeInv /\ BackfillInv /\ ScanInv /\ ChangesInv
    /\ VersionsAreProjected /\ CompletedMeansProjected
    /\ OnlyNewRecordsAreNew /\ ProjectionIsCurrent

-----------------------------------------------------------------------------
(* The operators of the module.                                            *)

\* A page has a type and an identifier.
LEMMA PageType ==
    ASSUME NEW w \in Worker, task[w].content \in Content
    PROVE  TypeOf(w) \in Type /\ task[w].content.key \in Key
BY DEF TypeOf, Type, Key

\* A record is none, or has an identifier and a history.
LEMMA RecordType ==
    ASSUME TypeOK, NEW t \in Type
    PROVE  /\ record[t].history \in Seq(1..Len(raw))
           /\ record[t].history \in Seq(Nat)
           /\ record[t].history = <<>> <=> record[t] = NoRecord
           /\ record[t].key = None <=> record[t] = NoRecord
           /\ record[t] # NoRecord => record[t].key \in Key
           /\ \A i \in DOMAIN record[t].history : record[t].history[i] \in 1..Len(raw)
<1>1. record[t] \in {NoRecord} \cup [key : Key, history : Seq(1..Len(raw)) \ {<<>>}]
  BY DEF TypeOK
<1>2. 1..Len(raw) \subseteq Nat
  OBVIOUS
<1>3. record[t].history \in Seq(1..Len(raw))
  <2>1. NoRecord.history = <<>>
    BY DEF NoRecord
  <2>2. <<>> \in Seq(1..Len(raw))
    BY EmptySeq
  <2> QED BY <1>1, <2>1, <2>2
<1>4. record[t].history \in Seq(Nat)
  BY <1>2, <1>3, SeqMonotonic
<1>5. CASE record[t] = NoRecord
  BY <1>3, <1>4, <1>5 DEF NoRecord
<1>6. CASE record[t] # NoRecord
  <2>1. record[t].key \in Key /\ record[t].history # <<>>
    BY <1>1, <1>6
  <2>2. \A i \in DOMAIN record[t].history : record[t].history[i] \in 1..Len(raw)
    BY <1>3
  <2> QED BY <1>3, <1>4, <1>6, <2>1, <2>2, ConstantsAssumption
<1> QED BY <1>5, <1>6

\* What a projection does to the records: one history is a version longer.
LEMMA ProjectEffect ==
    ASSUME TypeOK, NEW w \in Worker, task[w].content \in Content, Project(w),
           NEW t, t = TypeOf(w), NEW made, made = record[t].history
    PROVE  /\ record' \in [Type -> [key : Key \cup {None}, history : Seq(Nat)]]
           /\ record'[t].key = task[w].content.key
           /\ record'[t].history = Append(made, task[w].raw)
           /\ made \in Seq(Nat) /\ Len(made) \in Nat
           /\ Len(record'[t].history) = Len(made) + 1
           /\ DOMAIN record'[t].history = 1..(Len(made) + 1)
           /\ DOMAIN made = 1..Len(made)
           /\ \A i \in 1..Len(made) : record'[t].history[i] = made[i]
           /\ record'[t].history[Len(made) + 1] = task[w].raw
           /\ \A u \in Type : u # t => record'[u] = record[u]
           /\ \A n : Projected(n)' <=> Projected(n) \/ n = task[w].raw
           /\ changes' = changes \cup
                {[type |-> t, from |-> prior[w].from, to |-> Len(made) + 1,
                  isNew |-> ~ prior[w].known]}
<1>1. t \in Type /\ task[w].content.key \in Key
  BY PageType
<1>2. made \in Seq(Nat) /\ task[w].raw \in Nat
  BY <1>1, RecordType DEF TypeOK
<1>3. /\ Append(made, task[w].raw) \in Seq(Nat)
      /\ Len(Append(made, task[w].raw)) = Len(made) + 1
      /\ \A i \in 1..Len(made) : Append(made, task[w].raw)[i] = made[i]
      /\ Append(made, task[w].raw)[Len(made) + 1] = task[w].raw
  BY <1>2, AppendProperties
<1>4. record' = [record EXCEPT ![t] = [key |-> task[w].content.key,
                                       history |-> Append(made, task[w].raw)]]
  BY DEF Project
<1>5. DOMAIN record = Type /\ record = [u \in Type |-> record[u]]
  BY DEF TypeOK
<1>6. record'[t] = [key |-> task[w].content.key, history |-> Append(made, task[w].raw)]
  BY <1>1, <1>4, <1>5
<1>7. \A u \in Type : u # t => record'[u] = record[u]
  BY <1>4, <1>5
<1>8. record' \in [Type -> [key : Key \cup {None}, history : Seq(Nat)]]
  <2>1. \A u \in Type : record[u] \in [key : Key \cup {None}, history : Seq(Nat)]
    <3> TAKE u \in Type
    <3>1. record[u] \in {NoRecord} \cup [key : Key, history : Seq(1..Len(raw)) \ {<<>>}]
      BY DEF TypeOK
    <3>2. record[u].history \in Seq(Nat)
      BY RecordType
    <3> QED BY <3>1, <3>2 DEF NoRecord
  <2>2. record'[t] \in [key : Key \cup {None}, history : Seq(Nat)]
    BY <1>1, <1>3, <1>6
  <2> QED BY <2>1, <2>2, <1>1, <1>4, <1>5
<1>9. changes' = changes \cup
        {[type |-> t, from |-> prior[w].from, to |-> Len(made) + 1,
          isNew |-> ~ prior[w].known]}
  BY <1>3 DEF Project, IsNew
<1>10. DOMAIN record'[t].history = 1..(Len(made) + 1) /\ DOMAIN made = 1..Len(made)
  BY <1>2, <1>3, <1>6
<1>11. ASSUME NEW n PROVE Projected(n)' <=> Projected(n) \/ n = task[w].raw
  <2>1. (\E i \in DOMAIN record'[t].history : record'[t].history[i] = n)
          <=> (\E i \in DOMAIN made : made[i] = n) \/ n = task[w].raw
    BY <1>2, <1>3, <1>6, <1>10
  <2>2. \A u \in Type : u # t =>
          ((\E i \in DOMAIN record'[u].history : record'[u].history[i] = n)
            <=> (\E i \in DOMAIN record[u].history : record[u].history[i] = n))
    BY <1>7
  <2> QED BY <1>1, <2>1, <2>2 DEF Projected, ToSet
<1> QED BY <1>2, <1>3, <1>6, <1>7, <1>8, <1>9, <1>10, <1>11
-----------------------------------------------------------------------------
(* Types.                                                                  *)

\* A projection keeps the types of the records and of their changes.
LEMMA ProjectType ==
    ASSUME TypeOK, NEW w \in Worker, task[w].content \in Content, Project(w),
           raw' \in Seq(Content), Len(raw) <= Len(raw'), task[w].raw \in 1..Len(raw')
    PROVE  /\ record' \in [Type -> {NoRecord} \cup
                             [key : Key, history : Seq(1..Len(raw')) \ {<<>>}]]
           /\ changes' \subseteq [type : Type, from : Nat, to : Nat \ {0}, isNew : BOOLEAN]
<1> DEFINE t == TypeOf(w)
           made == record[t].history
<1>1. t \in Type /\ task[w].content.key \in Key
  BY PageType
<1>2. /\ Len(raw) \in Nat /\ Len(raw') \in Nat
      /\ 1..Len(raw) \subseteq 1..Len(raw')
  BY DEF TypeOK
<1>3. \A u \in Type : record[u] \in {NoRecord} \cup
                             [key : Key, history : Seq(1..Len(raw')) \ {<<>>}]
  <2> TAKE u \in Type
  <2>1. record[u] \in {NoRecord} \cup [key : Key, history : Seq(1..Len(raw)) \ {<<>>}]
    BY DEF TypeOK
  <2>2. Seq(1..Len(raw)) \subseteq Seq(1..Len(raw'))
    BY <1>2, SeqMonotonic
  <2> QED BY <2>1, <2>2
<1>4. made \in Seq(1..Len(raw'))
  <2>1. made \in Seq(1..Len(raw))
    BY <1>1, RecordType
  <2> QED BY <1>2, <2>1, SeqMonotonic
<1>5. /\ Append(made, task[w].raw) \in Seq(1..Len(raw')) \ {<<>>}
      /\ Len(Append(made, task[w].raw)) \in Nat \ {0}
  <2>1. Len(made) \in Nat
    BY <1>4
  <2> QED BY <1>4, <2>1, AppendProperties
<1>6. record' = [record EXCEPT ![t] = [key |-> task[w].content.key,
                                       history |-> Append(made, task[w].raw)]]
  BY DEF Project
<1>7. DOMAIN record = Type /\ record = [u \in Type |-> record[u]]
  BY DEF TypeOK
<1>8. record' \in [Type -> {NoRecord} \cup
                             [key : Key, history : Seq(1..Len(raw')) \ {<<>>}]]
  <2>1. record'[t] = [key |-> task[w].content.key, history |-> Append(made, task[w].raw)]
    BY <1>1, <1>6, <1>7
  <2>2. record'[t] \in [key : Key, history : Seq(1..Len(raw')) \ {<<>>}]
    BY <1>1, <1>5, <2>1
  <2>3. \A u \in Type : u # t => record'[u] = record[u]
    BY <1>6, <1>7
  <2>4. DOMAIN record' = Type /\ record' = [u \in Type |-> record'[u]]
    BY <1>6, <1>7
  <2> HIDE DEF t, made
  <2> QED BY <1>3, <2>2, <2>3, <2>4
<1>9. changes' = changes \cup
         {[type |-> t, from |-> prior[w].from,
           to |-> Len(Append(made, task[w].raw)), isNew |-> ~ prior[w].known]}
  BY DEF Project, IsNew
<1>10. prior[w].from \in Nat /\ prior[w].known \in BOOLEAN
  BY DEF TypeOK
<1>11. [type |-> t, from |-> prior[w].from,
        to |-> Len(Append(made, task[w].raw)), isNew |-> ~ prior[w].known]
          \in [type : Type, from : Nat, to : Nat \ {0}, isNew : BOOLEAN]
  BY <1>1, <1>5, <1>10
<1>12. changes \subseteq [type : Type, from : Nat, to : Nat \ {0}, isNew : BOOLEAN]
  BY DEF TypeOK
<1> HIDE DEF t, made
<1> QED BY <1>8, <1>9, <1>11, <1>12

\* Giving up a task keeps the types of the worker's state and the locks.
LEMMA EndTaskType ==
    ASSUME TypeOK, NEW w \in Worker, EndTask(w)
    PROVE  /\ task' \in [Worker -> [raw : Nat, content : Content \cup {None}]]
           /\ prior' \in [Worker -> [from : Nat, known : BOOLEAN]]
           /\ outcome' \in [Worker -> Outcome \cup {None}]
           /\ docLock' \in Worker \cup {None} /\ runLock' \in Worker \cup {None}
           /\ rowLock' \in [Type -> Worker \cup {None}]
<1>1. task' \in [Worker -> [raw : Nat, content : Content \cup {None}]]
  BY DEF EndTask, TypeOK, NoTask
<1>2. prior' \in [Worker -> [from : Nat, known : BOOLEAN]]
  BY DEF EndTask, TypeOK, NoPrior
<1>3. rowLock' \in [Type -> Worker \cup {None}]
  BY DEF EndTask, TypeOK, FreeRows
<1>4. outcome' \in [Worker -> Outcome \cup {None}]
  BY DEF EndTask, TypeOK
<1>5. docLock' \in Worker \cup {None} /\ runLock' \in Worker \cup {None}
  BY DEF EndTask, TypeOK
<1> QED BY <1>1, <1>2, <1>3, <1>4, <1>5

\* The scan's version follows the ones that are stored.
LEMMA ScanEffect ==
    ASSUME TypeOK, LockInv, NEW w \in Worker, ScanUpsert(w)
    PROVE  /\ task[w].content \in Content /\ task[w].raw = Len(raw) + 1
           /\ raw' \in Seq(Content) /\ Len(raw') = Len(raw) + 1
           /\ Len(raw) \in Nat
           /\ docLock = w /\ pc[w] = "writing" /\ ~ Clashes(w) /\ Project(w)
           /\ rowLock[TypeOf(w)] \in {w, None}
BY AppendProperties DEF ScanUpsert, LockInv, TypeOK, MayWrite, Projecting

\* The backfill's version is that of an earlier release.
LEMMA FinishEffect ==
    ASSUME TypeOK, LockInv, BackfillInv, NEW w \in Worker, Finish(w),
           outcome[w] = "projected"
    PROVE  /\ task[w].content \in Content /\ task[w].raw = 1
           /\ raw' = raw /\ Len(raw) \in Nat \ {0}
           /\ ~ Projected(1)
           /\ runLock = w /\ ~ Clashes(w) /\ Project(w)
           /\ rowLock[TypeOf(w)] = w
<1>1. pc[w] = "finishing" /\ Project(w) /\ raw' = raw
  BY DEF Finish
<1>2. runLock = w
  BY <1>1 DEF LockInv
<1>3. WillProject(w)
  BY <1>1 DEF WillProject
<1>4. /\ task[w].raw = 1 /\ task[w].content \in Content /\ raw # <<>>
      /\ ~ Projected(1) /\ rowLock[TypeOf(w)] = w /\ ~ Clashes(w)
  BY <1>1, <1>2, <1>3 DEF BackfillInv
<1>5. Len(raw) \in Nat \ {0}
  BY <1>4 DEF TypeOK
<1> QED BY <1>1, <1>2, <1>4, <1>5

\* Every step keeps the types.
LEMMA TypeStep == TypeOK /\ LockInv /\ BackfillInv /\ [Next]_vars => TypeOK'
<1> SUFFICES ASSUME TypeOK, LockInv, BackfillInv, [Next]_vars PROVE TypeOK'
  OBVIOUS
<1> USE DEF Goto, tables, locks, local
<1>1. ASSUME NEW c \in Content, Edit(c) PROVE TypeOK'
  BY <1>1, ConstantsAssumption DEF Edit, TypeOK
<1>2. ASSUME NEW w \in Worker, Check(w) PROVE TypeOK'
  BY <1>2 DEF Check, TypeOK, Phase
<1>3. ASSUME NEW w \in Worker, Select(w) PROVE TypeOK'
  <2>1. task' \in [Worker -> [raw : Nat, content : Content \cup {None}]]
    <3>1. \A n \in 1..Len(raw) :
            [raw |-> n, content |-> raw[n]]
              \in [raw : Nat, content : Content \cup {None}]
      BY DEF TypeOK
    <3>2. \/ task' = task
          \/ \E n \in 1..Len(raw) :
               task' = [task EXCEPT ![w] = [raw |-> n, content |-> raw[n]]]
      BY <1>3 DEF Select
    <3>3. task \in [Worker -> [raw : Nat, content : Content \cup {None}]]
      BY DEF TypeOK
    <3> QED BY <3>1, <3>2, <3>3
  <2>2. pc' \in [Worker -> Phase] /\ runLock' \in Worker \cup {None}
    BY <1>3 DEF Select, TypeOK, Phase
  <2> QED BY <1>3, <2>1, <2>2 DEF Select, TypeOK
<1>4. ASSUME NEW w \in Worker, Examine(w) PROVE TypeOK'
  BY <1>4 DEF Examine, TypeOK, Phase, Outcome
<1>5. ASSUME NEW w \in Worker, BackfillUpsert(w) PROVE TypeOK'
  <2>1. rowLock' \in [Type -> Worker \cup {None}]
    BY <1>5 DEF BackfillUpsert, TypeOK
  <2> QED BY <1>5, <2>1 DEF BackfillUpsert, TypeOK, Phase, Outcome
<1>6. ASSUME NEW w \in Worker, BackfillReject(w) PROVE TypeOK'
  <2>1. rowLock' \in [Type -> Worker \cup {None}]
    BY <1>6 DEF BackfillReject, FreeRows, TypeOK
  <2> QED BY <1>6, <2>1 DEF BackfillReject, TypeOK, Phase, Outcome
<1>7. ASSUME NEW w \in Worker, Finish(w) PROVE TypeOK'
  <2>1. /\ record' \in [Type -> {NoRecord} \cup
                          [key : Key, history : Seq(1..Len(raw')) \ {<<>>}]]
        /\ changes' \subseteq [type : Type, from : Nat, to : Nat \ {0}, isNew : BOOLEAN]
    <3>1. CASE outcome[w] = "projected"
      <4>1. /\ task[w].content \in Content /\ task[w].raw \in 1..Len(raw')
            /\ raw' \in Seq(Content) /\ Len(raw) <= Len(raw') /\ Project(w)
        BY <1>7, <3>1, FinishEffect DEF TypeOK
      <4> QED BY <4>1, ProjectType
    <3>2. CASE outcome[w] # "projected"
      BY <1>7, <3>2 DEF Finish, TypeOK
    <3> QED BY <3>1, <3>2
  <2>2. pc' \in [Worker -> Phase] /\ backfilled' \in {"none", "completed", "failed"}
    BY <1>7 DEF Finish, BackfillStatus, TypeOK, Phase
  <2>3. EndTask(w)
    BY <1>7 DEF Finish
  <2> QED BY <1>7, <2>1, <2>2, <2>3, EndTaskType DEF Finish, TypeOK
<1>8. ASSUME NEW w \in Worker, Fetch(w) PROVE TypeOK'
  <2>1. task' \in [Worker -> [raw : Nat, content : Content \cup {None}]]
    BY <1>8 DEF Fetch, TypeOK
  <2> QED BY <1>8, <2>1 DEF Fetch, TypeOK, Phase
<1>9. ASSUME NEW w \in Worker, Read(w) \/ Wake(w) PROVE TypeOK'
  <2>1. pc[w] \in Projecting
    BY <1>9 DEF Read, Wake, Projecting
  <2>2. TypeOf(w) \in Type
    BY <2>1, PageType DEF LockInv
  <2>3. Len(record[TypeOf(w)].history) \in Nat
    BY <2>2, RecordType
  <2>4. prior' \in [Worker -> [from : Nat, known : BOOLEAN]]
    <3>1. \E f \in Nat, k \in BOOLEAN :
            prior' = [prior EXCEPT ![w] = [from |-> f, known |-> k]]
      <4>1. CASE Read(w)
        BY <2>3, <4>1 DEF Read, NoPrior
      <4>2. CASE Wake(w)
        <5> DEFINE k == prior[w].from = Len(record[TypeOf(w)].history)
        <5>1. k \in BOOLEAN
          OBVIOUS
        <5>2. prior' = [prior EXCEPT ![w] =
                          [from |-> Len(record[TypeOf(w)].history), known |-> k]]
          BY <4>2 DEF Wake
        <5> HIDE DEF k
        <5> QED BY <2>3, <5>1, <5>2
      <4> QED BY <1>9, <4>1, <4>2
    <3> QED BY <3>1 DEF TypeOK
  <2>5. /\ rowLock' \in [Type -> Worker \cup {None}]
        /\ pc' \in [Worker -> Phase]
    BY <1>9, <2>2 DEF Read, Wake, TypeOK, Phase
  <2> QED BY <1>9, <2>4, <2>5 DEF Read, Wake, TypeOK
<1>10. ASSUME NEW w \in Worker, ScanUpsert(w) PROVE TypeOK'
  <2>1. /\ raw' \in Seq(Content)
        /\ record' \in [Type -> {NoRecord} \cup
                          [key : Key, history : Seq(1..Len(raw')) \ {<<>>}]]
        /\ changes' \subseteq [type : Type, from : Nat, to : Nat \ {0}, isNew : BOOLEAN]
    <3>1. /\ task[w].content \in Content /\ task[w].raw \in 1..Len(raw')
          /\ raw' \in Seq(Content) /\ Len(raw) <= Len(raw') /\ Project(w)
      BY <1>10, ScanEffect
    <3> QED BY <3>1, ProjectType
  <2>2. pc' \in [Worker -> Phase] /\ EndTask(w)
    BY <1>10 DEF ScanUpsert, TypeOK, Phase
  <2> QED BY <1>10, <2>1, <2>2, EndTaskType DEF ScanUpsert, TypeOK
<1>11. ASSUME NEW w \in Worker, ScanReject(w) \/ Crash(w) PROVE TypeOK'
  <2>1. pc' \in [Worker -> Phase] /\ EndTask(w)
    BY <1>11 DEF ScanReject, Crash, TypeOK, Phase
  <2>2. crashes' \in 0..MaxCrashes
    BY <1>11, ConstantsAssumption DEF ScanReject, Crash, TypeOK
  <2> QED BY <1>11, <2>1, <2>2, EndTaskType DEF ScanReject, Crash, TypeOK
<1>12. ASSUME UNCHANGED vars PROVE TypeOK'
  BY <1>12 DEF vars, TypeOK
<1> QED BY <1>1, <1>2, <1>3, <1>4, <1>5, <1>6, <1>7, <1>8, <1>9, <1>10, <1>11, <1>12
        DEF Next, Step, FetchUnchanged

-----------------------------------------------------------------------------
(* The workers and their locks.                                            *)

\* A step of one worker leaves another one's state, locks and document alone.
LEMMA Frame ==
    ASSUME TypeOK, NEW x \in Worker, NEW w \in Worker, w # x, Step(x) \/ Crash(x)
    PROVE  /\ pc'[w] = pc[w] /\ task'[w] = task[w]
           /\ prior'[w] = prior[w] /\ outcome'[w] = outcome[w]
           /\ docLock' = w <=> docLock = w
           /\ runLock' = w <=> runLock = w
           /\ \A t \in Type : rowLock[t] = w => rowLock'[t] = w
           /\ docLock = w => raw' = raw
<1> USE DEF Goto, tables, locks, local
<1> DEFINE Goal == /\ pc'[w] = pc[w] /\ task'[w] = task[w]
                   /\ prior'[w] = prior[w] /\ outcome'[w] = outcome[w]
                   /\ docLock' = w <=> docLock = w
                   /\ runLock' = w <=> runLock = w
                   /\ \A t \in Type : rowLock[t] = w => rowLock'[t] = w
                   /\ docLock = w => raw' = raw
<1>0. None # w
  BY ConstantsAssumption
<1>1. ASSUME Check(x) \/ Select(x) \/ Examine(x) PROVE Goal
  BY <1>0, <1>1 DEF Check, Select, Examine, TypeOK
<1>2. ASSUME BackfillUpsert(x) PROVE Goal
  BY <1>0, <1>2 DEF BackfillUpsert, MayWrite, TypeOK
<1>3. ASSUME BackfillReject(x) PROVE Goal
  BY <1>0, <1>3 DEF BackfillReject, FreeRows, TypeOK
<1>4. ASSUME EndTask(x), pc' = [pc EXCEPT ![x] = pc'[x]], docLock = w => raw' = raw
      PROVE  Goal
  BY <1>0, <1>4 DEF EndTask, FreeRows, TypeOK
<1>5. ASSUME Finish(x) \/ ScanReject(x) \/ Crash(x) PROVE Goal
  BY <1>4, <1>5 DEF Finish, ScanReject, Crash, TypeOK
<1>6. ASSUME ScanUpsert(x) PROVE Goal
  BY <1>4, <1>6 DEF ScanUpsert, TypeOK
<1>7. ASSUME Fetch(x) PROVE Goal
  BY <1>0, <1>7 DEF Fetch, TypeOK
<1>8. ASSUME Read(x) \/ Wake(x) PROVE Goal
  <2>1. pc'[w] = pc[w] /\ prior'[w] = prior[w]
    BY <1>8 DEF Read, Wake, TypeOK
  <2>2. \A t \in Type : rowLock[t] = w => rowLock'[t] = w
    BY <1>0, <1>8 DEF Read, Wake, TypeOK
  <2> QED BY <1>8, <2>1, <2>2 DEF Read, Wake
<1>9. ASSUME FetchUnchanged(x) PROVE Goal
  BY <1>9 DEF FetchUnchanged, vars
<1> QED BY <1>1, <1>2, <1>3, <1>5, <1>6, <1>7, <1>8, <1>9 DEF Step

\* After a task a worker holds nothing and knows nothing.
LEMMA EndTaskEffect ==
    ASSUME TypeOK, NEW w \in Worker, EndTask(w)
    PROVE  /\ docLock' # w /\ runLock' # w
           /\ prior'[w] = NoPrior /\ outcome'[w] = None
BY ConstantsAssumption DEF EndTask, TypeOK

\* The locks follow the phases of their holders.
LEMMA LockStep == TypeOK /\ LockInv /\ [Next]_vars => LockInv'
<1> SUFFICES ASSUME TypeOK, LockInv, [Next]_vars, NEW v \in Worker
             PROVE  /\ docLock' = v => /\ pc'[v] \in Projecting /\ runLock' # v
                                       /\ task'[v].raw = Len(raw') + 1
                    /\ runLock' = v => pc'[v] \in Projecting \cup {"examining", "finishing"}
                    /\ pc'[v] \in Projecting => v \in {docLock', runLock'}
                    /\ pc'[v] \in {"examining", "finishing"} => runLock' = v
                    /\ pc'[v] \in Projecting \cup {"examining"} =>
                         task'[v].content \in Content
  BY DEF LockInv
<1> DEFINE Goal == /\ docLock' = v => /\ pc'[v] \in Projecting /\ runLock' # v
                                      /\ task'[v].raw = Len(raw') + 1
                   /\ runLock' = v => pc'[v] \in Projecting \cup {"examining", "finishing"}
                   /\ pc'[v] \in Projecting => v \in {docLock', runLock'}
                   /\ pc'[v] \in {"examining", "finishing"} => runLock' = v
                   /\ pc'[v] \in Projecting \cup {"examining"} =>
                        task'[v].content \in Content
<1> USE DEF Goto, tables, locks, local
<1>0. /\ docLock = v => /\ pc[v] \in Projecting /\ runLock # v
                        /\ task[v].raw = Len(raw) + 1
      /\ runLock = v => pc[v] \in Projecting \cup {"examining", "finishing"}
      /\ pc[v] \in Projecting => v \in {docLock, runLock}
      /\ pc[v] \in {"examining", "finishing"} => runLock = v
      /\ pc[v] \in Projecting \cup {"examining"} => task[v].content \in Content
      /\ v # None
  BY ConstantsAssumption DEF LockInv
<1>1. ASSUME UNCHANGED <<raw, task, pc, docLock, runLock>> PROVE Goal
  BY <1>0, <1>1
<1>2. ASSUME NEW x \in Worker, x # v, Step(x) \/ Crash(x) PROVE Goal
  <2>1. /\ pc'[v] = pc[v] /\ task'[v] = task[v]
        /\ docLock' = v <=> docLock = v
        /\ runLock' = v <=> runLock = v
        /\ docLock = v => raw' = raw
    BY <1>2, Frame
  <2> QED BY <1>0, <2>1
<1>3. ASSUME Step(v) PROVE Goal
  <2> USE DEF Projecting
  <2>1. ASSUME Check(v) PROVE Goal
    BY <1>0, <2>1 DEF Check, TypeOK
  <2>2. ASSUME Select(v) PROVE Goal
    <3>1. /\ runLock' = v /\ docLock' = docLock /\ docLock # v
          /\ \/ pc'[v] = "finishing"
             \/ \E n \in 1..Len(raw) :
                  /\ pc'[v] = "examining"
                  /\ task' = [task EXCEPT ![v] = [raw |-> n, content |-> raw[n]]]
      BY <1>0, <2>2 DEF Select, TypeOK
    <3>2. \A n \in 1..Len(raw) : raw[n] \in Content
      BY DEF TypeOK
    <3>3. pc'[v] = "examining" => task'[v].content \in Content
      BY <3>1, <3>2 DEF TypeOK
    <3> QED BY <3>1, <3>3
  <2>3. ASSUME Examine(v) PROVE Goal
    BY <1>0, <2>3 DEF Examine, TypeOK
  <2>4. ASSUME BackfillUpsert(v) PROVE Goal
    BY <1>0, <2>4 DEF BackfillUpsert, Backfilling, TypeOK
  <2>5. ASSUME BackfillReject(v) PROVE Goal
    BY <1>0, <2>5 DEF BackfillReject, Backfilling, TypeOK
  <2>6. ASSUME Finish(v) \/ ScanUpsert(v) \/ ScanReject(v) PROVE Goal
    <3>1. docLock' # v /\ runLock' # v /\ pc'[v] = "scanning"
      BY <2>6, EndTaskEffect DEF Finish, ScanUpsert, ScanReject, TypeOK
    <3> QED BY <3>1
  <2>7. ASSUME Fetch(v) PROVE Goal
    <3>1. /\ pc'[v] = "reading" /\ docLock' = v /\ runLock' = runLock /\ raw' = raw
          /\ task'[v] = [raw |-> Len(raw) + 1, content |-> site]
          /\ site \in Content /\ runLock # v
      BY <1>0, <2>7 DEF Fetch, TypeOK
    <3> QED BY <3>1
  <2>8. ASSUME Read(v) \/ Wake(v) PROVE Goal
    <3>1. /\ pc[v] \in Projecting /\ pc'[v] \in Projecting
          /\ UNCHANGED <<raw, task, docLock, runLock>>
      BY <2>8 DEF Read, Wake, TypeOK
    <3> QED BY <1>0, <3>1
  <2>9. ASSUME FetchUnchanged(v) PROVE Goal
    BY <1>1, <2>9 DEF FetchUnchanged, vars
  <2> QED BY <1>3, <2>1, <2>2, <2>3, <2>4, <2>5, <2>6, <2>7, <2>8, <2>9 DEF Step
<1>4. ASSUME Crash(v) PROVE Goal
  <2>1. docLock' # v /\ runLock' # v /\ pc'[v] = "starting"
    BY <1>4, EndTaskEffect DEF Crash, TypeOK
  <2> QED BY <2>1 DEF Projecting
<1>5. ASSUME NEW c \in Content, Edit(c) PROVE Goal
  BY <1>1, <1>5 DEF Edit
<1>6. ASSUME UNCHANGED vars PROVE Goal
  BY <1>1, <1>6 DEF vars
<1> HIDE DEF Goal
<1>7. Goal
  BY <1>2, <1>3, <1>4, <1>5, <1>6 DEF Next
<1> QED BY <1>7 DEF Goal

-----------------------------------------------------------------------------
(* The steps that project a version.                                       *)

Projects(w) == ScanUpsert(w) \/ (Finish(w) /\ outcome[w] = "projected")

\* Only the end of a scan's or a backfill's transaction touches the records.
LEMMA QuietOrProjects ==
    ASSUME TypeOK, [Next]_vars
    PROVE  \/ UNCHANGED <<raw, record, changes>>
           \/ \E w \in Worker : Projects(w)
BY DEF Next, Step, Edit, Check, Select, Examine, BackfillUpsert, BackfillReject, Finish,
       Fetch, FetchUnchanged, Read, Wake, ScanUpsert, ScanReject, Crash, vars, tables,
       Projects

\* What such a step projects: the version that the scan adds, or the one of an
\* earlier release, which nobody has projected yet.
LEMMA ProjectsEffect ==
    ASSUME TypeOK, LockInv, BackfillInv, NEW w \in Worker, Projects(w)
    PROVE  /\ task[w].content \in Content /\ Project(w) /\ ~ Clashes(w)
           /\ Len(raw) \in Nat
           /\ \/ /\ docLock = w /\ pc[w] = "writing" /\ ScanUpsert(w)
                 /\ task[w].raw = Len(raw) + 1 /\ Len(raw') = Len(raw) + 1
                 /\ rowLock[TypeOf(w)] \in {w, None}
              \/ /\ runLock = w /\ pc[w] = "finishing" /\ Finish(w)
                 /\ task[w].raw = 1 /\ raw' = raw /\ Len(raw) # 0
                 /\ ~ Projected(1) /\ rowLock[TypeOf(w)] = w
<1>1. CASE ScanUpsert(w)
  BY <1>1, ScanEffect
<1>2. CASE Finish(w) /\ outcome[w] = "projected"
  <2>1. pc[w] = "finishing"
    BY <1>2 DEF Finish
  <2> QED BY <1>2, <2>1, FinishEffect
<1> QED BY <1>1, <1>2 DEF Projects

\* A record keeps its identifier for ever.
LEMMA KeyStable ==
    ASSUME TypeOK, LockInv, BackfillInv, [Next]_vars, NEW t \in Type,
           record[t].key # None
    PROVE  record'[t].key = record[t].key
<1>1. CASE UNCHANGED <<raw, record, changes>>
  BY <1>1
<1>2. ASSUME NEW w \in Worker, Projects(w) PROVE record'[t].key = record[t].key
  <2>1. task[w].content \in Content /\ Project(w) /\ ~ Clashes(w)
    BY <1>2, ProjectsEffect
  <2>2. CASE t = TypeOf(w)
    <3>1. record[t].key = task[w].content.key
      BY <2>1, <2>2 DEF Clashes
    <3> QED BY <2>1, <2>2, <3>1, ProjectEffect
  <2>3. CASE t # TypeOf(w)
    BY <2>1, <2>3, ProjectEffect
  <2> QED BY <2>2, <2>3
<1> QED BY <1>1, <1>2, QuietOrProjects

\* What a worker knows of a record stays true.
LEMMA KnowledgeStep ==
    TypeOK /\ LockInv /\ KnowledgeInv /\ BackfillInv /\ [Next]_vars => KnowledgeInv'
<1> SUFFICES ASSUME TypeOK, LockInv, KnowledgeInv, BackfillInv, [Next]_vars,
                    NEW v \in Worker
             PROVE  /\ pc'[v] \notin {"waiting", "writing", "finishing"} =>
                         prior'[v] = NoPrior
                    /\ pc'[v] # "finishing" => outcome'[v] = None
                    /\ pc'[v] = "waiting" => prior'[v].known
                    /\ prior'[v].known => task'[v].content \in Content /\ Matches(v)'
  BY DEF KnowledgeInv
<1> DEFINE Goal == /\ pc'[v] \notin {"waiting", "writing", "finishing"} =>
                        prior'[v] = NoPrior
                   /\ pc'[v] # "finishing" => outcome'[v] = None
                   /\ pc'[v] = "waiting" => prior'[v].known
                   /\ prior'[v].known => task'[v].content \in Content /\ Matches(v)'
<1> USE DEF Goto, tables, locks, local
<1>0. /\ pc[v] \notin {"waiting", "writing", "finishing"} => prior[v] = NoPrior
      /\ pc[v] # "finishing" => outcome[v] = None
      /\ pc[v] = "waiting" => prior[v].known
      /\ prior[v].known => task[v].content \in Content /\ Matches(v)
      /\ ~ NoPrior.known
  BY DEF KnowledgeInv, NoPrior
\* A record that matches goes on to match.
<1>1. ASSUME task[v].content \in Content, Matches(v), task'[v] = task[v] PROVE Matches(v)'
  <2>1. TypeOf(v) \in Type /\ record[TypeOf(v)].key # None
    BY <1>1, PageType, ConstantsAssumption DEF Matches
  <2>2. record'[TypeOf(v)].key = record[TypeOf(v)].key
    BY <2>1, KeyStable
  <2> QED BY <1>1, <2>2 DEF Matches, TypeOf
<1>2. ASSUME task'[v] = task[v], prior'[v] = prior[v], outcome'[v] = outcome[v],
             pc'[v] = pc[v]
      PROVE  Goal
  BY <1>0, <1>1, <1>2
<1>3. ASSUME NEW x \in Worker, x # v, Step(x) \/ Crash(x) PROVE Goal
  BY <1>2, <1>3, Frame
<1>4. ASSUME EndTask(v), pc'[v] \in {"scanning", "starting"} PROVE Goal
  BY <1>0, <1>4, EndTaskEffect
<1>5. ASSUME Step(v) PROVE Goal
  <2>1. ASSUME Check(v) PROVE Goal
    BY <1>0, <2>1 DEF Check, TypeOK
  <2>2. ASSUME Select(v) PROVE Goal
    <3>1. /\ prior'[v] = NoPrior /\ outcome'[v] = None
          /\ pc'[v] \in {"finishing", "examining"}
      BY <1>0, <2>2 DEF Select, TypeOK
    <3> QED BY <1>0, <3>1
  <2>3. ASSUME Examine(v) PROVE Goal
    <3>1. /\ prior'[v] = NoPrior
          /\ pc'[v] = "finishing" \/ (pc'[v] = "reading" /\ outcome'[v] = None)
      BY <1>0, <2>3 DEF Examine, TypeOK
    <3> QED BY <1>0, <3>1
  <2>4. ASSUME BackfillUpsert(v) \/ BackfillReject(v) PROVE Goal
    <3>1. /\ prior'[v] = prior[v] /\ task'[v] = task[v] /\ pc'[v] = "finishing"
      BY <2>4 DEF BackfillUpsert, BackfillReject, TypeOK
    <3> QED BY <1>0, <1>1, <3>1
  <2>5. ASSUME Finish(v) \/ ScanUpsert(v) \/ ScanReject(v) PROVE Goal
    <3>1. EndTask(v) /\ pc'[v] = "scanning"
      BY <2>5 DEF Finish, ScanUpsert, ScanReject, TypeOK
    <3> QED BY <1>4, <3>1
  <2>6. ASSUME Fetch(v) PROVE Goal
    <3>1. prior'[v] = NoPrior /\ outcome'[v] = None /\ pc'[v] = "reading"
      BY <1>0, <2>6 DEF Fetch, TypeOK
    <3> QED BY <1>0, <3>1
  <2>7. ASSUME Read(v) PROVE Goal
    <3>1. /\ task[v].content \in Content
          /\ task'[v] = task[v] /\ outcome'[v] = None
      BY <1>0, <2>7 DEF Read, LockInv, Projecting
    <3>2. \/ pc'[v] = "writing" /\ prior'[v] = NoPrior
          \/ pc'[v] \in {"writing", "waiting"} /\ Matches(v) /\ prior'[v].known
      BY <2>7 DEF Read, TypeOK
    <3> QED BY <1>0, <1>1, <3>1, <3>2
  <2>8. ASSUME Wake(v) PROVE Goal
    <3>1. /\ pc'[v] = "writing" /\ pc[v] = "waiting"
          /\ task'[v] = task[v] /\ outcome'[v] = outcome[v]
      BY <2>8 DEF Wake, TypeOK
    <3> QED BY <1>0, <1>1, <3>1
  <2>9. ASSUME FetchUnchanged(v) PROVE Goal
    BY <1>2, <2>9 DEF FetchUnchanged, vars
  <2> QED BY <1>5, <2>1, <2>2, <2>3, <2>4, <2>5, <2>6, <2>7, <2>8, <2>9 DEF Step
<1>6. ASSUME Crash(v) PROVE Goal
  <2>1. EndTask(v) /\ pc'[v] = "starting"
    BY <1>6 DEF Crash, TypeOK
  <2> QED BY <1>4, <2>1
<1>7. ASSUME NEW c \in Content, Edit(c) PROVE Goal
  BY <1>2, <1>7 DEF Edit
<1>8. ASSUME UNCHANGED vars PROVE Goal
  BY <1>2, <1>8 DEF vars
<1> HIDE DEF Goal
<1>9. Goal
  BY <1>3, <1>5, <1>6, <1>7, <1>8 DEF Next
<1> QED BY <1>9 DEF Goal

-----------------------------------------------------------------------------
(* The records.                                                            *)

\* No version is projected twice.
LEMMA FreshVersion ==
    ASSUME TypeOK, LockInv, BackfillInv, NEW w \in Worker, Projects(w)
    PROVE  /\ ~ Projected(task[w].raw)
           /\ \A u \in Type : \A i \in DOMAIN record[u].history :
                record[u].history[i] \in 1..Len(raw) /\ record[u].history[i] # task[w].raw
<1>1. \/ task[w].raw = Len(raw) + 1
      \/ ~ Projected(task[w].raw)
  BY ProjectsEffect
<1>2. ASSUME NEW u \in Type, NEW i \in DOMAIN record[u].history
      PROVE  /\ record[u].history[i] \in 1..Len(raw)
             /\ Projected(record[u].history[i])
  BY <1>2, RecordType DEF Projected, ToSet
<1>3. Len(raw) \in Nat
  BY ProjectsEffect
<1>4. ~ Projected(task[w].raw)
  <2>1. ASSUME Projected(task[w].raw) PROVE task[w].raw \in 1..Len(raw)
    BY <2>1, RecordType DEF Projected, ToSet
  <2> QED BY <1>1, <1>3, <2>1
<1> QED BY <1>2, <1>4

\* The history that such a step lengthens.
LEMMA LongerHistory ==
    ASSUME TypeOK, LockInv, BackfillInv, NEW w \in Worker, Projects(w)
    PROVE  \E t \in Type, n \in Nat :
             /\ t = TypeOf(w) /\ n = Len(record[t].history)
             /\ DOMAIN record[t].history = 1..n
             /\ DOMAIN record'[t].history = 1..(n + 1)
             /\ \A i \in 1..n : record'[t].history[i] = record[t].history[i]
             /\ record'[t].history[n + 1] = task[w].raw
             /\ \A u \in Type : u # t => record'[u] = record[u]
             /\ changes' = changes \cup
                  {[type |-> t, from |-> prior[w].from, to |-> n + 1,
                    isNew |-> ~ prior[w].known]}
<1> DEFINE t == TypeOf(w)
           n == Len(record[t].history)
<1>1. task[w].content \in Content /\ Project(w)
  BY ProjectsEffect
<1>2. t \in Type
  BY <1>1, PageType
<1>3. /\ n \in Nat
      /\ DOMAIN record[t].history = 1..n
      /\ DOMAIN record'[t].history = 1..(n + 1)
      /\ \A i \in 1..n : record'[t].history[i] = record[t].history[i]
      /\ record'[t].history[n + 1] = task[w].raw
      /\ \A u \in Type : u # t => record'[u] = record[u]
      /\ changes' = changes \cup
           {[type |-> t, from |-> prior[w].from, to |-> n + 1,
             isNew |-> ~ prior[w].known]}
  BY <1>1, ProjectEffect
<1> HIDE DEF t, n
<1>4. t = TypeOf(w) /\ n = Len(record[t].history)
  BY DEF t, n
<1> QED BY <1>2, <1>3, <1>4

\* Every stored version stays projected, and once only.
LEMMA VersionsStep ==
    TypeOK /\ LockInv /\ BackfillInv /\ VersionsAreProjected /\ [Next]_vars
      => VersionsAreProjected'
<1> SUFFICES ASSUME TypeOK, LockInv, BackfillInv, VersionsAreProjected, [Next]_vars
             PROVE  VersionsAreProjected'
  OBVIOUS
<1>1. CASE UNCHANGED <<raw, record, changes>>
  BY <1>1 DEF VersionsAreProjected, Projected
<1>2. ASSUME NEW w \in Worker, Projects(w) PROVE VersionsAreProjected'
  <2>2. PICK t \in Type, n \in Nat :
          /\ t = TypeOf(w) /\ n = Len(record[t].history)
          /\ DOMAIN record[t].history = 1..n
          /\ DOMAIN record'[t].history = 1..(n + 1)
          /\ \A i \in 1..n : record'[t].history[i] = record[t].history[i]
          /\ record'[t].history[n + 1] = task[w].raw
          /\ \A u \in Type : u # t => record'[u] = record[u]
          /\ changes' = changes \cup
               {[type |-> t, from |-> prior[w].from, to |-> n + 1,
                 isNew |-> ~ prior[w].known]}
    BY <1>2, LongerHistory
  <2>1. task[w].content \in Content /\ Project(w) /\ Len(raw) \in Nat
    BY <1>2, ProjectsEffect
  <2>3. \A k \in 2..Len(raw') : Projected(k)'
    <3>1. \A k : Projected(k)' <=> Projected(k) \/ k = task[w].raw
      BY <2>1, ProjectEffect
    <3>2. \/ raw' = raw
          \/ Len(raw') = Len(raw) + 1 /\ task[w].raw = Len(raw) + 1
      BY <1>2, ProjectsEffect
    <3>3. \A k \in 2..Len(raw) : Projected(k)
      BY DEF VersionsAreProjected
    <3> QED BY <2>1, <3>1, <3>2, <3>3
  <2>5. \A u \in Type : \A i \in DOMAIN record[u].history :
          record[u].history[i] # task[w].raw
    BY <1>2, FreshVersion
  <2>6. ASSUME NEW u \in Type, NEW v \in Type, NEW i \in DOMAIN record'[u].history,
               NEW j \in DOMAIN record'[v].history,
               record'[u].history[i] = record'[v].history[j]
        PROVE  u = v /\ i = j
    <3> DEFINE Old(a, k) == k \in DOMAIN record[a].history
                              /\ record'[a].history[k] = record[a].history[k]
               New(a, k) == a = t /\ k = n + 1
                              /\ record'[a].history[k] = task[w].raw
    <3>0. ASSUME NEW a \in Type, NEW k \in DOMAIN record'[a].history
          PROVE  Old(a, k) \/ New(a, k)
      <4>1. CASE a # t
        BY <2>2, <3>0, <4>1
      <4>2. CASE a = t
        <5>1. k \in 1..n \/ k = n + 1
          BY <2>2, <3>0, <4>2
        <5> QED BY <2>2, <4>2, <5>1
      <4> QED BY <4>1, <4>2
    <3>1. Old(u, i) \/ New(u, i)
      BY <3>0
    <3>2. Old(v, j) \/ New(v, j)
      BY <3>0
    <3>3. CASE Old(u, i) /\ Old(v, j)
      <4>1. record[u].history[i] = record[v].history[j]
        BY <2>6, <3>3
      <4> QED BY <3>3, <4>1 DEF VersionsAreProjected
    <3>4. CASE New(u, i) /\ New(v, j)
      BY <3>4
    <3>5. CASE \/ Old(u, i) /\ New(v, j)
               \/ New(u, i) /\ Old(v, j)
      BY <2>5, <2>6, <3>5
    <3> HIDE DEF Old, New
    <3> QED BY <3>1, <3>2, <3>3, <3>4, <3>5
  <2> QED BY <2>3, <2>6 DEF VersionsAreProjected
<1> QED BY <1>1, <1>2, QuietOrProjects

\* Only the version of an earlier release comes after a newer one.
LEMMA CurrentStep ==
    TypeOK /\ LockInv /\ BackfillInv /\ ProjectionIsCurrent /\ [Next]_vars
      => ProjectionIsCurrent'
<1> SUFFICES ASSUME TypeOK, LockInv, BackfillInv, ProjectionIsCurrent, [Next]_vars
             PROVE  ProjectionIsCurrent'
  OBVIOUS
<1>1. CASE UNCHANGED <<raw, record, changes>>
  BY <1>1 DEF ProjectionIsCurrent
<1>2. ASSUME NEW w \in Worker, Projects(w) PROVE ProjectionIsCurrent'
  <2>3. PICK t \in Type, n \in Nat :
          /\ t = TypeOf(w) /\ n = Len(record[t].history)
          /\ DOMAIN record[t].history = 1..n
          /\ DOMAIN record'[t].history = 1..(n + 1)
          /\ \A i \in 1..n : record'[t].history[i] = record[t].history[i]
          /\ record'[t].history[n + 1] = task[w].raw
          /\ \A u \in Type : u # t => record'[u] = record[u]
          /\ changes' = changes \cup
               {[type |-> t, from |-> prior[w].from, to |-> n + 1,
                 isNew |-> ~ prior[w].known]}
    BY <1>2, LongerHistory
  <2>1. Len(raw) \in Nat /\ task[w].raw \in {1, Len(raw) + 1}
    BY <1>2, ProjectsEffect
  <2>4. \A i \in 1..n : record[t].history[i] \in 1..Len(raw)
    BY <1>2, <2>3, FreshVersion
  <2>5. ASSUME NEW u \in Type, NEW i \in DOMAIN record'[u].history,
               NEW j \in DOMAIN record'[u].history, i < j,
               record'[u].history[i] > record'[u].history[j]
        PROVE  record'[u].history[j] = 1
    <3>1. CASE u # t
      BY <2>3, <2>5, <3>1 DEF ProjectionIsCurrent
    <3>2. CASE u = t /\ j # n + 1
      <4>1. i \in 1..n /\ j \in 1..n
        BY <2>3, <2>5, <3>2
      <4>2. record[t].history[i] > record[t].history[j] => record[t].history[j] = 1
        BY <2>3, <2>5, <4>1 DEF ProjectionIsCurrent
      <4> QED BY <2>3, <2>5, <3>2, <4>1, <4>2
    <3>3. CASE u = t /\ j = n + 1
      <4>1. i \in 1..n
        BY <2>3, <2>5, <3>3
      <4>2. record[t].history[i] \in 1..Len(raw)
        BY <2>4, <4>1
      <4>3. record[t].history[i] > task[w].raw
        BY <2>3, <2>5, <3>3, <4>1
      <4> QED BY <2>1, <2>3, <3>3, <4>2, <4>3
    <3> QED BY <3>1, <3>2, <3>3
  <2> QED BY <2>5 DEF ProjectionIsCurrent
<1> QED BY <1>1, <1>2, QuietOrProjects

\* A change counts as new for the reasons OnlyNewRecordsAreNew gives.
LEMMA ChangesStep ==
    ASSUME TypeOK, LockInv, KnowledgeInv, BackfillInv, ScanInv, ChangesInv,
           OnlyNewRecordsAreNew, [Next]_vars
    PROVE  ChangesInv' /\ OnlyNewRecordsAreNew'
<1>1. CASE UNCHANGED <<raw, record, changes>>
  <2>1. record' = record /\ changes' = changes
    BY <1>1
  <2>2. ChangesInv'
    BY <2>1 DEF ChangesInv
  <2>3. OnlyNewRecordsAreNew'
    BY <2>1 DEF OnlyNewRecordsAreNew
  <2> QED BY <2>2, <2>3
<1>2. ASSUME NEW w \in Worker, Projects(w) PROVE ChangesInv' /\ OnlyNewRecordsAreNew'
  <2>3. PICK t \in Type, n \in Nat :
          /\ t = TypeOf(w) /\ n = Len(record[t].history)
          /\ DOMAIN record[t].history = 1..n
          /\ DOMAIN record'[t].history = 1..(n + 1)
          /\ \A i \in 1..n : record'[t].history[i] = record[t].history[i]
          /\ record'[t].history[n + 1] = task[w].raw
          /\ \A u \in Type : u # t => record'[u] = record[u]
          /\ changes' = changes \cup
               {[type |-> t, from |-> prior[w].from, to |-> n + 1,
                 isNew |-> ~ prior[w].known]}
    BY <1>2, LongerHistory
  <2>1. /\ task[w].content \in Content /\ Project(w) /\ ~ Clashes(w)
        /\ \/ task[w].raw = 1
           \/ docLock = w /\ pc[w] = "writing"
    BY <1>2, ProjectsEffect
  <2> DEFINE new == [type |-> t, from |-> prior[w].from, to |-> n + 1,
                     isNew |-> ~ prior[w].known]
  <2>4. ASSUME NEW c \in changes
        PROVE  /\ c.to \in DOMAIN record'[c.type].history
               /\ c.to = 1 => c.isNew
               /\ c.isNew /\ c.to # 1 =>
                    1 \in {record'[c.type].history[c.to], record'[c.type].history[c.to - 1]}
    <3>1. c.type \in Type
      BY DEF TypeOK
    <3>2. /\ c.to \in DOMAIN record[c.type].history
          /\ c.to = 1 => c.isNew
          /\ c.isNew /\ c.to # 1 =>
               1 \in {record[c.type].history[c.to], record[c.type].history[c.to - 1]}
      BY DEF ChangesInv, OnlyNewRecordsAreNew
    <3>3. CASE c.type # t
      BY <2>3, <3>1, <3>2, <3>3
    <3>4. CASE c.type = t
      <4>1. /\ c.to \in 1..n
            /\ record'[t].history[c.to] = record[t].history[c.to]
            /\ c.to # 1 =>
                 record'[t].history[c.to - 1] = record[t].history[c.to - 1]
        <5>1. c.to \in 1..n
          BY <2>3, <3>2, <3>4
        <5>2. c.to # 1 => c.to - 1 \in 1..n
          BY <5>1
        <5> QED BY <2>3, <5>1, <5>2
      <4>2. c.to \in DOMAIN record'[t].history
        BY <2>3, <4>1
      <4>3. c.isNew /\ c.to # 1 =>
              record'[t].history[c.to] = 1 \/ record'[t].history[c.to - 1] = 1
        BY <3>2, <3>4, <4>1
      <4> QED BY <3>2, <3>4, <4>2, <4>3
    <3> QED BY <3>3, <3>4
  <2>5. /\ new.to \in DOMAIN record'[new.type].history
        /\ new.to = 1 => new.isNew
        /\ new.isNew /\ new.to # 1 =>
             1 \in {record'[new.type].history[new.to], record'[new.type].history[new.to - 1]}
    <3>1. n = 0 => record[t] = NoRecord
      <4>1. record[t].history \in Seq(Nat)
        BY RecordType
      <4>2. n = 0 => record[t].history = <<>>
        BY <2>3, <4>1, EmptySeq
      <4> QED BY <4>2, RecordType
    <3>2. prior[w].known => record[t] # NoRecord
      <4>1. prior[w].known => record[t].key = task[w].content.key
        BY <2>3 DEF KnowledgeInv, Matches
      <4>2. task[w].content.key # None
        BY <2>1, PageType, ConstantsAssumption
      <4> QED BY <4>1, <4>2 DEF NoRecord
    <3>3. /\ new.type = t /\ new.to = n + 1 /\ n + 1 \in 1..(n + 1)
          /\ n + 1 - 1 = n
      OBVIOUS
    <3>7. new.isNew <=> ~ prior[w].known
      BY Zenon
    <3>4. task[w].raw # 1 /\ ~ prior[w].known /\ n # 0 =>
            record'[t].history[n] = 1
      <4> SUFFICES ASSUME task[w].raw # 1, ~ prior[w].known, n # 0
                   PROVE  record'[t].history[n] = 1
        OBVIOUS
      <4>1. record[t] # NoRecord
        BY <2>3, EmptySeq DEF NoRecord
      <4>2. EndsWithFirst(t)
        BY <2>1, <2>3, <4>1 DEF ScanInv
      <4> QED BY <2>3, <4>2 DEF EndsWithFirst
    <3> HIDE DEF new
    <3>5. new.to = 1 => new.isNew
      BY <3>1, <3>2, <3>3, <3>7
    <3>6. new.isNew /\ new.to # 1 =>
            record'[t].history[n + 1] = 1 \/ record'[t].history[n] = 1
      BY <2>3, <3>3, <3>4, <3>7
    <3> QED BY <2>3, <3>3, <3>5, <3>6
  <2>6. changes' = changes \cup {new}
    BY <2>3
  <2> HIDE DEF new
  <2>7. ASSUME NEW c \in changes'
        PROVE  /\ c.to \in DOMAIN record'[c.type].history
               /\ c.to = 1 => c.isNew
               /\ c.isNew /\ c.to # 1 =>
                    1 \in {record'[c.type].history[c.to], record'[c.type].history[c.to - 1]}
    BY <2>4, <2>5, <2>6, <2>7
  <2> QED BY <2>7 DEF ChangesInv, OnlyNewRecordsAreNew
<1> QED BY <1>1, <1>2, QuietOrProjects

\* A longer document has another latest version with a text only if it is new.
LEMMA SelectedBefore ==
    ASSUME TypeOK, LockInv, [Next]_vars, NEW n \in 1..Len(raw), Selected(n)'
    PROVE  Selected(n)
<1>1. raw' = raw \/ \E c \in Content : raw' = Append(raw, c)
  BY ScanEffect DEF Next, Step, Edit, Check, Select, Examine, BackfillUpsert,
     BackfillReject, Finish, Fetch, FetchUnchanged, Read, Wake, ScanUpsert,
     ScanReject, Crash, vars, tables
<1>2. CASE raw' = raw
  BY <1>2 DEF Selected, WithText
<1>3. ASSUME NEW c \in Content, raw' = Append(raw, c) PROVE Selected(n)
  <2>1. /\ Len(raw) \in Nat /\ Len(raw') = Len(raw) + 1
        /\ \A m \in 1..Len(raw) : raw'[m] = raw[m]
    BY <1>3, AppendProperties DEF TypeOK
  <2>2. \A m \in 1..Len(raw) : m \in 1..Len(raw')
    BY <2>1
  <2>3. \A m \in WithText : m \in WithText'
    BY <2>1, <2>2 DEF WithText
  <2>4. n \in WithText
    BY <2>1 DEF Selected, WithText
  <2> QED BY <2>3, <2>4 DEF Selected
<1> QED BY <1>1, <1>2, <1>3

\* The version that a backfill would select stays projected.
LEMMA SelectedStep ==
    TypeOK /\ LockInv /\ BackfillInv /\ SelectedIsProjected /\ [Next]_vars
      => SelectedIsProjected'
<1> SUFFICES ASSUME TypeOK, LockInv, BackfillInv, SelectedIsProjected, [Next]_vars
             PROVE  SelectedIsProjected'
  OBVIOUS
<1>1. CASE UNCHANGED <<raw, record, changes>>
  BY <1>1 DEF SelectedIsProjected, Selected, WithText, Projected
<1>2. ASSUME NEW w \in Worker, Projects(w) PROVE SelectedIsProjected'
  <2>1. task[w].content \in Content /\ Project(w)
    BY <1>2, ProjectsEffect
  <2>2. \A n : Projected(n)' <=> Projected(n) \/ n = task[w].raw
    BY <2>1, ProjectEffect
  <2>3. SUFFICES ASSUME NEW n \in 1..Len(raw'), Selected(n)' PROVE Projected(n)'
    BY DEF SelectedIsProjected
  <2>4. n \in 1..Len(raw) \/ n = task[w].raw
    BY <1>2, ProjectsEffect
  <2>5. CASE n \in 1..Len(raw)
    <3>1. Selected(n)
      BY <2>3, <2>5, SelectedBefore
    <3> QED BY <2>2, <2>5, <3>1 DEF SelectedIsProjected
  <2> QED BY <2>2, <2>4, <2>5
<1> QED BY <1>1, <1>2, QuietOrProjects

\* Only the version of an earlier release may be without a projection.
LEMMA OnlyFirstUnprojected ==
    ASSUME TypeOK, VersionsAreProjected, NEW n \in 1..Len(raw), n # 1
    PROVE  Projected(n)
<1>1. n \in 2..Len(raw)
  BY DEF TypeOK
<1> QED BY <1>1 DEF VersionsAreProjected

\* A worker that completes the backfill leaves the selected version projected.
LEMMA CompletedStep ==
    ASSUME TypeOK, LockInv, BackfillInv, VersionsAreProjected, CompletedMeansProjected,
           [Next]_vars
    PROVE  CompletedMeansProjected'
<1>1. CASE SelectedIsProjected
  BY <1>1, SelectedStep DEF CompletedMeansProjected, SelectedIsProjected
<1>2. ASSUME NEW w \in Worker, Finish(w), ~ SelectedIsProjected
      PROVE  CompletedMeansProjected'
  <2>1. runLock = w /\ pc[w] = "finishing" /\ outcome[w] \in Outcome \cup {None}
    BY <1>2 DEF Finish, LockInv, TypeOK
  <2>2. outcome[w] \in {"projected", "rejected"}
    BY <1>2, <2>1 DEF BackfillInv, Outcome
  <2>3. CASE outcome[w] = "rejected"
    BY <1>2, <2>3 DEF Finish, BackfillStatus, CompletedMeansProjected
  <2>4. CASE outcome[w] = "projected"
    <3>1. /\ task[w].content \in Content /\ task[w].raw = 1 /\ Project(w)
          /\ raw' = raw
      BY <1>2, <2>4, FinishEffect
    <3>2. \A n : Projected(n)' <=> Projected(n) \/ n = task[w].raw
      BY <3>1, ProjectEffect
    <3>3. \A n \in 1..Len(raw) : Projected(n)'
      BY <3>1, <3>2, OnlyFirstUnprojected
    <3> QED BY <3>1, <3>3 DEF CompletedMeansProjected
  <2> QED BY <2>2, <2>3, <2>4
<1>3. CASE ~ (\E w \in Worker : Finish(w)) /\ ~ SelectedIsProjected
  <2>1. backfilled' = backfilled /\ backfilled # "completed"
    <3>1. backfilled' = backfilled
      BY <1>3 DEF Next, Step, Edit, Check, Select, Examine, BackfillUpsert,
         BackfillReject, Fetch, FetchUnchanged, Read, Wake, ScanUpsert, ScanReject, Crash,
         vars, tables
    <3> QED BY <1>3, <3>1 DEF CompletedMeansProjected, SelectedIsProjected
  <2> QED BY <2>1 DEF CompletedMeansProjected
<1> QED BY <1>1, <1>2, <1>3

\* While one worker's backfill has its version to write, scans add newer ones.
LEMMA BackfillStep ==
    ASSUME TypeOK, LockInv, KnowledgeInv, BackfillInv, VersionsAreProjected, [Next]_vars
    PROVE  BackfillInv'
<1> SUFFICES ASSUME NEW v \in Worker, runLock' = v
             PROVE  /\ pc'[v] = "examining" => /\ task'[v].raw \in 1..Len(raw')
                                               /\ Selected(1)' => task'[v].raw = 1
                    /\ WillProject(v)' => /\ task'[v].raw = 1 /\ task'[v].content \in Content
                                          /\ raw' # <<>> /\ ~ Projected(1)'
                    /\ pc'[v] = "finishing" /\ outcome'[v] = "projected" =>
                         rowLock'[TypeOf(v)'] = v /\ ~ Clashes(v)'
                    /\ pc'[v] = "finishing" /\ outcome'[v] \in {None, "merged"} =>
                         SelectedIsProjected'
  BY DEF BackfillInv
<1> DEFINE Goal == /\ pc'[v] = "examining" => /\ task'[v].raw \in 1..Len(raw')
                                              /\ Selected(1)' => task'[v].raw = 1
                   /\ WillProject(v)' => /\ task'[v].raw = 1 /\ task'[v].content \in Content
                                         /\ raw' # <<>> /\ ~ Projected(1)'
                   /\ pc'[v] = "finishing" /\ outcome'[v] = "projected" =>
                        rowLock'[TypeOf(v)'] = v /\ ~ Clashes(v)'
                   /\ pc'[v] = "finishing" /\ outcome'[v] \in {None, "merged"} =>
                        SelectedIsProjected'
<1> USE DEF Goto, tables, locks, local
<1>0. runLock = v =>
        /\ pc[v] = "examining" => /\ task[v].raw \in 1..Len(raw)
                                  /\ Selected(1) => task[v].raw = 1
        /\ WillProject(v) => /\ task[v].raw = 1 /\ task[v].content \in Content
                             /\ raw # <<>> /\ ~ Projected(1)
        /\ pc[v] = "finishing" /\ outcome[v] = "projected" =>
             rowLock[TypeOf(v)] = v /\ ~ Clashes(v)
        /\ pc[v] = "finishing" /\ outcome[v] \in {None, "merged"} => SelectedIsProjected
  BY DEF BackfillInv
<1>1. UNCHANGED <<raw, record, changes>> =>
        /\ Projected(1)' <=> Projected(1)
        /\ SelectedIsProjected' <=> SelectedIsProjected
        /\ Selected(1)' <=> Selected(1)
  BY DEF Projected, SelectedIsProjected, Selected, WithText
<1>2. v # None
  BY ConstantsAssumption
\* What this worker was about to do, it still is, whatever the others did.
<1>3. ASSUME runLock = v, pc'[v] = pc[v], task'[v] = task[v], outcome'[v] = outcome[v],
             \A t \in Type : rowLock[t] = v => rowLock'[t] = v,
             ~ Projects(v)
      PROVE  Goal
  <2>1. Len(raw) \in Nat /\ Len(raw') \in Nat /\ Len(raw) <= Len(raw')
    <3>1. CASE UNCHANGED <<raw, record, changes>>
      BY <3>1 DEF TypeOK
    <3>2. ASSUME NEW w \in Worker, Projects(w) PROVE Len(raw') \in {Len(raw), Len(raw) + 1}
      BY <3>2, ProjectsEffect
    <3>3. Len(raw) \in Nat
      BY DEF TypeOK
    <3> QED BY <3>1, <3>2, <3>3, QuietOrProjects
  <2>2. ASSUME NEW w \in Worker, Projects(w)
        PROVE  /\ task[w].content \in Content /\ Project(w)
               /\ task[w].raw = Len(raw) + 1 /\ rowLock[TypeOf(w)] \in {w, None} /\ w # v
    <3>1. runLock # w
      BY <1>3, <2>2
    <3> QED BY <1>3, <2>2, <3>1, ProjectsEffect
  <2>3. raw # <<>> => raw' # <<>> /\ (Projected(1)' => Projected(1))
    <3>1. CASE UNCHANGED <<raw, record, changes>>
      BY <1>1, <3>1
    <3>2. ASSUME NEW w \in Worker, Projects(w), raw # <<>>
          PROVE  raw' # <<>> /\ (Projected(1)' => Projected(1))
      <4>1. Len(raw) # 0 /\ raw' # <<>>
        <5>1. Len(raw) # 0
          BY <3>2 DEF TypeOK
        <5> QED BY <2>1, <5>1
      <4>2. Projected(1)' <=> Projected(1) \/ 1 = task[w].raw
        BY <2>2, <3>2, ProjectEffect
      <4> QED BY <2>1, <2>2, <3>2, <4>1, <4>2
    <3> QED BY <3>1, <3>2, QuietOrProjects
  <2>4. TypeOf(v)' = TypeOf(v)
    BY <1>3 DEF TypeOf
  <2>5. ASSUME pc[v] = "finishing", outcome[v] = "projected"
        PROVE  rowLock'[TypeOf(v)] = v /\ ~ Clashes(v)'
    <3>1. TypeOf(v) \in Type /\ rowLock[TypeOf(v)] = v /\ ~ Clashes(v)
      BY <1>0, <1>3, <2>5, PageType DEF WillProject
    <3>2. record'[TypeOf(v)] = record[TypeOf(v)]
      <4>1. CASE UNCHANGED <<raw, record, changes>>
        BY <4>1
      <4>2. ASSUME NEW w \in Worker, Projects(w)
            PROVE  record'[TypeOf(v)] = record[TypeOf(v)]
        <5>1. TypeOf(v) # TypeOf(w)
          BY <1>2, <2>2, <3>1, <4>2
        <5> QED BY <2>2, <3>1, <4>2, <5>1, ProjectEffect
      <4> QED BY <4>1, <4>2, QuietOrProjects
    <3> QED BY <1>3, <2>4, <3>1, <3>2 DEF Clashes
  <2>6. SelectedIsProjected => SelectedIsProjected'
    BY SelectedStep
  <2>7. WillProject(v)' <=> WillProject(v)
    BY <1>3 DEF WillProject
  <2>8. ASSUME pc[v] = "examining", Selected(1)' PROVE task[v].raw = 1
    <3>1. task[v].raw \in 1..Len(raw) /\ 1 \in 1..Len(raw)
      BY <1>0, <1>3, <2>1, <2>8
    <3>2. Selected(1)
      BY <2>8, <3>1, SelectedBefore
    <3> QED BY <1>0, <1>3, <2>8, <3>2
  <2> QED BY <1>0, <1>3, <2>1, <2>3, <2>4, <2>5, <2>6, <2>7, <2>8
<1>4. ASSUME NEW x \in Worker, x # v, Step(x) \/ Crash(x) PROVE Goal
  <2>1. /\ pc'[v] = pc[v] /\ task'[v] = task[v] /\ outcome'[v] = outcome[v]
        /\ runLock = v /\ \A t \in Type : rowLock[t] = v => rowLock'[t] = v
    BY <1>4, Frame
  <2>2. ~ Projects(v)
    <3>1. pc[v] # "writing" \/ docLock # v
      BY <2>1 DEF LockInv
    <3>2. ~ ScanUpsert(v)
      BY <3>1 DEF ScanUpsert, MayWrite
    <3>3. Finish(v) => runLock' # v
      BY EndTaskEffect DEF Finish
    <3> QED BY <3>2, <3>3 DEF Projects
  <2> QED BY <1>3, <2>1, <2>2
<1>5. ASSUME Step(v) PROVE Goal
  <2> USE DEF Projecting
  <2>1. ASSUME Check(v) PROVE FALSE
    BY <1>2, <2>1 DEF Check, LockInv
  <2>2. ASSUME Select(v) PROVE Goal
    <3>1. outcome'[v] = None /\ raw' = raw
      BY <2>2 DEF Select, KnowledgeInv
    <3>2. \/ pc'[v] = "finishing" /\ WithText = {}
          \/ /\ pc'[v] = "examining" /\ task'[v].raw \in 1..Len(raw)
             /\ Selected(task'[v].raw)
      BY <2>2 DEF Select, TypeOK
    <3>3. None # "projected"
      BY ConstantsAssumption DEF Outcome
    <3>4. WithText = {} => SelectedIsProjected'
      BY <3>1 DEF SelectedIsProjected, Selected, WithText
    <3>5. ASSUME Selected(1)', Selected(task'[v].raw), task'[v].raw \in 1..Len(raw)
          PROVE  task'[v].raw = 1
      <4>1. task'[v].raw \in WithText
        BY <3>5 DEF Selected
      <4>2. \A m \in WithText : m <= 1
        BY <3>1, <3>5 DEF Selected, WithText
      <4>3. task'[v].raw >= 1
        BY <3>5
      <4>4. task'[v].raw \in Nat
        BY <3>5 DEF TypeOK
      <4> QED BY <4>1, <4>2, <4>3, <4>4
    <3> QED BY <3>1, <3>2, <3>3, <3>4, <3>5 DEF WillProject
  <2>3. ASSUME Examine(v) PROVE Goal
    <3>1. /\ pc[v] = "examining" /\ runLock = v /\ raw' = raw /\ task'[v] = task[v]
          /\ task[v].content \in Content /\ task[v].raw \in 1..Len(raw)
          /\ UNCHANGED <<raw, record, changes>> /\ Len(raw) \in Nat
      BY <1>0, <2>3 DEF Examine, LockInv, TypeOK
    <3>2. CASE Merged(v)
      <4>1. pc'[v] = "finishing" /\ outcome'[v] = "merged"
        BY <2>3, <3>2 DEF Examine, TypeOK
      <4>2. Projected(task[v].raw)
        BY <3>2 DEF Merged
      <4>3. Selected(1) => task[v].raw = 1
        BY <1>0, <3>1
      <4>4. SelectedIsProjected
        BY <4>2, <4>3, OnlyFirstUnprojected DEF SelectedIsProjected
      <4> QED BY <1>1, <3>1, <4>1, <4>4 DEF WillProject
    <3>3. CASE ~ Merged(v)
      <4>1. pc'[v] = "reading"
        BY <2>3, <3>3 DEF Examine, TypeOK
      <4>2. ~ Projected(task[v].raw)
        BY <3>3 DEF Merged
      <4>3. task[v].raw = 1
        <5>1. task[v].raw \notin 2..Len(raw)
          BY <4>2 DEF VersionsAreProjected
        <5> QED BY <3>1, <5>1
      <4>4. raw # <<>>
        BY <3>1
      <4> QED BY <1>1, <3>1, <4>1, <4>2, <4>3, <4>4
    <3> QED BY <3>2, <3>3
  <2>4. ASSUME BackfillUpsert(v) PROVE Goal
    <3>1. /\ runLock = v /\ WillProject(v) /\ task'[v] = task[v]
          /\ UNCHANGED <<raw, record, changes>> /\ ~ Clashes(v)
          /\ pc'[v] = "finishing" /\ outcome'[v] = "projected"
      BY <2>4 DEF BackfillUpsert, Backfilling, MayWrite, WillProject, TypeOK
    <3>2. TypeOf(v) \in Type /\ TypeOf(v)' = TypeOf(v)
      BY <1>0, <3>1, PageType DEF TypeOf
    <3>3. rowLock'[TypeOf(v)] = v
      BY <2>4, <3>2 DEF BackfillUpsert, TypeOK
    <3>4. ~ Clashes(v)'
      BY <3>1, <3>2 DEF Clashes
    <3>5. None # "projected"
      BY ConstantsAssumption DEF Outcome
    <3> QED BY <1>0, <1>1, <3>1, <3>2, <3>3, <3>4, <3>5
  <2>5. ASSUME BackfillReject(v) PROVE Goal
    <3>1. pc'[v] = "finishing" /\ outcome'[v] = "rejected"
      BY <2>5 DEF BackfillReject, TypeOK
    <3>2. None # "rejected"
      BY ConstantsAssumption DEF Outcome
    <3> QED BY <3>1, <3>2 DEF WillProject
  <2>6. ASSUME Finish(v) \/ ScanUpsert(v) \/ ScanReject(v) PROVE FALSE
    BY <2>6, EndTaskEffect DEF Finish, ScanUpsert, ScanReject
  <2>7. ASSUME Fetch(v) PROVE FALSE
    BY <2>7 DEF Fetch, LockInv
  <2>8. ASSUME Read(v) \/ Wake(v) PROVE Goal
    <3>1. /\ runLock = v /\ WillProject(v) /\ task'[v] = task[v]
          /\ UNCHANGED <<raw, record, changes>> /\ pc'[v] \in {"waiting", "writing"}
      BY <2>8 DEF Read, Wake, WillProject, TypeOK
    <3> QED BY <1>0, <1>1, <3>1
  <2>9. ASSUME FetchUnchanged(v) PROVE FALSE
    BY <2>9 DEF FetchUnchanged, LockInv, vars
  <2> QED BY <1>5, <2>1, <2>2, <2>3, <2>4, <2>5, <2>6, <2>7, <2>8, <2>9 DEF Step
<1>6. ASSUME Crash(v) PROVE FALSE
  BY <1>6, EndTaskEffect DEF Crash
<1>7. ASSUME UNCHANGED <<tables, locks, local>> PROVE Goal
  <2>1. ~ Projects(v)
    <3>1. ~ Finish(v)
      BY <1>7, EndTaskEffect DEF Finish
    <3>2. pc[v] # "writing" \/ docLock # v
      BY <1>7 DEF LockInv
    <3>3. ~ ScanUpsert(v)
      BY <3>2 DEF ScanUpsert, MayWrite
    <3> QED BY <3>1, <3>3 DEF Projects
  <2> QED BY <1>3, <1>7, <2>1
<1>8. ASSUME NEW c \in Content, Edit(c) PROVE Goal
  BY <1>7, <1>8 DEF Edit
<1>9. ASSUME UNCHANGED vars PROVE Goal
  BY <1>7, <1>9 DEF vars
<1> HIDE DEF Goal
<1>10. Goal
  BY <1>4, <1>5, <1>6, <1>8, <1>9 DEF Next
<1> QED BY <1>10 DEF Goal

\* While a scan has the document, only the backfill can add to its record.
LEMMA ScanStep ==
    ASSUME TypeOK, LockInv, KnowledgeInv, BackfillInv, ScanInv, [Next]_vars
    PROVE  ScanInv'
<1> SUFFICES ASSUME NEW v \in Worker, docLock' = v
             PROVE  /\ pc'[v] = "waiting" =>
                         \/ prior'[v].from = Len(record'[TypeOf(v)'].history)
                         \/ EndsWithFirst(TypeOf(v))'
                    /\ pc'[v] = "writing" /\ ~ prior'[v].known =>
                         \/ record'[TypeOf(v)'] = NoRecord \/ Clashes(v)'
                         \/ EndsWithFirst(TypeOf(v))'
  BY DEF ScanInv
<1> DEFINE Goal == /\ pc'[v] = "waiting" =>
                        \/ prior'[v].from = Len(record'[TypeOf(v)'].history)
                        \/ EndsWithFirst(TypeOf(v))'
                   /\ pc'[v] = "writing" /\ ~ prior'[v].known =>
                        \/ record'[TypeOf(v)'] = NoRecord \/ Clashes(v)'
                        \/ EndsWithFirst(TypeOf(v))'
<1> USE DEF Goto, tables, locks, local
<1>0. docLock = v =>
        /\ pc[v] \in Projecting /\ runLock # v /\ task[v].content \in Content
        /\ pc[v] = "waiting" =>
             \/ prior[v].from = Len(record[TypeOf(v)].history)
             \/ EndsWithFirst(TypeOf(v))
        /\ pc[v] = "writing" /\ ~ prior[v].known =>
             \/ record[TypeOf(v)] = NoRecord \/ Clashes(v)
             \/ EndsWithFirst(TypeOf(v))
  BY DEF ScanInv, LockInv
<1>1. v # None
  BY ConstantsAssumption
<1>2. ASSUME docLock = v, pc'[v] = pc[v], task'[v] = task[v], prior'[v] = prior[v],
             ~ Projects(v)
      PROVE  Goal
  <2>1. TypeOf(v)' = TypeOf(v) /\ TypeOf(v) \in Type
    BY <1>0, <1>2, PageType DEF TypeOf
  <2>2. CASE record'[TypeOf(v)] = record[TypeOf(v)]
    <3>1. /\ EndsWithFirst(TypeOf(v))' <=> EndsWithFirst(TypeOf(v))
          /\ Clashes(v)' <=> Clashes(v)
      BY <1>2, <2>1, <2>2 DEF EndsWithFirst, Clashes
    <3> QED BY <1>0, <1>2, <2>1, <2>2, <3>1
  <2>3. CASE record'[TypeOf(v)] # record[TypeOf(v)]
    <3>1. PICK w \in Worker : Projects(w)
      BY <2>3, QuietOrProjects
    <3>2. /\ task[w].content \in Content /\ Project(w) /\ task[w].raw = 1
      BY <1>2, <3>1, ProjectsEffect
    <3>3. TypeOf(w) = TypeOf(v)
      BY <2>1, <2>3, <3>2, ProjectEffect
    <3>4. /\ Len(record'[TypeOf(v)].history) = Len(record[TypeOf(v)].history) + 1
          /\ Len(record[TypeOf(v)].history) \in Nat
          /\ record'[TypeOf(v)].history[Len(record[TypeOf(v)].history) + 1] = 1
          /\ DOMAIN record'[TypeOf(v)].history = 1..(Len(record[TypeOf(v)].history) + 1)
      <4>1. /\ Len(record'[TypeOf(w)].history) = Len(record[TypeOf(w)].history) + 1
            /\ Len(record[TypeOf(w)].history) \in Nat
            /\ record'[TypeOf(w)].history[Len(record[TypeOf(w)].history) + 1] = task[w].raw
            /\ DOMAIN record'[TypeOf(w)].history
                 = 1..(Len(record[TypeOf(w)].history) + 1)
        BY <3>2, ProjectEffect
      <4> QED BY <3>2, <3>3, <4>1
    <3>5. record'[TypeOf(v)].history # <<>>
      BY <3>4
    <3>6. EndsWithFirst(TypeOf(v))'
      BY <2>1, <3>4, <3>5 DEF EndsWithFirst
    <3> QED BY <3>6
  <2> QED BY <2>2, <2>3
<1>3. ASSUME NEW x \in Worker, x # v, Step(x) \/ Crash(x) PROVE Goal
  <2>1. /\ pc'[v] = pc[v] /\ task'[v] = task[v] /\ prior'[v] = prior[v] /\ docLock = v
    BY <1>3, Frame
  <2>2. ~ Projects(v)
    <3>1. ~ Finish(v)
      BY <2>1, <1>0 DEF Finish, Projecting
    <3>2. ScanUpsert(v) => docLock' # v
      BY EndTaskEffect DEF ScanUpsert
    <3> QED BY <3>1, <3>2 DEF Projects
  <2> QED BY <1>2, <2>1, <2>2
<1>4. ASSUME Step(v) PROVE Goal
  <2> USE DEF Projecting
  <2>1. ASSUME Check(v) \/ Select(v) \/ Examine(v) PROVE FALSE
    BY <1>0, <2>1 DEF Check, Select, Examine
  <2>2. ASSUME BackfillUpsert(v) \/ BackfillReject(v) PROVE FALSE
    BY <1>0, <2>2 DEF BackfillUpsert, BackfillReject, Backfilling
  <2>3. ASSUME Finish(v) \/ ScanUpsert(v) \/ ScanReject(v) PROVE FALSE
    BY <2>3, EndTaskEffect DEF Finish, ScanUpsert, ScanReject
  <2>4. ASSUME Fetch(v) PROVE Goal
    <3>1. pc'[v] = "reading"
      BY <2>4 DEF Fetch, TypeOK
    <3> QED BY <3>1
  <2>5. ASSUME Read(v) PROVE Goal
    <3>1. /\ docLock = v /\ TypeOf(v)' = TypeOf(v) /\ TypeOf(v) \in Type
          /\ record' = record /\ task' = task
      BY <1>0, <2>5, PageType DEF Read, TypeOf
    <3>2. CASE Matches(v)
      <4>1. prior'[v] = [from |-> Len(record[TypeOf(v)].history), known |-> TRUE]
        BY <2>5, <3>2 DEF Read, TypeOK
      <4> QED BY <3>1, <4>1
    <3>3. CASE ~ Matches(v)
      <4>1. pc'[v] = "writing"
        BY <2>5, <3>3 DEF Read, TypeOK
      <4>2. record[TypeOf(v)] = NoRecord \/ Clashes(v)
        BY <3>1, <3>3, RecordType DEF Matches, Clashes
      <4>3. Clashes(v)' <=> Clashes(v)
        BY <3>1 DEF Clashes
      <4> QED BY <3>1, <4>1, <4>2, <4>3
    <3> QED BY <3>2, <3>3
  <2>6. ASSUME Wake(v) PROVE Goal
    <3>1. /\ docLock = v /\ TypeOf(v)' = TypeOf(v) /\ record' = record
          /\ pc[v] = "waiting" /\ pc'[v] = "writing"
      BY <2>6 DEF Wake, TypeOf, TypeOK
    <3>2. prior'[v].known <=> prior[v].from = Len(record[TypeOf(v)].history)
      <4> DEFINE k == prior[v].from = Len(record[TypeOf(v)].history)
      <4>1. prior'[v] = [from |-> Len(record[TypeOf(v)].history), known |-> k]
        BY <2>6 DEF Wake, TypeOK
      <4>2. k \in BOOLEAN
        OBVIOUS
      <4>3. prior'[v].known <=> k
        <5> HIDE DEF k
        <5> QED BY <4>1, <4>2
      <4> QED BY <4>3
    <3>3. EndsWithFirst(TypeOf(v))' <=> EndsWithFirst(TypeOf(v))
      BY <3>1 DEF EndsWithFirst
    <3> QED BY <1>0, <3>1, <3>2, <3>3
  <2>7. ASSUME FetchUnchanged(v) PROVE FALSE
    BY <1>0, <2>7 DEF FetchUnchanged, vars
  <2> QED BY <1>4, <2>1, <2>2, <2>3, <2>4, <2>5, <2>6, <2>7 DEF Step
<1>5. ASSUME Crash(v) PROVE FALSE
  BY <1>5, EndTaskEffect DEF Crash
<1>6. ASSUME UNCHANGED <<tables, locks, local>> PROVE Goal
  <2>1. docLock = v /\ UNCHANGED <<record, pc, task, prior>>
    BY <1>6
  <2>2. ~ Projects(v)
    BY <1>6, EndTaskEffect DEF Projects, Finish, ScanUpsert
  <2> QED BY <1>2, <2>1, <2>2
<1>7. ASSUME NEW c \in Content, Edit(c) PROVE Goal
  BY <1>6, <1>7 DEF Edit
<1>8. ASSUME UNCHANGED vars PROVE Goal
  BY <1>6, <1>8 DEF vars
<1> HIDE DEF Goal
<1>9. Goal
  BY <1>3, <1>4, <1>5, <1>7, <1>8 DEF Next
<1> QED BY <1>9 DEF Goal

-----------------------------------------------------------------------------
(* Theorems.                                                               *)

\* The inductive invariant holds in every reachable state.
THEOREM Invariance == Spec => []IInv
<1>1. Init => IInv
  <2> SUFFICES ASSUME Init PROVE IInv
    OBVIOUS
  <2>1. TypeOK
    <3>1. record \in [Type -> {NoRecord} \cup
                        [key : Key, history : Seq(1..Len(raw)) \ {<<>>}]]
      BY DEF Init
    <3>2. raw \in Seq(Content)
      <4>1. \A c \in Content : <<c>> \in Seq(Content)
        OBVIOUS
      <4> QED BY <4>1, EmptySeq DEF Init
    <3>3. /\ task \in [Worker -> [raw : Nat, content : Content \cup {None}]]
          /\ prior \in [Worker -> [from : Nat, known : BOOLEAN]]
      BY DEF Init, NoTask, NoPrior
    <3>4. edits \in 0..MaxEdits /\ crashes \in 0..MaxCrashes
      BY ConstantsAssumption DEF Init
    <3>5. pc \in [Worker -> Phase]
      BY DEF Init, Phase
    <3> QED BY <3>1, <3>2, <3>3, <3>4, <3>5 DEF Init, TypeOK
  <2>2. \A t \in Type : record[t].history = <<>> /\ DOMAIN record[t].history = {}
    BY EmptySeq DEF Init, NoRecord
  <2>3. \A n \in 2..Len(raw) : FALSE
    <3>1. Len(raw) \in {0, 1}
      BY DEF Init
    <3> QED BY <3>1
  <2>4. LockInv /\ KnowledgeInv /\ BackfillInv /\ ScanInv /\ ChangesInv
    <3>1. LockInv /\ BackfillInv /\ ScanInv
      BY ConstantsAssumption DEF Init, LockInv, BackfillInv, ScanInv, Projecting
    <3>2. KnowledgeInv /\ ChangesInv
      BY DEF Init, KnowledgeInv, ChangesInv, NoPrior
    <3> QED BY <3>1, <3>2
  <2>5. /\ VersionsAreProjected /\ CompletedMeansProjected
        /\ OnlyNewRecordsAreNew /\ ProjectionIsCurrent
    BY <2>2, <2>3 DEF Init, VersionsAreProjected, CompletedMeansProjected,
                      OnlyNewRecordsAreNew, ProjectionIsCurrent
  <2> QED BY <2>1, <2>4, <2>5 DEF IInv
<1>2. IInv /\ [Next]_vars => IInv'
  BY TypeStep, LockStep, KnowledgeStep, BackfillStep, ScanStep, ChangesStep, VersionsStep,
     CompletedStep, CurrentStep
  DEF IInv
<1> QED BY <1>1, <1>2, PTL DEF Spec

\* Every variable of the projection keeps its type.
THEOREM TypeCorrect == Spec => []TypeOK
BY Invariance, PTL DEF IInv

\* No version that a scan stores is left without its canonical record, and none
\* is projected twice, with any number of scans and backfills at work.
THEOREM EveryVersionProjected == Spec => []VersionsAreProjected
BY Invariance, PTL DEF IInv

\* A backfill that calls itself completed has left no version it had to select
\* without its record: the latest one that has a text is projected.
THEOREM BackfillComplete == Spec => []CompletedMeansProjected
BY Invariance, PTL DEF IInv

\* What is announced as a new record is one, but for the backfill's own version.
THEOREM NewMeansNew == Spec => []OnlyNewRecordsAreNew
BY Invariance, PTL DEF IInv

\* The current version of a record is made from its newest raw version, unless a
\* backfill was overtaken by a scan.
THEOREM RecordsAreCurrent == Spec => []ProjectionIsCurrent
BY Invariance, PTL DEF IInv
=============================================================================
