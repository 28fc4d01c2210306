---------------------------- MODULE NotebookProofs ----------------------------
(***************************************************************************)
(* Theorems about Notebook for any notebooks, documents, requests and      *)
(* versions.                                                               *)
(***************************************************************************)
EXTENDS Notebook, SequenceTheorems, TLAPS

\* The lock of a notebook and the request that is inserting there belong
\* together.
LockInv ==
    /\ \A n \in Notebook : lock[n] # None =>
         pc[lock[n]] = "inserting" /\ at[lock[n]] = n
    /\ \A r \in Request :
         /\ pc[r] # "idle" => at[r] \in Notebook
         /\ pc[r] = "inserting" => lock[at[r]] = r

\* A version that is stored, and one that notebook n knows: of a saved document,
\* or cited by an entry.
Stored(v) == v[2] \in 1..latest[v[1]]
Known(n, v) ==
    \/ v[1] \in saved[n]
    \/ \E i \in 1..Len(entries[n]) : \E c \in entries[n][i].cites : c.version = v

\* What has been read for a generated entry is known to its notebook.
ReadFits(r) ==
    pc[r] \in {"drafting", "waiting", "inserting"} /\ job[r].kind \in Generated =>
        \A item \in job[r].read : Stored(item.version) /\ Known(at[r], item.version)

\* What an entry that waits to be stored is going to cite.
JobFits(r) ==
    pc[r] \in {"waiting", "inserting"} =>
        /\ job[r].kind = "note" <=> job[r].cites = {}
        /\ job[r].kind \in Generated => job[r].cites \subseteq job[r].read
        /\ job[r].kind = "timeline" =>
             \A s, t \in job[r].cites : s.version[1] = t.version[1] => s = t
        /\ \A item \in job[r].cites : Stored(item.version)

\* A snapshot lists entries that there are, and all of their citations.
ExportFits(r) ==
    /\ pc[r] \in {"listing", "exported"} => export[r].entries <= Len(entries[at[r]])
    /\ pc[r] = "exported" =>
         \A i \in 1..export[r].entries : entries[at[r]][i].cites \subseteq export[r].cites

Fits(r) == ReadFits(r) /\ JobFits(r) /\ ExportFits(r)

\* Entries cite versions that are stored.
CiteInv ==
    \A n \in Notebook : \A i \in 1..Len(entries[n]) :
        \A c \in entries[n][i].cites : Stored(c.version)

\* The inductive invariant.
IInv ==
    /\ TypeOK /\ LockInv /\ PositionsAreDense /\ PositionStaysFree /\ CiteInv
    /\ \A r \in Request : Fits(r)

-----------------------------------------------------------------------------
(* Lemmas about the operators the actions are built from.                  *)

\* The maximum of dense positions is their number.
LEMMA NextPositionIsLength ==
    ASSUME TypeOK, PositionsAreDense, NEW n \in Notebook
    PROVE  NextPosition(n) = 1 + Len(entries[n])
<1> DEFINE L == Len(entries[n])
           positions == {entries[n][i].position : i \in 1..L}
<1>1. L \in Nat
  BY DEF TypeOK
<1>2. positions = 1..L
  BY <1>1 DEF PositionsAreDense
<1>3. CASE L = 0
  BY <1>1, <1>2, <1>3 DEF NextPosition
<1>4. CASE L # 0
  <2>1. L \in positions /\ \A q \in positions : q <= L
    BY <1>1, <1>2, <1>4
  <2>2. ASSUME NEW p \in positions, \A q \in positions : q <= p PROVE p = L
    <3>1. L <= p
      BY <2>1, <2>2
    <3>2. p \in 1..L
      BY <1>2
    <3> QED BY <1>1, <3>1, <3>2
  <2>3. (CHOOSE p \in positions : \A q \in positions : q <= p) = L
    BY <2>1, <2>2
  <2>4. positions # {}
    BY <2>1
  <2> QED BY <2>3, <2>4 DEF NextPosition
<1> QED BY <1>3, <1>4

\* A citation keeps the version of the evidence.
LEMMA CiteType ==
    ASSUME NEW n \in Notebook, NEW p \in Nat \ {0}, NEW item \in Evidence
    PROVE  Cite(n, p, item) \in Citation /\ Cite(n, p, item).version = item.version
<1>1. CASE item \in Uncited
  <2>1. item.home = None /\ item.version \in Version
    BY <1>1 DEF Uncited
  <2> QED BY <2>1 DEF Cite, Citation
<1>2. CASE item \in Citation
  <2>1. item.home # None
    BY <1>2, ConstantsAssumption DEF Citation
  <2> QED BY <1>2, <2>1 DEF Cite
<1> QED BY <1>1, <1>2 DEF Evidence

\* The evidence of a notebook is stored and known.
LEMMA EvidenceIsKnown ==
    ASSUME TypeOK, CiteInv, NEW n \in Notebook
    PROVE  /\ EvidenceOf(n) \subseteq Evidence
           /\ \A item \in EvidenceOf(n) : Stored(item.version) /\ Known(n, item.version)
<1> SUFFICES ASSUME NEW item \in EvidenceOf(n)
             PROVE  item \in Evidence /\ Stored(item.version) /\ Known(n, item.version)
  OBVIOUS
<1>1. CASE \E d \in (saved[n] \cap Document) \ Blank :
             item = [home |-> None, at |-> 0, version |-> <<d, latest[d]>>]
  <2> PICK d \in (saved[n] \cap Document) \ Blank :
             item = [home |-> None, at |-> 0, version |-> <<d, latest[d]>>]
    BY <1>1
  <2>1. latest[d] \in 1..MaxVersions /\ latest[d] \in 1..latest[d]
    BY ConstantsAssumption DEF TypeOK
  <2> QED BY <2>1 DEF Evidence, Uncited, Version, Stored, Known
<1>2. CASE \E i \in 1..Len(entries[n]) : item \in entries[n][i].cites
  <2> PICK i \in 1..Len(entries[n]) : item \in entries[n][i].cites
    BY <1>2
  <2>1. entries[n][i] \in Entry
    BY DEF TypeOK
  <2> QED BY <2>1 DEF Entry, Evidence, CiteInv, Known
<1> QED BY <1>1, <1>2 DEF EvidenceOf

\* The citations of some of the entries.
LEMMA CitesOfType ==
    ASSUME TypeOK, NEW n \in Notebook
    PROVE  CitesOf(n, Len(entries[n])) \in SUBSET Citation
<1>1. \A i \in 1..Len(entries[n]) : entries[n][i] \in Entry
  BY DEF TypeOK
<1> QED BY <1>1 DEF CitesOf, Entry

-----------------------------------------------------------------------------
(* Type correctness.                                                       *)

\* What a request becomes when it is done.
LEMMA DoneType ==
    ASSUME TypeOK, NEW r \in Request, Done(r)
    PROVE  /\ pc' \in [Request -> Phase]
           /\ at' \in [Request -> Notebook \cup {None}]
           /\ job' \in [Request -> [kind : Kind, cites : SUBSET Evidence,
                                    read : SUBSET Evidence]]
           /\ position' \in [Request -> Nat]
           /\ export' \in [Request -> [entries : Nat, cites : SUBSET Citation]]
<1> USE DEF TypeOK, Done
<1>1. pc' \in [Request -> Phase]
  BY DEF Goto, Phase
<1>2. NoJob \in [kind : Kind, cites : SUBSET Evidence, read : SUBSET Evidence]
  BY DEF NoJob, Kind
<1>3. job' \in [Request -> [kind : Kind, cites : SUBSET Evidence,
                            read : SUBSET Evidence]]
  BY <1>2
<1>4. NoExport \in [entries : Nat, cites : SUBSET Citation]
  BY DEF NoExport
<1>5. export' \in [Request -> [entries : Nat, cites : SUBSET Citation]]
  BY <1>4
<1> QED BY <1>1, <1>3, <1>5

\* The types of a request that starts.
LEMMA StartType ==
    ASSUME TypeOK, NEW r \in Request, NEW n \in Notebook,
           NEW entry \in [kind : Kind, cites : SUBSET Evidence, read : SUBSET Evidence],
           Start(r, n, entry),
           NEW phase \in Phase, Goto(r, phase)
    PROVE  TypeOK'
<1> USE DEF TypeOK, Start, tables
<1>1. pc' \in [Request -> Phase]
  BY DEF Goto
<1>2. at' \in [Request -> Notebook \cup {None}]
  OBVIOUS
<1>3. job' \in [Request -> [kind : Kind, cites : SUBSET Evidence,
                            read : SUBSET Evidence]]
  OBVIOUS
<1> QED BY <1>1, <1>2, <1>3

\* The types of a request that goes on to store what it cites, or is refused.
LEMMA EnterType ==
    ASSUME TypeOK, NEW r \in Request, NEW cited \in SUBSET Evidence, Enter(r, cited),
           UNCHANGED <<member, created, tables, lock>>
    PROVE  TypeOK'
<1> USE DEF TypeOK, tables
<1>1. CASE Admitted(at[r])
  <2> DEFINE new == [kind |-> job[r].kind, cites |-> cited, read |-> job[r].read]
  <2>a. new \in [kind : Kind, cites : SUBSET Evidence, read : SUBSET Evidence]
    OBVIOUS
  <2>b. job' = [job EXCEPT ![r] = new]
    BY <1>1 DEF Enter
  <2>1. job' \in [Request -> [kind : Kind, cites : SUBSET Evidence,
                              read : SUBSET Evidence]]
    <3> HIDE DEF new
    <3> QED BY <2>a, <2>b
  <2>2. pc' \in [Request -> Phase]
    BY <1>1 DEF Enter, Goto, Phase
  <2> QED BY <1>1, <2>1, <2>2 DEF Enter
<1>2. CASE ~ Admitted(at[r])
  BY <1>2, DoneType DEF Enter
<1> QED BY <1>1, <1>2

\* Every step keeps the types.
LEMMA TypeStep == IInv /\ [Next]_vars => TypeOK'
<1> SUFFICES ASSUME IInv, [Next]_vars PROVE TypeOK'
  OBVIOUS
<1> USE DEF IInv
<1>1. ASSUME NEW d \in Document, NewVersion(d) PROVE TypeOK'
  BY <1>1, ConstantsAssumption DEF NewVersion, TypeOK, session
<1>2. ASSUME NEW b \in BOOLEAN, SetMember(b) PROVE TypeOK'
  BY <1>2 DEF SetMember, TypeOK, tables, session
<1>3. ASSUME NEW n \in Notebook, Create(n) PROVE TypeOK'
  BY <1>3 DEF Create, TypeOK, tables, session
<1>4. ASSUME NEW n \in Notebook, NEW item \in Document \cup Search, Save(n, item)
      PROVE TypeOK'
  BY <1>4 DEF Save, TypeOK, session
<1>5. ASSUME NEW r \in Request, NEW n \in Notebook, AddNote(r, n) PROVE TypeOK'
  <2>1. NoJob \in [kind : Kind, cites : SUBSET Evidence, read : SUBSET Evidence]
    BY DEF NoJob, Kind
  <2> QED BY <1>5, <2>1, StartType DEF AddNote, Phase
<1>6. ASSUME NEW r \in Request, NEW n \in Notebook, NEW d \in Document,
             NEW v \in 1..MaxVersions, AddHighlight(r, n, d, v)
      PROVE TypeOK'
  <2> DEFINE passage == {[home |-> None, at |-> 0, version |-> <<d, v>>]}
             entry == [kind |-> "highlight", cites |-> passage, read |-> passage]
  <2>1. passage \in SUBSET Evidence
    BY DEF Evidence, Uncited, Version
  <2>2. entry \in [kind : Kind, cites : SUBSET Evidence, read : SUBSET Evidence]
    BY <2>1 DEF Kind
  <2>3. Start(r, n, entry) /\ Goto(r, "waiting")
    BY <1>6 DEF AddHighlight
  <2> HIDE DEF entry
  <2> QED BY <2>2, <2>3, StartType DEF Phase
<1>7. ASSUME NEW r \in Request, NEW n \in Notebook, NEW kind \in Generated,
             Generate(r, n, kind)
      PROVE TypeOK'
  <2> DEFINE entry == [kind |-> kind, cites |-> {}, read |-> EvidenceOf(n)]
  <2>1. entry \in [kind : Kind, cites : SUBSET Evidence, read : SUBSET Evidence]
    BY EvidenceIsKnown DEF Kind
  <2>2. Start(r, n, entry) /\ Goto(r, "drafting")
    BY <1>7 DEF Generate
  <2> HIDE DEF entry
  <2> QED BY <2>1, <2>2, StartType DEF Phase
<1>8. ASSUME NEW r \in Request, NEW n \in Notebook, List(r, n) PROVE TypeOK'
  <2>1. Len(entries[n]) \in Nat
    BY DEF TypeOK
  <2>2. export' \in [Request -> [entries : Nat, cites : SUBSET Citation]]
    BY <1>8, <2>1 DEF List, TypeOK
  <2>3. pc' \in [Request -> Phase] /\ at' \in [Request -> Notebook \cup {None}]
    BY <1>8 DEF List, Goto, Phase, TypeOK
  <2> QED BY <1>8, <2>2, <2>3 DEF List, TypeOK, tables
<1>9. ASSUME NEW r \in Request, Lock(r) PROVE TypeOK'
  <2>1. at[r] \in Notebook
    BY <1>9 DEF Lock, LockInv
  <2>2. NextPosition(at[r]) \in Nat
    BY <2>1, NextPositionIsLength DEF TypeOK
  <2>3. pc' \in [Request -> Phase]
    BY <1>9 DEF Lock, Goto, Phase, TypeOK
  <2> QED BY <1>9, <2>1, <2>2, <2>3 DEF Lock, TypeOK, tables
<1>10. ASSUME NEW r \in Request, Insert(r) PROVE TypeOK'
  <2> DEFINE n == at[r]
             new == [position |-> position[r], kind |-> job[r].kind,
                     cites |-> {Cite(n, position[r], item) : item \in job[r].cites}]
  <2>1. n \in Notebook
    BY <1>10 DEF Insert, LockInv
  <2>2. position[r] \in Nat \ {0}
    BY <1>10, <2>1 DEF Insert, PositionStaysFree, TypeOK
  <2>3. new \in Entry
    BY <2>1, <2>2, CiteType DEF TypeOK, Entry
  <2>4. entries' = [entries EXCEPT ![n] = Append(@, new)]
    BY <1>10 DEF Insert
  <2>5. entries' \in [Notebook -> Seq(Entry)]
    <3> HIDE DEF new
    <3> QED BY <2>1, <2>3, <2>4 DEF TypeOK
  <2>6. lock' \in [Notebook -> Request \cup {None}]
    BY <1>10 DEF Insert, TypeOK
  <2> QED BY <1>10, <2>5, <2>6, DoneType DEF Insert, TypeOK
<1>11. ASSUME NEW r \in Request, Abort(r) PROVE TypeOK'
  <2>1. lock' \in [Notebook -> Request \cup {None}]
    BY <1>11 DEF Abort, TypeOK
  <2> QED BY <1>11, <2>1, DoneType DEF Abort, TypeOK, tables
<1>12. ASSUME NEW r \in Request, NEW cited \in SUBSET Citable(r), DraftSummary(r, cited)
       PROVE TypeOK'
  <2>1. cited \in SUBSET Evidence
    BY DEF Citable, TypeOK
  <2> QED BY <1>12, <2>1, EnterType DEF DraftSummary
<1>13. ASSUME NEW r \in Request, RejectDraft(r) PROVE TypeOK'
  BY <1>13, DoneType DEF RejectDraft, TypeOK, tables
<1>14. ASSUME NEW r \in Request, NEW events \in SUBSET DatedEvidence(r),
              DraftTimeline(r, events)
       PROVE TypeOK'
  <2>1. events \in SUBSET Evidence
    BY DEF DatedEvidence, TypeOK
  <2>2. CASE events = {}
    BY <1>14, <2>2, DoneType DEF DraftTimeline, TypeOK, tables
  <2>3. CASE events # {}
    BY <1>14, <2>1, <2>3, EnterType DEF DraftTimeline
  <2> QED BY <2>2, <2>3
<1>15. ASSUME NEW r \in Request, ListReferences(r) PROVE TypeOK'
  <2>1. at[r] \in Notebook
    BY <1>15 DEF ListReferences, LockInv
  <2>2. References(r) \in [entries : Nat, cites : SUBSET Citation]
    BY <2>1, CitesOfType DEF References, TypeOK
  <2>3. pc' \in [Request -> Phase]
    BY <1>15 DEF ListReferences, Goto, Phase, TypeOK
  <2> QED BY <1>15, <2>2, <2>3 DEF ListReferences, TypeOK, tables
<1>16. ASSUME NEW r \in Request, Answer(r) PROVE TypeOK'
  BY <1>16, DoneType DEF Answer, TypeOK, tables
<1>17. CASE UNCHANGED vars
  BY <1>17 DEF vars, tables, session, TypeOK
<1> QED
  BY <1>1, <1>2, <1>3, <1>4, <1>5, <1>6, <1>7, <1>8, <1>9, <1>10, <1>11, <1>12,
     <1>13, <1>14, <1>15, <1>16, <1>17 DEF Next, Begin, Continue

-----------------------------------------------------------------------------
(* The shape of the steps.                                                 *)

\* The steps of request r, and what the others see of them.
Step(r) == Begin(r) \/ Continue(r) \/ Abort(r) \/ RejectDraft(r)

Unmoved(s) ==
    /\ pc'[s] = pc[s] /\ at'[s] = at[s] /\ job'[s] = job[s]
    /\ position'[s] = position[s] /\ export'[s] = export[s]

\* A step of r that neither takes nor gives up a lock.
Calm(r) ==
    /\ UNCHANGED <<tables, lock>>
    /\ pc[r] # "inserting" /\ pc'[r] # "inserting"
    /\ pc'[r] # "idle" => at'[r] \in Notebook

\* Nothing but a version, a saved document or a switched account.
World == UNCHANGED <<entries, lock, session>>

\* The tables only grow.
Grown ==
    /\ \A d \in Document : latest[d] <= latest'[d]
    /\ \A n \in Notebook :
         /\ saved[n] \subseteq saved'[n]
         /\ Len(entries[n]) <= Len(entries'[n])
         /\ \A i \in 1..Len(entries[n]) : entries'[n][i] = entries[n][i]

\* A request that is done is idle, and the others are where they were.
LEMMA DoneShape ==
    ASSUME TypeOK, NEW r \in Request, Done(r)
    PROVE  pc'[r] = "idle" /\ \A s \in Request \ {r} : Unmoved(s)
BY DEF TypeOK, Done, Goto, Unmoved

\* The same of a request that starts.
LEMMA StartShape ==
    ASSUME TypeOK, NEW r \in Request, NEW n \in Notebook, NEW entry, NEW phase,
           Start(r, n, entry), Goto(r, phase)
    PROVE  /\ pc[r] = "idle" /\ UNCHANGED <<tables, lock>>
           /\ pc'[r] = phase /\ at'[r] = n /\ job'[r] = entry
           /\ \A s \in Request \ {r} : Unmoved(s)
BY DEF TypeOK, Start, Goto, Unmoved

\* The same of a request with a draft.
LEMMA EnterShape ==
    ASSUME TypeOK, NEW r \in Request, NEW cited, Enter(r, cited)
    PROVE  /\ \A s \in Request \ {r} : Unmoved(s)
           /\ \/ pc'[r] = "idle"
              \/ /\ pc'[r] = "waiting" /\ at'[r] = at[r]
                 /\ job'[r] = [kind |-> job[r].kind, cites |-> cited,
                               read |-> job[r].read]
<1>1. CASE Admitted(at[r])
  <2> DEFINE new == [kind |-> job[r].kind, cites |-> cited, read |-> job[r].read]
  <2>1. job' = [job EXCEPT ![r] = new] /\ pc' = [pc EXCEPT ![r] = "waiting"]
        /\ UNCHANGED <<at, position, export>>
    BY <1>1 DEF Enter, Goto
  <2> HIDE DEF new
  <2>2. pc'[r] = "waiting" /\ at'[r] = at[r] /\ job'[r] = new
    BY <2>1 DEF TypeOK
  <2>3. \A s \in Request \ {r} : Unmoved(s)
    BY <2>1 DEF TypeOK, Unmoved
  <2> QED BY <2>2, <2>3 DEF new
<1>2. CASE ~ Admitted(at[r])
  BY <1>2, DoneShape DEF Enter
<1> QED BY <1>1, <1>2

\* Of all steps only Lock, Insert and Abort deal with locks, and only one
\* request moves.
LEMMA StepShape ==
    ASSUME IInv, NEW r \in Request, Step(r)
    PROVE  /\ Calm(r) \/ Lock(r) \/ Insert(r) \/ Abort(r)
           /\ \A s \in Request \ {r} : Unmoved(s)
<1> USE DEF IInv, Calm
<1>1. ASSUME NEW n \in Notebook, AddNote(r, n)
      PROVE  Calm(r) /\ \A s \in Request \ {r} : Unmoved(s)
  BY <1>1, StartShape DEF AddNote
<1>2. ASSUME NEW n \in Notebook, NEW d \in Document, NEW v \in 1..MaxVersions,
             AddHighlight(r, n, d, v)
      PROVE  Calm(r) /\ \A s \in Request \ {r} : Unmoved(s)
  BY <1>2, StartShape DEF AddHighlight
<1>3. ASSUME NEW n \in Notebook, NEW kind \in Generated, Generate(r, n, kind)
      PROVE  Calm(r) /\ \A s \in Request \ {r} : Unmoved(s)
  BY <1>3, StartShape DEF Generate
<1>4. ASSUME NEW n \in Notebook, List(r, n)
      PROVE  Calm(r) /\ \A s \in Request \ {r} : Unmoved(s)
  <2>1. pc' = [pc EXCEPT ![r] = "listing"] /\ at' = [at EXCEPT ![r] = n]
    BY <1>4 DEF List, Goto
  <2>2. Calm(r)
    BY <1>4, <2>1 DEF List, TypeOK
  <2>3. \A s \in Request \ {r} : Unmoved(s)
    BY <1>4, <2>1 DEF List, TypeOK, Unmoved
  <2> QED BY <2>2, <2>3
<1>5. ASSUME Lock(r) PROVE \A s \in Request \ {r} : Unmoved(s)
  BY <1>5 DEF Lock, Goto, TypeOK, Unmoved
<1>6. ASSUME Insert(r) PROVE \A s \in Request \ {r} : Unmoved(s)
  BY <1>6, DoneShape DEF Insert
<1>7. ASSUME Abort(r) PROVE \A s \in Request \ {r} : Unmoved(s)
  BY <1>7, DoneShape DEF Abort
<1>8. ASSUME NEW cited \in SUBSET Citable(r), DraftSummary(r, cited)
      PROVE  Calm(r) /\ \A s \in Request \ {r} : Unmoved(s)
  BY <1>8, EnterShape DEF DraftSummary, LockInv
<1>9. ASSUME RejectDraft(r)
      PROVE  Calm(r) /\ \A s \in Request \ {r} : Unmoved(s)
  BY <1>9, DoneShape DEF RejectDraft
<1>10. ASSUME NEW events \in SUBSET DatedEvidence(r), DraftTimeline(r, events)
       PROVE  Calm(r) /\ \A s \in Request \ {r} : Unmoved(s)
  BY <1>10, EnterShape, DoneShape DEF DraftTimeline, LockInv
<1>11. ASSUME ListReferences(r)
       PROVE  Calm(r) /\ \A s \in Request \ {r} : Unmoved(s)
  <2>1. pc' = [pc EXCEPT ![r] = "exported"] /\ at[r] \in Notebook
    BY <1>11 DEF ListReferences, Goto, LockInv
  <2>2. Calm(r)
    BY <1>11, <2>1 DEF ListReferences, TypeOK
  <2>3. \A s \in Request \ {r} : Unmoved(s)
    BY <1>11, <2>1 DEF ListReferences, TypeOK, Unmoved
  <2> QED BY <2>2, <2>3
<1>12. ASSUME Answer(r)
       PROVE  Calm(r) /\ \A s \in Request \ {r} : Unmoved(s)
  BY <1>12, DoneShape DEF Answer
<1> QED
  BY <1>1, <1>2, <1>3, <1>4, <1>5, <1>6, <1>7, <1>8, <1>9, <1>10, <1>11, <1>12
  DEF Step, Begin, Continue

\* Every step is one of a request, or none that the requests notice.
LEMMA NextShape == [Next]_vars => World \/ \E r \in Request : Step(r)
<1>1. ASSUME NEW d \in Document, NewVersion(d) PROVE World
  BY <1>1 DEF NewVersion, World
<1>2. ASSUME NEW b \in BOOLEAN, SetMember(b) PROVE World
  BY <1>2 DEF SetMember, World, tables
<1>3. ASSUME NEW n \in Notebook, Create(n) PROVE World
  BY <1>3 DEF Create, World, tables
<1>4. ASSUME NEW n \in Notebook, NEW item \in Document \cup Search, Save(n, item)
      PROVE  World
  BY <1>4 DEF Save, World
<1>5. CASE UNCHANGED vars
  BY <1>5 DEF vars, tables, World
<1> QED BY <1>1, <1>2, <1>3, <1>4, <1>5 DEF Next, Step

\* The entry that Insert appends.
LEMMA InsertShape ==
    ASSUME IInv, NEW r \in Request, Insert(r)
    PROVE  LET n == at[r] IN
           /\ n \in Notebook
           /\ entries \in [Notebook -> Seq(Entry)] /\ entries' \in [Notebook -> Seq(Entry)]
           /\ Len(entries'[n]) = Len(entries[n]) + 1
           /\ \A i \in 1..Len(entries[n]) : entries'[n][i] = entries[n][i]
           /\ entries'[n][Len(entries[n]) + 1] =
                [position |-> position[r], kind |-> job[r].kind,
                 cites |-> {Cite(n, position[r], item) : item \in job[r].cites}]
           /\ position[r] = 1 + Len(entries[n])
           /\ \A m \in Notebook \ {n} : entries'[m] = entries[m]
<1> USE DEF IInv
<1> DEFINE n == at[r]
           new == [position |-> position[r], kind |-> job[r].kind,
                   cites |-> {Cite(n, position[r], item) : item \in job[r].cites}]
<1>1. n \in Notebook /\ entries[n] \in Seq(Entry)
  BY DEF Insert, LockInv, TypeOK
<1>2. position[r] \in Nat \ {0} /\ position[r] = 1 + Len(entries[n])
  BY <1>1 DEF Insert, PositionStaysFree
<1>3. new \in Entry
  BY <1>1, <1>2, CiteType DEF TypeOK, Entry
<1>4. entries' = [entries EXCEPT ![n] = Append(@, new)]
  BY DEF Insert
<1> HIDE DEF n, new
<1>5. entries'[n] = Append(entries[n], new)
      /\ \A m \in Notebook \ {n} : entries'[m] = entries[m]
  BY <1>1, <1>4 DEF TypeOK
<1>6. entries' \in [Notebook -> Seq(Entry)]
  BY <1>1, <1>3, <1>4 DEF TypeOK
<1>7. /\ Len(entries'[n]) = Len(entries[n]) + 1
      /\ \A i \in 1..Len(entries[n]) : entries'[n][i] = entries[n][i]
      /\ entries'[n][Len(entries[n]) + 1] = new
  BY <1>1, <1>3, <1>5
<1> QED BY <1>1, <1>2, <1>5, <1>6, <1>7 DEF n, new, TypeOK

\* Nothing is ever taken out of the tables.
LEMMA Grow == IInv /\ [Next]_vars => Grown
<1> SUFFICES ASSUME IInv, [Next]_vars PROVE Grown
  OBVIOUS
<1> USE DEF IInv, Grown
<1>1. ASSUME NEW d \in Document, NewVersion(d) PROVE Grown
  BY <1>1, ConstantsAssumption DEF NewVersion, TypeOK
<1>2. ASSUME NEW n \in Notebook, NEW item \in Document \cup Search, Save(n, item)
      PROVE  Grown
  BY <1>2, ConstantsAssumption DEF Save, TypeOK
<1>3. CASE UNCHANGED tables
  BY <1>3, ConstantsAssumption DEF tables, TypeOK
<1>4. ASSUME NEW r \in Request, Insert(r) PROVE Grown
  <2> DEFINE n == at[r]
  <2>0. /\ n \in Notebook
        /\ Len(entries'[n]) = Len(entries[n]) + 1
        /\ \A i \in 1..Len(entries[n]) : entries'[n][i] = entries[n][i]
        /\ \A m \in Notebook \ {n} : entries'[m] = entries[m]
    <3> HIDE DEF IInv
    <3> QED BY <1>4, InsertShape, Zenon
  <2>1. \A m \in Notebook :
          /\ Len(entries[m]) <= Len(entries'[m])
          /\ \A i \in 1..Len(entries[m]) : entries'[m][i] = entries[m][i]
    <3> HIDE DEF n
    <3> SUFFICES ASSUME NEW m \in Notebook
                 PROVE  /\ Len(entries[m]) <= Len(entries'[m])
                        /\ \A i \in 1..Len(entries[m]) : entries'[m][i] = entries[m][i]
      OBVIOUS
    <3>1. Len(entries[m]) \in Nat
      BY DEF TypeOK
    <3>2. CASE m = n
      BY <2>0, <3>1, <3>2
    <3>3. CASE m # n
      BY <2>0, <3>1, <3>3
    <3> QED BY <3>2, <3>3
  <2> QED BY <1>4, <2>1, ConstantsAssumption DEF Insert, TypeOK
<1>5. ASSUME NEW r \in Request, Step(r) PROVE Grown
  BY <1>3, <1>4, <1>5, StepShape DEF Calm, Lock, Abort
<1>6. ASSUME NEW b \in BOOLEAN, SetMember(b) PROVE Grown
  BY <1>3, <1>6 DEF SetMember
<1>7. ASSUME NEW n \in Notebook, Create(n) PROVE Grown
  BY <1>3, <1>7 DEF Create
<1>8. CASE UNCHANGED vars
  BY <1>3, <1>8 DEF vars
<1> HIDE DEF IInv, Grown
<1> QED BY <1>1, <1>2, <1>5, <1>6, <1>7, <1>8 DEF Next, Step

-----------------------------------------------------------------------------
(* Locks and positions.                                                    *)

\* A lock is held by the request that inserts, through every step.
LEMMA LockStep == IInv /\ [Next]_vars => LockInv'
<1> SUFFICES ASSUME IInv, [Next]_vars PROVE LockInv'
  OBVIOUS
<1> USE DEF IInv, LockInv
<1>1. CASE World
  BY <1>1 DEF World, session
<1>2. ASSUME NEW r \in Request, Calm(r), \A s \in Request \ {r} : Unmoved(s)
      PROVE  LockInv'
  <2>1. lock' = lock
    BY <1>2 DEF Calm
  <2>2. ASSUME NEW s \in Request, pc'[s] # "idle"
        PROVE  at'[s] \in Notebook /\ (pc'[s] = "inserting" => lock'[at'[s]] = s)
    BY <1>2, <2>1, <2>2 DEF Calm, Unmoved
  <2>3. ASSUME NEW m \in Notebook, lock'[m] # None
        PROVE  pc'[lock'[m]] = "inserting" /\ at'[lock'[m]] = m
    <3>1. lock[m] \in Request \ {r}
      BY <1>2, <2>1, <2>3 DEF Calm, TypeOK
    <3> QED BY <1>2, <2>1, <2>3, <3>1 DEF Unmoved
  <2> QED BY <2>2, <2>3
<1>3. ASSUME NEW r \in Request, Lock(r), \A s \in Request \ {r} : Unmoved(s)
      PROVE  LockInv'
  <2> DEFINE n == at[r]
  <2>1. n \in Notebook /\ lock[n] = None
    BY <1>3 DEF Lock, Locked
  <2>2. lock' = [lock EXCEPT ![n] = r] /\ pc'[r] = "inserting" /\ at'[r] = n
    BY <1>3 DEF Lock, Goto, TypeOK
  <2>3. ASSUME NEW s \in Request, pc'[s] = "inserting" PROVE lock'[at'[s]] = s
    <3>1. CASE s = r
      BY <2>1, <2>2, <3>1 DEF TypeOK
    <3>2. CASE s # r
      <4>1. pc[s] = "inserting" /\ at'[s] = at[s]
        BY <1>3, <2>3, <3>2 DEF Unmoved
      <4>2. at[s] \in Notebook /\ lock[at[s]] = s /\ s # None
        BY <4>1, ConstantsAssumption
      <4> QED BY <2>1, <2>2, <4>1, <4>2 DEF TypeOK
    <3> QED BY <3>1, <3>2
  <2>4. ASSUME NEW s \in Request, pc'[s] # "idle" PROVE at'[s] \in Notebook
    BY <1>3, <2>1, <2>2, <2>4 DEF Unmoved
  <2>5. ASSUME NEW m \in Notebook, lock'[m] # None
        PROVE  pc'[lock'[m]] = "inserting" /\ at'[lock'[m]] = m
    <3>1. CASE m = n
      BY <2>1, <2>2, <3>1 DEF TypeOK
    <3>2. CASE m # n
      <4>1. lock'[m] = lock[m] /\ lock[m] \in Request /\ lock[m] # r
        BY <1>3, <2>1, <2>2, <2>5, <3>2 DEF TypeOK
      <4> QED BY <1>3, <2>5, <4>1 DEF Unmoved
    <3> QED BY <3>1, <3>2
  <2> QED BY <2>3, <2>4, <2>5
<1>4. ASSUME NEW r \in Request, Insert(r) \/ Abort(r),
             \A s \in Request \ {r} : Unmoved(s)
      PROVE  LockInv'
  <2>1. pc'[r] = "idle"
    BY <1>4, DoneShape DEF Insert, Abort
  <2>2. \A m \in Notebook :
          lock'[m] = IF lock[m] = r THEN None ELSE lock[m]
    BY <1>4 DEF Insert, Abort, TypeOK
  <2>3. ASSUME NEW s \in Request, pc'[s] # "idle"
        PROVE  at'[s] \in Notebook /\ (pc'[s] = "inserting" => lock'[at'[s]] = s)
    BY <1>4, <2>1, <2>2, <2>3 DEF Unmoved
  <2>4. ASSUME NEW m \in Notebook, lock'[m] # None
        PROVE  pc'[lock'[m]] = "inserting" /\ at'[lock'[m]] = m
    <3>1. lock'[m] = lock[m] /\ lock[m] \in Request \ {r}
      BY <2>2, <2>4 DEF TypeOK
    <3> QED BY <1>4, <2>4, <3>1 DEF Unmoved
  <2> QED BY <2>3, <2>4
<1> HIDE DEF IInv, LockInv
<1>5. ASSUME NEW r \in Request, Step(r) PROVE LockInv'
  BY <1>2, <1>3, <1>4, <1>5, StepShape
<1> QED BY <1>1, <1>5, NextShape

\* Nobody else appends between the position and the entry.
LEMMA PositionStep ==
    IInv /\ [Next]_vars => PositionsAreDense' /\ PositionStaysFree'
<1> SUFFICES ASSUME IInv, [Next]_vars
             PROVE  PositionsAreDense' /\ PositionStaysFree'
  OBVIOUS
<1> USE DEF IInv, PositionsAreDense, PositionStaysFree
<1>1. CASE World
  BY <1>1 DEF World, session
<1>2. ASSUME NEW r \in Request, Calm(r) \/ Abort(r),
             \A s \in Request \ {r} : Unmoved(s)
      PROVE  PositionsAreDense' /\ PositionStaysFree'
  <2>1. entries' = entries /\ pc'[r] # "inserting"
    BY <1>2, DoneShape DEF Calm, Abort, tables
  <2> QED BY <1>2, <2>1 DEF Unmoved
<1>3. ASSUME NEW r \in Request, Lock(r), \A s \in Request \ {r} : Unmoved(s)
      PROVE  PositionsAreDense' /\ PositionStaysFree'
  <2>1. at[r] \in Notebook
    BY <1>3 DEF Lock, LockInv
  <2>2. position'[r] = 1 + Len(entries[at[r]])
    <3>1. position'[r] = NextPosition(at[r])
      BY <1>3 DEF Lock, TypeOK
    <3> QED BY <2>1, <3>1, NextPositionIsLength
  <2>3. entries' = entries /\ at' = at
    BY <1>3 DEF Lock, tables
  <2> QED BY <1>3, <2>2, <2>3 DEF Unmoved
<1>4. ASSUME NEW r \in Request, Insert(r), \A s \in Request \ {r} : Unmoved(s)
      PROVE  PositionsAreDense' /\ PositionStaysFree'
  <2> DEFINE n == at[r]
  <2>1. /\ n \in Notebook
        /\ Len(entries'[n]) = Len(entries[n]) + 1
        /\ \A i \in 1..Len(entries[n]) : entries'[n][i] = entries[n][i]
        /\ entries'[n][Len(entries[n]) + 1].position = 1 + Len(entries[n])
        /\ \A m \in Notebook \ {n} : entries'[m] = entries[m]
    <3> HIDE DEF IInv
    <3>1. /\ n \in Notebook
          /\ Len(entries'[n]) = Len(entries[n]) + 1
          /\ \A i \in 1..Len(entries[n]) : entries'[n][i] = entries[n][i]
          /\ entries'[n][Len(entries[n]) + 1] =
               [position |-> position[r], kind |-> job[r].kind,
                cites |-> {Cite(n, position[r], item) : item \in job[r].cites}]
          /\ position[r] = 1 + Len(entries[n])
          /\ \A m \in Notebook \ {n} : entries'[m] = entries[m]
      BY <1>4, InsertShape, Zenon
    <3> HIDE DEF n
    <3> QED BY <3>1
  <2>2. PositionsAreDense'
    <3> HIDE DEF n
    <3> SUFFICES ASSUME NEW m \in Notebook, NEW i \in 1..Len(entries'[m])
                 PROVE  entries'[m][i].position = i
      OBVIOUS
    <3>1. Len(entries[m]) \in Nat
      BY DEF TypeOK
    <3>2. CASE m = n
      <4>1. i \in 1..Len(entries[n]) \/ i = Len(entries[n]) + 1
        BY <2>1, <3>1, <3>2
      <4>2. CASE i \in 1..Len(entries[n])
        BY <2>1, <3>2, <4>2
      <4>3. CASE i = Len(entries[n]) + 1
        BY <2>1, <3>1, <3>2, <4>3
      <4> QED BY <4>1, <4>2, <4>3
    <3>3. CASE m # n
      BY <2>1, <3>3
    <3> QED BY <3>2, <3>3
  <2>3. PositionStaysFree'
    <3> SUFFICES ASSUME NEW s \in Request, pc'[s] = "inserting"
                 PROVE  position'[s] = 1 + Len(entries'[at'[s]])
      OBVIOUS
    <3>1. s # r
      BY <1>4, DoneShape DEF Insert
    <3>2. pc[s] = "inserting" /\ position'[s] = position[s] /\ at'[s] = at[s]
      BY <1>4, <3>1 DEF Unmoved
    <3>3. at[s] \in Notebook \ {n}
      BY <1>4, <2>1, <3>1, <3>2 DEF LockInv, Insert
    <3> QED BY <2>1, <3>2, <3>3
  <2> QED BY <2>2, <2>3
<1> HIDE DEF IInv, PositionsAreDense, PositionStaysFree
<1>5. ASSUME NEW r \in Request, Step(r)
      PROVE  PositionsAreDense' /\ PositionStaysFree'
  BY <1>2, <1>3, <1>4, <1>5, StepShape
<1> QED BY <1>1, <1>5, NextShape

-----------------------------------------------------------------------------
(* What requests have read and what entries cite.                          *)

LEMMA EvidenceVersion ==
    ASSUME NEW item \in Evidence PROVE item.version \in Version
BY DEF Evidence, Citation, Uncited

LEMMA StoredGrows ==
    ASSUME TypeOK, TypeOK', Grown, NEW v \in Version, Stored(v)
    PROVE  Stored(v)'
<1>1. v[1] \in Document /\ latest[v[1]] <= latest'[v[1]]
  BY DEF Version, Grown
<1>2. latest[v[1]] \in Nat /\ latest'[v[1]] \in Nat /\ v[2] \in Nat
  BY <1>1, ConstantsAssumption DEF TypeOK, Version
<1> QED BY <1>1, <1>2 DEF Stored

\* What a request has read or is going to cite stays right while others move.
LEMMA FitsKept ==
    ASSUME IInv, TypeOK', Grown, NEW r \in Request, Unmoved(r)
    PROVE  Fits(r)'
<1> USE DEF Unmoved
<1>a. Fits(r) /\ TypeOK /\ (pc[r] # "idle" => at[r] \in Notebook)
  BY DEF IInv, LockInv
<1>b. job[r].read \subseteq Evidence /\ job[r].cites \subseteq Evidence
  BY <1>a DEF TypeOK
<1>1. ReadFits(r)'
  <2> SUFFICES ASSUME pc[r] \in {"drafting", "waiting", "inserting"},
                      job[r].kind \in Generated, NEW item \in job[r].read
               PROVE  Stored(item.version)' /\ Known(at[r], item.version)'
    BY DEF ReadFits, Stored, Known
  <2>1. Stored(item.version) /\ Known(at[r], item.version)
    BY <1>a DEF Fits, ReadFits
  <2>2. Stored(item.version)'
    BY <1>a, <1>b, <2>1, EvidenceVersion, StoredGrows
  <2>3. Known(at[r], item.version)'
    <3>1. CASE item.version[1] \in saved[at[r]]
      BY <1>a, <3>1 DEF Grown, Known
    <3>2. CASE \E i \in 1..Len(entries[at[r]]) : \E c \in entries[at[r]][i].cites :
                 c.version = item.version
      <4>1. PICK i \in 1..Len(entries[at[r]]) : \E c \in entries[at[r]][i].cites :
                 c.version = item.version
        BY <3>2
      <4>2. Len(entries[at[r]]) \in Nat /\ Len(entries'[at[r]]) \in Nat
        BY <1>a DEF TypeOK
      <4>3. i \in 1..Len(entries'[at[r]]) /\ entries'[at[r]][i] = entries[at[r]][i]
        BY <1>a, <4>2 DEF Grown
      <4> QED BY <4>1, <4>3 DEF Known
    <3> QED BY <2>1, <3>1, <3>2 DEF Known
  <2> QED BY <2>2, <2>3
<1>2. JobFits(r)'
  <2>1. \A item \in job[r].cites : Stored(item.version) => Stored(item.version)'
    BY <1>a, <1>b, EvidenceVersion, StoredGrows
  <2> QED BY <1>a, <2>1 DEF Fits, JobFits, Stored
<1>3. ExportFits(r)'
  <2> SUFFICES ASSUME pc[r] \in {"listing", "exported"} PROVE ExportFits(r)'
    BY DEF ExportFits
  <2>1. /\ export[r].entries \in Nat /\ Len(entries[at[r]]) \in Nat
        /\ Len(entries'[at[r]]) \in Nat
    BY <1>a DEF TypeOK
  <2>2. export[r].entries <= Len(entries[at[r]])
    BY <1>a DEF Fits, ExportFits
  <2>3. \A i \in 1..export[r].entries : entries'[at[r]][i] = entries[at[r]][i]
    BY <1>a, <2>1, <2>2 DEF Grown
  <2> QED BY <1>a, <2>1, <2>2, <2>3 DEF Fits, ExportFits, Grown
<1> QED BY <1>1, <1>2, <1>3 DEF Fits


\* A request that is done promises nothing any more.
LEMMA IdleFits == ASSUME NEW r \in Request, pc'[r] = "idle" PROVE Fits(r)'
BY DEF Fits, ReadFits, JobFits, ExportFits

\* A request that has read the evidence of its notebook and goes on with a part
\* of it.
LEMMA EnterFits ==
    ASSUME IInv, NEW r \in Request, pc[r] = "drafting", job[r].kind \in Generated,
           NEW cited \in SUBSET job[r].read, cited # {},
           job[r].kind = "timeline" =>
             \A s, t \in cited : s.version[1] = t.version[1] => s = t,
           Enter(r, cited), UNCHANGED <<member, created, tables, lock>>
    PROVE  Fits(r)'
<1>1. CASE pc'[r] = "idle"
  BY <1>1, IdleFits
<1>2. CASE pc'[r] # "idle"
  <2>1. pc'[r] = "waiting" /\ at'[r] = at[r]
        /\ job'[r] = [kind |-> job[r].kind, cites |-> cited, read |-> job[r].read]
    BY <1>2, EnterShape DEF IInv
  <2>2. job'[r].kind = job[r].kind /\ job'[r].cites = cited /\ job'[r].read = job[r].read
    BY <2>1
  <2>3. \A item \in job[r].read : Stored(item.version) /\ Known(at[r], item.version)
    BY DEF IInv, Fits, ReadFits
  <2>4. UNCHANGED <<latest, saved, entries>>
    BY DEF tables
  <2>5. ReadFits(r)'
    BY <2>1, <2>2, <2>3, <2>4 DEF ReadFits, Stored, Known
  <2>6. JobFits(r)'
    BY <2>1, <2>2, <2>3, <2>4 DEF JobFits, Stored, Generated
  <2> QED BY <2>1, <2>5, <2>6 DEF Fits, ExportFits
<1> QED BY <1>1, <1>2

\* The request that moves.
LEMMA FitsMoved ==
    ASSUME IInv, NEW r \in Request, Step(r)
    PROVE  Fits(r)'
<1> USE DEF IInv
<1>1. ASSUME NEW n \in Notebook, AddNote(r, n) PROVE Fits(r)'
  <2>1. pc'[r] = "waiting" /\ job'[r] = NoJob
    BY <1>1, StartShape DEF AddNote
  <2> QED BY <2>1 DEF NoJob, Generated, Fits, ReadFits, JobFits, ExportFits
<1>2. ASSUME NEW n \in Notebook, NEW d \in Document, NEW v \in 1..MaxVersions,
             AddHighlight(r, n, d, v)
      PROVE  Fits(r)'
  <2> DEFINE passage == {[home |-> None, at |-> 0, version |-> <<d, v>>]}
  <2>1. /\ pc'[r] = "waiting"
        /\ job'[r] = [kind |-> "highlight", cites |-> passage, read |-> passage]
    BY <1>2, StartShape DEF AddHighlight
  <2>2. latest' = latest /\ v \in 1..latest[d]
    BY <1>2, ConstantsAssumption DEF AddHighlight, Start, tables, TypeOK
  <2>3. \A item \in passage : Stored(item.version)'
    BY <2>2 DEF Stored
  <2>a. job'[r].kind = "highlight" /\ job'[r].cites = passage /\ passage # {}
    BY <2>1
  <2>4. JobFits(r)'
    <3> HIDE DEF passage
    <3> QED BY <2>1, <2>3, <2>a DEF JobFits, Stored, Generated
  <2> QED BY <2>1, <2>4 DEF Generated, Fits, ReadFits, ExportFits
<1>3. ASSUME NEW n \in Notebook, NEW kind \in Generated, Generate(r, n, kind)
      PROVE  Fits(r)'
  <2>1. /\ pc'[r] = "drafting" /\ at'[r] = n
        /\ job'[r] = [kind |-> kind, cites |-> {}, read |-> EvidenceOf(n)]
    BY <1>3, StartShape DEF Generate
  <2>2. UNCHANGED <<latest, saved, entries>>
    BY <1>3 DEF Generate, Start, tables
  <2>3. \A item \in EvidenceOf(n) : Stored(item.version) /\ Known(n, item.version)
    BY EvidenceIsKnown
  <2>4. job'[r].read = EvidenceOf(n)
    BY <2>1
  <2>5. ReadFits(r)'
    BY <2>1, <2>2, <2>3, <2>4 DEF ReadFits, Stored, Known
  <2> QED BY <2>1, <2>5 DEF Fits, JobFits, ExportFits
<1>4. ASSUME NEW n \in Notebook, List(r, n) PROVE Fits(r)'
  <2>1. pc'[r] = "listing" /\ at'[r] = n
    BY <1>4 DEF List, Goto, TypeOK
  <2>2. export'[r] = [entries |-> Len(entries[n]), cites |-> {}]
    BY <1>4 DEF List, TypeOK
  <2>3. Len(entries[n]) \in Nat /\ entries' = entries
    BY <1>4 DEF List, tables, TypeOK
  <2>4. export'[r].entries <= Len(entries'[at'[r]])
    BY <2>1, <2>2, <2>3
  <2> QED BY <2>1, <2>4 DEF Fits, ReadFits, JobFits, ExportFits
<1>5. ASSUME Lock(r) PROVE Fits(r)'
  <2>1. pc[r] = "waiting" /\ pc'[r] = "inserting"
    BY <1>5 DEF Lock, Goto, TypeOK
  <2>2. UNCHANGED <<latest, saved, entries, at, job>>
    BY <1>5 DEF Lock, tables
  <2>3. ReadFits(r)'
    BY <2>1, <2>2 DEF Fits, ReadFits, Stored, Known
  <2>4. JobFits(r)'
    BY <2>1, <2>2 DEF Fits, JobFits, Stored
  <2> QED BY <2>1, <2>3, <2>4 DEF Fits, ExportFits
<1>6. ASSUME Insert(r) PROVE Fits(r)'
  BY <1>6, DoneShape, IdleFits DEF Insert
<1>7. ASSUME Abort(r) PROVE Fits(r)'
  BY <1>7, DoneShape, IdleFits DEF Abort
<1>8. ASSUME NEW cited \in SUBSET Citable(r), DraftSummary(r, cited) PROVE Fits(r)'
  <2>1. job[r].kind = "summary" /\ cited \in SUBSET job[r].read
    BY <1>8 DEF DraftSummary, Citable
  <2> QED BY <1>8, <2>1, EnterFits DEF DraftSummary, Generated
<1>9. ASSUME RejectDraft(r) PROVE Fits(r)'
  BY <1>9, DoneShape, IdleFits DEF RejectDraft
<1>10. ASSUME NEW events \in SUBSET DatedEvidence(r), DraftTimeline(r, events)
       PROVE  Fits(r)'
  <2>1. CASE events = {}
    BY <1>10, <2>1, DoneShape, IdleFits DEF DraftTimeline
  <2>2. CASE events # {}
    <3>1. events \in SUBSET job[r].read
      BY DEF DatedEvidence
    <3>2. \A s, t \in events : s.version[1] = t.version[1] => s = t
      BY <1>10 DEF DraftTimeline, TimelineOf
    <3> QED BY <1>10, <2>2, <3>1, <3>2, EnterFits DEF DraftTimeline, Generated
  <2> QED BY <2>1, <2>2
<1>11. ASSUME ListReferences(r) PROVE Fits(r)'
  <2> DEFINE n == at[r]
  <2>1. n \in Notebook /\ pc[r] = "listing" /\ pc'[r] = "exported"
    BY <1>11 DEF ListReferences, Goto, LockInv, TypeOK
  <2>2. entries' = entries /\ at' = at
    BY <1>11 DEF ListReferences, tables
  <2>3. export'[r] = [entries |-> export[r].entries,
                      cites |-> CitesOf(n, Len(entries[n]))]
    BY <1>11 DEF ListReferences, References, TypeOK
  <2>4. /\ export[r].entries \in Nat /\ Len(entries[n]) \in Nat
        /\ export[r].entries <= Len(entries[n])
    BY <2>1 DEF TypeOK, Fits, ExportFits
  <2>5. /\ export'[r].entries = export[r].entries
        /\ export'[r].cites = CitesOf(n, Len(entries[n]))
    BY <2>3
  <2>6. \A i \in 1..Len(entries[n]) : entries[n][i].cites \subseteq CitesOf(n, Len(entries[n]))
    BY DEF CitesOf
  <2>7. ExportFits(r)'
    BY <2>1, <2>2, <2>4, <2>5, <2>6 DEF ExportFits
  <2> QED BY <2>1, <2>7 DEF Fits, ReadFits, JobFits
<1>12. ASSUME Answer(r) PROVE Fits(r)'
  BY <1>12, DoneShape, IdleFits DEF Answer
<1> QED
  BY <1>1, <1>2, <1>3, <1>4, <1>5, <1>6, <1>7, <1>8, <1>9, <1>10, <1>11, <1>12
  DEF Step, Begin, Continue

\* All requests.
LEMMA FitsStep == IInv /\ [Next]_vars => \A r \in Request : Fits(r)'
<1> SUFFICES ASSUME IInv, [Next]_vars, NEW s \in Request PROVE Fits(s)'
  OBVIOUS
<1>1. TypeOK' /\ Grown
  BY TypeStep, Grow
<1>2. CASE World
  <2>1. Unmoved(s)
    BY <1>2 DEF World, session, Unmoved
  <2> QED BY <1>1, <2>1, FitsKept
<1>3. ASSUME NEW r \in Request, Step(r) PROVE Fits(s)'
  <2>1. CASE s = r
    BY <1>3, <2>1, FitsMoved
  <2>2. CASE s # r
    BY <1>1, <1>3, <2>2, StepShape, FitsKept
  <2> QED BY <2>1, <2>2
<1> QED BY <1>2, <1>3, NextShape

\* What the entry cites that Insert appends: stored versions, the ones of the job.
LEMMA InsertCites ==
    ASSUME IInv, NEW r \in Request, Insert(r)
    PROVE  LET new == entries'[at[r]][Len(entries[at[r]]) + 1] IN
           /\ new.kind = job[r].kind
           /\ new.cites = {} <=> job[r].cites = {}
           /\ {c.version : c \in new.cites} = {item.version : item \in job[r].cites}
           /\ \A c \in new.cites : c.version \in Version /\ Stored(c.version)
<1> DEFINE n == at[r]
           p == position[r]
           new == entries'[n][Len(entries[n]) + 1]
<1>1. /\ n \in Notebook /\ p \in Nat \ {0}
      /\ new = [position |-> p, kind |-> job[r].kind,
                cites |-> {Cite(n, p, item) : item \in job[r].cites}]
  <2>1. /\ n \in Notebook
        /\ new = [position |-> p, kind |-> job[r].kind,
                  cites |-> {Cite(n, p, item) : item \in job[r].cites}]
        /\ p = 1 + Len(entries[n])
    BY InsertShape, Zenon
  <2>2. Len(entries[n]) \in Nat
    BY <2>1 DEF IInv, TypeOK
  <2> QED BY <2>1, <2>2
<1>2. new.kind = job[r].kind /\ new.cites = {Cite(n, p, item) : item \in job[r].cites}
  BY <1>1
<1>3. \A item \in job[r].cites :
        /\ item \in Evidence /\ Stored(item.version)
        /\ Cite(n, p, item).version = item.version
  <2>1. job[r].cites \subseteq Evidence
    BY DEF IInv, TypeOK
  <2>2. \A item \in job[r].cites : Stored(item.version)
    BY DEF IInv, Fits, JobFits, Insert
  <2> QED BY <1>1, <2>1, <2>2, CiteType
<1> HIDE DEF n, p, new
<1>4. {c.version : c \in new.cites} = {item.version : item \in job[r].cites}
  BY <1>2, <1>3
<1>5. \A c \in new.cites : c.version \in Version /\ Stored(c.version)
  BY <1>2, <1>3, EvidenceVersion
<1>6. new.cites = {} <=> job[r].cites = {}
  BY <1>2
<1> QED BY <1>2, <1>4, <1>5, <1>6 DEF n, new

\* Entries go on citing stored versions.
LEMMA CiteStep == IInv /\ [Next]_vars => CiteInv'
<1> SUFFICES ASSUME IInv, [Next]_vars,
                    NEW n \in Notebook, NEW i \in 1..Len(entries'[n]),
                    NEW c \in entries'[n][i].cites
             PROVE  Stored(c.version)'
  BY DEF CiteInv, Stored
<1>1. TypeOK /\ TypeOK' /\ Grown
  BY TypeStep, Grow DEF IInv
<1>2. c.version \in Version
  <2>1. entries'[n][i] \in Entry
    BY <1>1 DEF TypeOK
  <2> QED BY <2>1 DEF Entry, Citation
<1>3. CASE i \in 1..Len(entries[n])
  <2>1. Stored(c.version)
    BY <1>1, <1>3 DEF Grown, IInv, CiteInv
  <2> QED BY <1>1, <1>2, <2>1, StoredGrows
<1>4. CASE i \notin 1..Len(entries[n])
  <2>1. PICK r \in Request : Insert(r)
    <3>1. entries'[n] # entries[n]
      BY <1>4
    <3>2. ASSUME NEW r \in Request, Step(r) PROVE Insert(r)
      BY <3>1, <3>2, StepShape DEF Calm, Lock, Abort, tables
    <3> QED BY <3>1, <3>2, NextShape DEF World
  <2>2. /\ at[r] \in Notebook
        /\ Len(entries'[at[r]]) = Len(entries[at[r]]) + 1
        /\ \A m \in Notebook \ {at[r]} : entries'[m] = entries[m]
    BY <2>1, InsertShape, Zenon
  <2>3. n = at[r]
    BY <1>4, <2>2
  <2>4. i = Len(entries[n]) + 1
    BY <1>1, <1>4, <2>2, <2>3 DEF TypeOK
  <2>5. Stored(c.version)
    BY <2>1, <2>3, <2>4, InsertCites
  <2> QED BY <1>1, <1>2, <2>5, StoredGrows
<1> QED BY <1>3, <1>4

-----------------------------------------------------------------------------
(* Theorems.                                                               *)

LEMMA InitInv == Init => IInv
<1> SUFFICES ASSUME Init PROVE IInv
  OBVIOUS
<1> USE DEF Init
<1>1. TypeOK
  <2>1. NoJob \in [kind : Kind, cites : SUBSET Evidence, read : SUBSET Evidence]
    BY DEF NoJob, Kind
  <2>2. NoExport \in [entries : Nat, cites : SUBSET Citation]
    BY DEF NoExport
  <2>3. entries \in [Notebook -> Seq(Entry)]
    OBVIOUS
  <2>4. latest \in [Document -> 1..MaxVersions]
    BY ConstantsAssumption
  <2> QED BY <2>1, <2>2, <2>3, <2>4 DEF TypeOK, Phase
<1>2. LockInv /\ PositionsAreDense /\ PositionStaysFree /\ CiteInv
  BY DEF LockInv, PositionsAreDense, PositionStaysFree, CiteInv
<1>3. \A r \in Request : Fits(r)
  BY DEF Fits, ReadFits, JobFits, ExportFits
<1> QED BY <1>1, <1>2, <1>3 DEF IInv

LEMMA InvStep == IInv /\ [Next]_vars => IInv'
<1> SUFFICES ASSUME IInv, [Next]_vars PROVE IInv'
  OBVIOUS
<1>1. TypeOK' /\ LockInv' /\ PositionsAreDense' /\ PositionStaysFree' /\ CiteInv'
  BY TypeStep, LockStep, PositionStep, CiteStep
<1>2. \A r \in Request : Fits(r)'
  BY FitsStep
<1> QED BY <1>1, <1>2 DEF IInv

THEOREM Invariance == Spec => []IInv
BY InitInv, InvStep, PTL DEF Spec

\* Requests, entries and citations have their types.
THEOREM TypeCorrect == Spec => []TypeOK
<1>1. IInv => TypeOK
  BY DEF IInv
<1> QED BY <1>1, Invariance, PTL

\* Entries are numbered from 1 without a gap, however many requests add them.
THEOREM PositionsDense == Spec => []PositionsAreDense
<1>1. IInv => PositionsAreDense
  BY DEF IInv
<1> QED BY <1>1, Invariance, PTL

\* The position a request has read stays free until its entry is stored.
THEOREM PositionFree == Spec => []PositionStaysFree
<1>1. IInv => PositionStaysFree
  BY DEF IInv
<1> QED BY <1>1, Invariance, PTL

\* No exported entry misses one of its citations.
THEOREM ExportComplete == Spec => []ExportedEntriesKeepTheirCitations
<1>1. IInv => ExportedEntriesKeepTheirCitations
  BY DEF IInv, Fits, ExportFits, ExportedEntriesKeepTheirCitations
<1> QED BY <1>1, Invariance, PTL

\* The step in which notebook n gets an entry is the Insert of a request.
LEMMA OnlyInsertAppends ==
    ASSUME IInv, [Next]_vars, NEW n \in Notebook, entries'[n] # entries[n]
    PROVE  \E r \in Request : Insert(r) /\ at[r] = n
<1>1. PICK r \in Request : Insert(r)
  <2>1. ASSUME NEW r \in Request, Step(r) PROVE Insert(r)
    BY <2>1, StepShape DEF Calm, Lock, Abort, tables
  <2> QED BY <2>1, NextShape DEF World
<1>2. \A m \in Notebook \ {at[r]} : entries'[m] = entries[m]
  BY <1>1, InsertShape, Zenon
<1> QED BY <1>1, <1>2

\* A generated entry cites something, and only versions read for it.
THEOREM GeneratedGrounded == Spec => GeneratedEntriesAreGrounded
<1> DEFINE Grounded(r) ==
      LET n == at[r]
          cites == entries'[n][Len(entries'[n])].cites
      IN
      /\ pc[r] = "inserting" /\ job[r].kind \in Generated
      /\ entries'[n] # entries[n]
      => /\ cites # {}
         /\ {c.version : c \in cites} \subseteq
              {item.version : item \in job[r].read}
<1>1. ASSUME IInv, [Next]_vars PROVE \A r \in Request : Grounded(r)
  <2> SUFFICES ASSUME NEW r \in Request, pc[r] = "inserting",
                      job[r].kind \in Generated, entries'[at[r]] # entries[at[r]]
               PROVE  LET cites == entries'[at[r]][Len(entries'[at[r]])].cites IN
                      /\ cites # {}
                      /\ {c.version : c \in cites} \subseteq
                           {item.version : item \in job[r].read}
    OBVIOUS
  <2>1. at[r] \in Notebook /\ lock[at[r]] = r
    BY <1>1 DEF IInv, LockInv
  <2>2. PICK s \in Request : Insert(s) /\ at[s] = at[r]
    BY <1>1, <2>1, OnlyInsertAppends
  <2>3. s = r
    BY <1>1, <2>1, <2>2 DEF IInv, LockInv, Insert
  <2>4. Len(entries'[at[r]]) = Len(entries[at[r]]) + 1
    BY <1>1, <2>2, <2>3, InsertShape, Zenon
  <2>5. job[r].cites # {} /\ job[r].cites \subseteq job[r].read
    BY <1>1 DEF IInv, Fits, JobFits, Generated
  <2> DEFINE cites == entries'[at[r]][Len(entries[at[r]]) + 1].cites
  <2>6. /\ cites = {} <=> job[r].cites = {}
        /\ {c.version : c \in cites} = {item.version : item \in job[r].cites}
    BY <1>1, <2>2, <2>3, InsertCites, Zenon
  <2> HIDE DEF cites
  <2>7. cites # {} /\ {c.version : c \in cites} \subseteq
                        {item.version : item \in job[r].read}
    BY <2>5, <2>6
  <2> QED BY <2>4, <2>7 DEF cites
<1>2. IInv /\ [Next]_vars => [\A r \in Request : Grounded(r)]_vars
  BY <1>1
<1> QED BY <1>2, Invariance, PTL DEF Spec, GeneratedEntriesAreGrounded


-----------------------------------------------------------------------------
(* Notebook implements ResearchLog.                                        *)

\* What ResearchLog sees of the tables.
Kept == [n \in Notebook |-> saved[n] \cap Document]
Seen(e) == [kind |-> e.kind, versions |-> {c.version : c \in e.cites}]
LogOf(n) == [i \in 1..Len(entries[n]) |-> Seen(entries[n][i])]
SeenEntry == [kind : Kind, versions : SUBSET Version]

LEMMA LogType ==
    ASSUME TypeOK, NEW n \in Notebook
    PROVE  /\ LogOf(n) \in Seq(SeenEntry)
           /\ Len(LogOf(n)) = Len(entries[n])
           /\ \A i \in 1..Len(entries[n]) : LogOf(n)[i] = Seen(entries[n][i])
<1>1. Len(entries[n]) \in Nat
  BY DEF TypeOK
<1>2. \A i \in 1..Len(entries[n]) : Seen(entries[n][i]) \in SeenEntry
  <2> SUFFICES ASSUME NEW i \in 1..Len(entries[n])
               PROVE  Seen(entries[n][i]) \in SeenEntry
    OBVIOUS
  <2>1. entries[n][i] \in Entry
    BY DEF TypeOK
  <2> HIDE DEF TypeOK
  <2> QED BY <2>1 DEF Seen, SeenEntry, Entry, Citation
<1> QED BY <1>1, <1>2 DEF LogOf

Logs == [n \in Notebook |-> LogOf(n)]

\* The entry that Insert stores is one that ResearchLog allows.
LEMMA InsertAllowed ==
    ASSUME IInv, NEW r \in Request, Insert(r), NEW n \in Notebook, n = at[r]
    PROVE  LET new == Seen(entries'[n][Len(entries[n]) + 1]) IN
           /\ \A v \in new.versions : Stored(v)
           /\ new.kind = "note" <=> new.versions = {}
           /\ new.kind \in Generated => \A v \in new.versions : Known(n, v)
           /\ new.kind = "timeline" =>
                \A v, w \in new.versions : v[1] = w[1] => v = w
<1> DEFINE e == entries'[n][Len(entries[n]) + 1]
<1>1. /\ e.kind = job[r].kind
      /\ e.cites = {} <=> job[r].cites = {}
      /\ {c.version : c \in e.cites} = {item.version : item \in job[r].cites}
      /\ \A c \in e.cites : Stored(c.version)
  BY InsertCites, Zenon
<1>2. /\ job[r].kind = "note" <=> job[r].cites = {}
      /\ job[r].kind \in Generated =>
           /\ job[r].cites \subseteq job[r].read
           /\ \A item \in job[r].read : Known(n, item.version)
      /\ job[r].kind = "timeline" =>
           \A s, t \in job[r].cites : s.version[1] = t.version[1] => s = t
  BY DEF IInv, Fits, ReadFits, JobFits, Insert
<1> HIDE DEF e
<1>3. Seen(e).kind = e.kind /\ Seen(e).versions = {c.version : c \in e.cites}
  BY DEF Seen
<1>4. \A v \in Seen(e).versions : \E item \in job[r].cites : v = item.version
  BY <1>1, <1>3
<1>5. \A v \in Seen(e).versions : Stored(v)
  BY <1>1, <1>3
<1>6. Seen(e).kind = "note" <=> Seen(e).versions = {}
  BY <1>1, <1>2, <1>3
<1>7. Seen(e).kind \in Generated => \A v \in Seen(e).versions : Known(n, v)
  BY <1>1, <1>2, <1>3, <1>4
<1>8. Seen(e).kind = "timeline" =>
        \A v, w \in Seen(e).versions : v[1] = w[1] => v = w
  BY <1>1, <1>2, <1>3, <1>4
<1> QED BY <1>5, <1>6, <1>7, <1>8 DEF e

\* The log of the notebook grows by what ResearchLog sees of the entry.
LEMMA InsertLogs ==
    ASSUME IInv, TypeOK', NEW r \in Request, Insert(r), NEW n \in Notebook, n = at[r]
    PROVE  LET new == Seen(entries'[n][Len(entries[n]) + 1]) IN
           /\ new \in SeenEntry
           /\ Logs' = [Logs EXCEPT ![n] = Append(@, new)]
           /\ Len(Logs'[n]) = Len(Logs[n]) + 1
           /\ Logs'[n][Len(Logs'[n])] = new
<1> DEFINE L == Len(entries[n])
           new == Seen(entries'[n][L + 1])
<1>1. TypeOK /\ L \in Nat
  BY DEF IInv, TypeOK
<1>2. /\ Len(entries'[n]) = L + 1
      /\ \A i \in 1..L : entries'[n][i] = entries[n][i]
      /\ \A m \in Notebook \ {n} : entries'[m] = entries[m]
  <2>1. LET k == at[r] IN
        /\ Len(entries'[k]) = Len(entries[k]) + 1
        /\ \A i \in 1..Len(entries[k]) : entries'[k][i] = entries[k][i]
        /\ \A m \in Notebook \ {k} : entries'[m] = entries[m]
    BY InsertShape, Zenon
  <2> QED BY <2>1, Zenon
<1>3. /\ LogOf(n) \in Seq(SeenEntry)
      /\ Len(LogOf(n)) = L
      /\ \A i \in 1..L : LogOf(n)[i] = Seen(entries[n][i])
  BY <1>1, LogType
<1>4. /\ LogOf(n)' \in Seq(SeenEntry)
      /\ Len(LogOf(n)') = L + 1
      /\ \A i \in 1..L + 1 : LogOf(n)'[i] = Seen(entries'[n][i])
  <2>1. /\ LogOf(n)' \in Seq(SeenEntry)
        /\ Len(LogOf(n)') = Len(entries'[n])
        /\ \A i \in 1..Len(entries'[n]) : LogOf(n)'[i] = Seen(entries'[n][i])
    <3>1. Len(entries'[n]) \in Nat
      BY DEF TypeOK
    <3>2. \A i \in 1..Len(entries'[n]) : Seen(entries'[n][i]) \in SeenEntry
      <4> SUFFICES ASSUME NEW i \in 1..Len(entries'[n])
                   PROVE  Seen(entries'[n][i]) \in SeenEntry
        OBVIOUS
      <4>1. entries'[n][i] \in Entry
        BY DEF TypeOK
      <4> QED BY <4>1 DEF Seen, SeenEntry, Entry, Citation
    <3> QED BY <3>1, <3>2 DEF LogOf
  <2> QED BY <1>2, <2>1
<1>5. new \in SeenEntry
  <2>1. L + 1 \in 1..L + 1
    BY <1>1
  <2> QED BY <1>1, <1>4, <2>1
<1> HIDE DEF L, new
<1>6. LogOf(n)' = Append(LogOf(n), new)
  <2>1. Append(LogOf(n), new) \in Seq(SeenEntry) /\ Len(Append(LogOf(n), new)) = L + 1
    BY <1>3, <1>5
  <2>2. \A i \in 1..L + 1 : LogOf(n)'[i] = Append(LogOf(n), new)[i]
    <3> SUFFICES ASSUME NEW i \in 1..L + 1
                 PROVE  LogOf(n)'[i] = Append(LogOf(n), new)[i]
      OBVIOUS
    <3>1. CASE i \in 1..L
      BY <1>1, <1>2, <1>3, <1>4, <1>5, <3>1
    <3>2. CASE i = L + 1
      BY <1>1, <1>3, <1>4, <1>5, <3>2 DEF new
    <3>3. i \in 1..L \/ i = L + 1
      BY <1>1
    <3> QED BY <3>1, <3>2, <3>3
  <2>3. /\ LogOf(n)' \in Seq(SeenEntry) /\ Append(LogOf(n), new) \in Seq(SeenEntry)
        /\ Len(LogOf(n)') = Len(Append(LogOf(n), new))
        /\ \A i \in 1..Len(LogOf(n)') : LogOf(n)'[i] = Append(LogOf(n), new)[i]
    BY <1>4, <2>1, <2>2
  <2> QED BY <2>3, SeqEqual, Zenon
<1>7. \A m \in Notebook \ {n} : LogOf(m)' = LogOf(m)
  BY <1>2 DEF LogOf
<1>8. Logs' = [Logs EXCEPT ![n] = Append(@, new)]
  BY <1>6, <1>7 DEF Logs
<1>9. Logs[n] = LogOf(n) /\ Logs'[n] = LogOf(n)'
  BY DEF Logs
<1>10. Len(Logs'[n]) = L + 1 /\ Logs'[n][L + 1] = new
  BY <1>1, <1>4, <1>9 DEF new
<1> QED BY <1>3, <1>5, <1>8, <1>9, <1>10 DEF L, new

\* The Insert of a request is an append of the log.
LEMMA InsertImplemented ==
    ASSUME IInv, TypeOK', NEW r \in Request, Insert(r), NEW n \in Notebook, n = at[r]
    PROVE  Log!AppendStep(n)
<1> DEFINE new == Seen(entries'[n][Len(entries[n]) + 1])
<1>1. /\ \A v \in new.versions : Stored(v)
      /\ new.kind = "note" <=> new.versions = {}
      /\ new.kind \in Generated => \A v \in new.versions : Known(n, v)
      /\ new.kind = "timeline" =>
           \A v, w \in new.versions : v[1] = w[1] => v = w
  BY InsertAllowed, Zenon
<1>2. /\ new \in SeenEntry
      /\ Logs' = [Logs EXCEPT ![n] = Append(@, new)]
      /\ Len(Logs'[n]) = Len(Logs[n]) + 1
      /\ Logs'[n][Len(Logs'[n])] = new
  BY InsertLogs, Zenon
<1>3. UNCHANGED <<latest, Kept>>
  BY DEF Insert, Kept
<1> HIDE DEF new
<1>4. \A v \in new.versions : v \in Version
  BY <1>2 DEF SeenEntry
<1>5. TypeOK /\ LogOf(n) = Logs[n]
  BY DEF Logs, IInv
<1>6. \A v \in new.versions :
        Known(n, v) => \/ v[1] \in Kept[n]
                       \/ v \in UNION {Logs[n][i].versions : i \in 1..Len(Logs[n])}
  <2> SUFFICES ASSUME NEW v \in Version, Known(n, v), v[1] \notin saved[n]
               PROVE  v \in UNION {Logs[n][i].versions : i \in 1..Len(Logs[n])}
    BY <1>4 DEF Kept, Version
  <2>1. PICK i \in 1..Len(entries[n]) : \E c \in entries[n][i].cites : c.version = v
    BY DEF Known
  <2>2. i \in 1..Len(Logs[n]) /\ Logs[n][i] = Seen(entries[n][i])
    BY <1>5, LogType
  <2>3. v \in Logs[n][i].versions
    BY <2>1, <2>2 DEF Seen
  <2> QED BY <2>2, <2>3
<1>7. /\ \A v \in new.versions : v[2] \in 1..latest[v[1]]
      /\ new.kind = "note" <=> new.versions = {}
      /\ new.kind \in Generated =>
           \A v \in new.versions :
             \/ v[1] \in Kept[n]
             \/ v \in UNION {Logs[n][i].versions : i \in 1..Len(Logs[n])}
      /\ new.kind = "timeline" =>
           \A v, w \in new.versions : v[1] = w[1] => v = w
      /\ Logs' = [Logs EXCEPT ![n] = Append(@, new)]
      /\ UNCHANGED <<latest, Kept>>
  BY <1>1, <1>2, <1>3, <1>6 DEF Stored
<1>8. new = [kind |-> new.kind, versions |-> new.versions]
  BY <1>2 DEF SeenEntry
<1> QED
  BY <1>2, <1>7, <1>8
  DEF Log!AppendStep, Log!Append1, Log!Cited, Log!Generated, Generated, Logs, LogOf,
      Seen, Kept

\* Every step maps to a step of ResearchLog or to none.
LEMMA LogStep == IInv /\ [Next]_vars => [Log!Next]_(Log!logVars)
<1> SUFFICES ASSUME IInv, [Next]_vars PROVE [Log!Next]_(Log!logVars)
  OBVIOUS
<1>1. CASE UNCHANGED <<latest, Kept, entries>>
  BY <1>1 DEF Log!logVars, Kept
<1>2. CASE UNCHANGED tables
  BY <1>1, <1>2 DEF tables, Kept
<1>3. ASSUME NEW d \in Document, NewVersion(d) PROVE Log!Next
  <2>1. Log!Store(d)
    BY <1>3 DEF NewVersion, Log!Store
  <2> QED BY <2>1 DEF Log!Next
<1>4. ASSUME NEW n \in Notebook, NEW item \in Document \cup Search, Save(n, item)
      PROVE  [Log!Next]_(Log!logVars)
  <2>1. saved' = [saved EXCEPT ![n] = @ \cup {item}] /\ UNCHANGED <<latest, entries>>
    BY <1>4 DEF Save
  <2>2. CASE item \in Document
    <3>1. Kept' = [Kept EXCEPT ![n] = @ \cup {item}]
      BY <2>1, <2>2 DEF IInv, TypeOK, Kept
    <3>2. Log!Keep(n, item)
      BY <2>1, <3>1 DEF Log!Keep, Kept
    <3> QED BY <2>2, <3>2 DEF Log!Next
  <2>3. CASE item \in Search
    <3>1. Kept' = Kept
      BY <2>1, <2>3, ConstantsAssumption DEF IInv, TypeOK, Kept
    <3> QED BY <1>1, <2>1, <3>1
  <2> QED BY <2>2, <2>3
<1>5. ASSUME NEW r \in Request, Step(r) PROVE [Log!Next]_(Log!logVars)
  <2>1. CASE Insert(r)
    <3>1. PICK n \in Notebook : n = at[r]
      BY <2>1, InsertShape, Zenon
    <3>2. Log!AppendStep(n)
      BY <2>1, <3>1, TypeStep, InsertImplemented
    <3> QED BY <3>2 DEF Log!Next
  <2>2. CASE ~ Insert(r)
    <3>1. UNCHANGED tables
      BY <1>5, <2>2, StepShape DEF Calm, Lock, Abort
    <3> QED BY <1>2, <3>1
  <2> QED BY <2>1, <2>2
<1>6. ASSUME NEW b \in BOOLEAN, SetMember(b) PROVE UNCHANGED tables
  BY <1>6 DEF SetMember
<1>7. ASSUME NEW n \in Notebook, Create(n) PROVE UNCHANGED tables
  BY <1>7 DEF Create
<1>8. CASE UNCHANGED vars
  BY <1>2, <1>8 DEF vars
<1> QED BY <1>2, <1>3, <1>4, <1>5, <1>6, <1>7, <1>8 DEF Next, Step

\* A notebook under its requests is a research log.
THEOREM LogImplemented == Spec => ImplementsResearchLog
<1>1. Init => Log!Init
  BY ConstantsAssumption DEF Init, Log!Init
<1> QED BY <1>1, LogStep, Invariance, PTL DEF Spec, ImplementsResearchLog, Log!Spec

-----------------------------------------------------------------------------
(* The record.                                                             *)

\* Nothing that a notebook has saved or recorded is changed or taken away.
RecordIsPermanent ==
    [][\A n \in Notebook :
         /\ saved[n] \subseteq saved'[n]
         /\ Len(entries[n]) <= Len(entries'[n])
         /\ \A i \in 1..Len(entries[n]) : entries'[n][i] = entries[n][i]]_vars

\* Every citation of every entry leads to a stored version.
THEOREM CitationsStored == Spec => []CiteInv
<1>1. IInv => CiteInv
  BY DEF IInv
<1> QED BY <1>1, Invariance, PTL

\* Entries, their positions and their citations are never changed or removed.
THEOREM RecordKept == Spec => RecordIsPermanent
<1> DEFINE Permanent == \A n \in Notebook :
         /\ saved[n] \subseteq saved'[n]
         /\ Len(entries[n]) <= Len(entries'[n])
         /\ \A i \in 1..Len(entries[n]) : entries'[n][i] = entries[n][i]
<1>1. ASSUME IInv, [Next]_vars PROVE Permanent
  BY <1>1, Grow DEF Grown
<1> QED BY <1>1, Invariance, PTL DEF Spec, RecordIsPermanent
=============================================================================
