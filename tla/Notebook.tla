------------------------------- MODULE Notebook -------------------------------
(***************************************************************************)
(* Research notebooks: entries that several requests of one owner add at a *)
(* time, and the summaries and timelines that are written in two           *)
(* transactions, one that reads the evidence and one that stores the       *)
(* entry, with the language model's answer between them.                   *)
(*                                                                         *)
(* Statements run under READ COMMITTED; an adding transaction locks the    *)
(* row of its notebook first, so its own reads happen after the lock.      *)
(***************************************************************************)
EXTENDS Naturals, Sequences

CONSTANTS
    Notebook,   \* rows of research.notebooks of one owner
    Document,   \* rows of civic.documents
    Search,     \* queries and filters the owner may save
    Blank,      \* documents whose text could not be extracted
    Dated,      \* documents with a published_at
    Request,    \* requests the API works on at a time
    None,       \* no row, nobody
    MaxVersions,\* bound on the versions of a document
    MaxEntries  \* bound on the entries that are there when another is begun

ASSUME ConstantsAssumption ==
    /\ Blank \subseteq Document /\ Dated \subseteq Document
    /\ Search \cap Document = {}
    /\ None \notin Notebook \cup Request
    /\ MaxVersions \in Nat \ {0} /\ MaxEntries \in Nat

VARIABLES
    member,     \* core.users.is_active of the owner
    created,    \* notebooks that exist
    latest,     \* civic.document_versions: the last version_number by document
    saved,      \* notebook_documents and saved_searches by notebook
    entries,    \* notebook_entries by notebook, in the order of their commits
    lock,       \* the request that holds the notebook's row
    pc,         \* where a request is
    at,         \* the notebook it works on
    job,        \* the entry it adds: kind, the evidence that it cites, and the
                \* evidence that it was made from
    position,   \* the position it has read for its entry
    export      \* the snapshot it returns: how many entries, which citations

tables == <<latest, saved, entries>>
session == <<pc, at, job, position, export>>
vars == <<member, created, tables, lock, session>>

Generated == {"summary", "timeline"}
Kind == {"note", "highlight"} \cup Generated
Phase == {"idle", "drafting", "waiting", "inserting", "listing", "exported"}

Version == Document \X (1..MaxVersions)

\* A row of civic.citations, named by the entry it was created for; an item of
\* evidence that has no citation yet has None for a home.
Citation == [home : Notebook, at : Nat \ {0}, version : Version]
Uncited == [home : {None}, at : {0}, version : Version]
Evidence == Citation \cup Uncited
Entry == [position : Nat \ {0}, kind : Kind, cites : SUBSET Citation]

NoJob == [kind |-> "note", cites |-> {}, read |-> {}]
NoExport == [entries |-> 0, cites |-> {}]

TypeOK ==
    /\ member \in BOOLEAN
    /\ created \subseteq Notebook
    /\ latest \in [Document -> 1..MaxVersions]
    /\ saved \in [Notebook -> SUBSET (Document \cup Search)]
    /\ entries \in [Notebook -> Seq(Entry)]
    /\ lock \in [Notebook -> Request \cup {None}]
    /\ pc \in [Request -> Phase]
    /\ at \in [Request -> Notebook \cup {None}]
    /\ job \in [Request ->
         [kind : Kind, cites : SUBSET Evidence, read : SUBSET Evidence]]
    /\ position \in [Request -> Nat]
    /\ export \in [Request -> [entries : Nat, cites : SUBSET Citation]]

Init ==
    /\ member = TRUE
    /\ created = {}
    /\ latest = [d \in Document |-> 1]
    /\ saved = [n \in Notebook |-> {}]
    /\ entries = [n \in Notebook |-> <<>>]
    /\ lock = [n \in Notebook |-> None]
    /\ pc = [r \in Request |-> "idle"]
    /\ at = [r \in Request |-> None]
    /\ job = [r \in Request |-> NoJob]
    /\ position = [r \in Request |-> 0]
    /\ export = [r \in Request |-> NoExport]

-----------------------------------------------------------------------------
(* The world around the notebooks.                                         *)

\* A scan stores another version of a document.
NewVersion(d) ==
    /\ latest[d] < MaxVersions
    /\ latest' = [latest EXCEPT ![d] = @ + 1]
    /\ UNCHANGED <<member, created, saved, entries, lock, session>>

\* The account is switched off or on.  The check that begins a transaction
\* looks at the user, not at the membership's own is_active.
SetMember(b) ==
    /\ member # b
    /\ member' = b
    /\ UNCHANGED <<created, tables, lock, session>>

-----------------------------------------------------------------------------
(* Requests that are one transaction and take no lock.                     *)

\* Ownership and membership, as every transaction begins.
Admitted(n) == member /\ n \in created

Create(n) ==
    /\ member
    /\ n \notin created
    /\ created' = created \cup {n}
    /\ UNCHANGED <<member, tables, lock, session>>

\* A search, or a document; saving it again replaces its note.
Save(n, item) ==
    /\ Admitted(n)
    /\ saved' = [saved EXCEPT ![n] = @ \cup {item}]
    /\ UNCHANGED <<member, created, latest, entries, lock, session>>

-----------------------------------------------------------------------------
(* Adding an entry: begin, lock the notebook, read the position, insert.   *)

Goto(r, phase) == pc' = [pc EXCEPT ![r] = phase]

Done(r) ==
    /\ Goto(r, "idle")
    /\ at' = [at EXCEPT ![r] = None]
    /\ job' = [job EXCEPT ![r] = NoJob]
    /\ position' = [position EXCEPT ![r] = 0]
    /\ export' = [export EXCEPT ![r] = NoExport]

Start(r, n, entry) ==
    /\ pc[r] = "idle"
    /\ at' = [at EXCEPT ![r] = n]
    /\ job' = [job EXCEPT ![r] = entry]
    /\ UNCHANGED <<member, created, tables, lock, position, export>>

\* add_note
AddNote(r, n) ==
    /\ Admitted(n)
    /\ Start(r, n, NoJob)
    /\ Goto(r, "waiting")

\* add_highlight: a passage of any version that exists; its citation is created
\* with the entry.
AddHighlight(r, n, d, v) ==
    LET passage == {[home |-> None, at |-> 0, version |-> <<d, v>>]} IN
    /\ Admitted(n)
    /\ v <= latest[d]
    /\ Start(r, n, [kind |-> "highlight", cites |-> passage, read |-> passage])
    /\ Goto(r, "waiting")

\* Mutant: _owned_notebook without FOR UPDATE.
LockedUnlocked(r) == TRUE

\* FOR UPDATE returns: nobody else holds the row.
Locked(r) == lock[at[r]] = None

\* Mutant: the positions start at 2.
NextPositionFromTwo(n) == 2 + Len(entries[n])

\* max(position) + 1 of the committed entries
NextPosition(n) ==
    LET positions == {entries[n][i].position : i \in 1..Len(entries[n])}
    IN  IF positions = {} THEN 1
        ELSE 1 + CHOOSE p \in positions : \A q \in positions : q <= p

Lock(r) ==
    /\ pc[r] = "waiting"
    /\ Locked(r)
    /\ Len(entries[at[r]]) < MaxEntries
    /\ lock' = [lock EXCEPT ![at[r]] = r]
    /\ position' = [position EXCEPT ![r] = NextPosition(at[r])]
    /\ Goto(r, "inserting")
    /\ UNCHANGED <<member, created, tables, at, job, export>>

\* Mutant: the citation is made on the version that is the latest by now.
CiteLatest(n, p, item) ==
    IF item.home = None
    THEN [home |-> n, at |-> p,
          version |-> <<item.version[1], latest[item.version[1]]>>]
    ELSE item

\* Mutant: the entry keeps evidence that no citation was created for.
CiteNothing(n, p, item) == item

\* _create_reference_citation, or the citation that the evidence has already
Cite(n, p, item) ==
    IF item.home = None
    THEN [home |-> n, at |-> p, version |-> item.version] ELSE item

\* UNIQUE (organization_id, notebook_id, position)
Taken(n, p) == \E i \in 1..Len(entries[n]) : entries[n][i].position = p

Insert(r) ==
    LET n == at[r]
        p == position[r]
    IN
    /\ pc[r] = "inserting"
    /\ ~ Taken(n, p)
    /\ entries' = [entries EXCEPT ![n] =
         Append(@, [position |-> p, kind |-> job[r].kind,
                    cites |-> {Cite(n, p, item) : item \in job[r].cites}])]
    /\ lock' = [lock EXCEPT ![n] = None]
    /\ Done(r)
    /\ UNCHANGED <<member, created, latest, saved>>

\* The connection or the process is lost, or an INSERT raises.
Abort(r) ==
    /\ pc[r] \in {"waiting", "inserting"}
    /\ lock' = [n \in Notebook |-> IF lock[n] = r THEN None ELSE lock[n]]
    /\ Done(r)
    /\ UNCHANGED <<member, created, tables>>

-----------------------------------------------------------------------------
(* Summaries and timelines.                                                *)

\* The latest version of each saved document and the citations of the entries;
\* rows without an excerpt are dropped, and a citation always has one.
EvidenceOf(n) ==
    {[home |-> None, at |-> 0, version |-> <<d, latest[d]>>] :
       d \in (saved[n] \cap Document) \ Blank}
    \cup UNION {entries[n][i].cites : i \in 1..Len(entries[n])}

\* The transaction that reads the evidence; without any nothing follows.
Generate(r, n, kind) ==
    LET found == EvidenceOf(n) IN
    /\ Admitted(n)
    /\ found # {}
    /\ Start(r, n, [kind |-> kind, cites |-> {}, read |-> found])
    /\ Goto(r, "drafting")

\* The citation ids that _claims_evidence knows.
Citable(r) == job[r].read

\* add_generated_entry begins its transaction, or is refused by the check.
Enter(r, cited) ==
    IF Admitted(at[r])
    THEN /\ job' = [job EXCEPT ![r] =
                      [kind |-> @.kind, cites |-> cited, read |-> @.read]]
         /\ Goto(r, "waiting")
         /\ UNCHANGED <<at, position, export>>
    ELSE Done(r)

\* The model answers with claims, every one of them cited.
DraftSummary(r, cited) ==
    /\ pc[r] = "drafting" /\ job[r].kind = "summary"
    /\ cited # {} /\ cited \subseteq Citable(r)
    /\ Enter(r, cited)
    /\ UNCHANGED <<member, created, tables, lock>>

\* No answer, or one with no claim, a claim without a citation or with one that
\* is unknown.
RejectDraft(r) ==
    /\ pc[r] = "drafting" /\ job[r].kind = "summary"
    /\ Done(r)
    /\ UNCHANGED <<member, created, tables, lock>>

DatedEvidence(r) == {item \in job[r].read : item.version[1] \in Dated}

\* Mutant: an event for every item of dated evidence.
TimelineOfAll(r) == {DatedEvidence(r)}

\* setdefault keeps the first row of each document, and the rows have no order.
TimelineOf(r) ==
    {T \in SUBSET DatedEvidence(r) :
       /\ \A s, t \in T : s.version[1] = t.version[1] => s = t
       /\ \A item \in DatedEvidence(r) :
            \E t \in T : t.version[1] = item.version[1]}

\* Without dated evidence there is no timeline.
DraftTimeline(r, events) ==
    /\ pc[r] = "drafting" /\ job[r].kind = "timeline"
    /\ events \in TimelineOf(r)
    /\ IF events = {} THEN Done(r) ELSE Enter(r, events)
    /\ UNCHANGED <<member, created, tables, lock>>

-----------------------------------------------------------------------------
(* Reading a notebook or exporting it: one transaction, four SELECTs.      *)

CitesOf(n, count) == UNION {entries[n][i].cites : i \in 1..count}

\* Mutant: the references are read before the entries.
ReferencesFirst(r) ==
    [entries |-> Len(entries[at[r]]),
     cites |-> CitesOf(at[r], export[r].entries)]

\* The citations of all the entries that there are by now.
References(r) ==
    [entries |-> export[r].entries,
     cites |-> CitesOf(at[r], Len(entries[at[r]]))]

\* The SELECT of the entries.
List(r, n) ==
    /\ Admitted(n)
    /\ pc[r] = "idle"
    /\ at' = [at EXCEPT ![r] = n]
    /\ export' = [export EXCEPT ![r] =
                    [entries |-> Len(entries[n]), cites |-> {}]]
    /\ Goto(r, "listing")
    /\ UNCHANGED <<member, created, tables, lock, job, position>>

\* The SELECT of the source references; entries may have come in between.
ListReferences(r) ==
    /\ pc[r] = "listing"
    /\ export' = [export EXCEPT ![r] = References(r)]
    /\ Goto(r, "exported")
    /\ UNCHANGED <<member, created, tables, lock, at, job, position>>

Answer(r) ==
    /\ pc[r] = "exported"
    /\ Done(r)
    /\ UNCHANGED <<member, created, tables, lock>>

-----------------------------------------------------------------------------
Begin(r) ==
    \E n \in Notebook :
        \/ AddNote(r, n)
        \/ \E d \in Document, v \in 1..MaxVersions : AddHighlight(r, n, d, v)
        \/ \E kind \in Generated : Generate(r, n, kind)
        \/ List(r, n)

\* The steps of a request under way, apart from the ways it may be lost.
Continue(r) ==
    \/ Lock(r) \/ Insert(r)
    \/ \E cited \in SUBSET Citable(r) : DraftSummary(r, cited)
    \/ \E events \in SUBSET DatedEvidence(r) : DraftTimeline(r, events)
    \/ ListReferences(r) \/ Answer(r)

Next ==
    \/ \E d \in Document : NewVersion(d)
    \/ \E b \in BOOLEAN : SetMember(b)
    \/ \E n \in Notebook :
         Create(n) \/ \E item \in Document \cup Search : Save(n, item)
    \/ \E r \in Request : Begin(r) \/ Continue(r) \/ Abort(r) \/ RejectDraft(r)

Spec == Init /\ [][Next]_vars

-----------------------------------------------------------------------------
(* Properties.                                                             *)

\* The entries of a notebook are numbered from 1 without a gap, in the order
\* in which they were stored, however many requests add at once.
PositionsAreDense ==
    \A n \in Notebook : \A i \in 1..Len(entries[n]) : entries[n][i].position = i

\* A request that is about to insert still has the next position: no other one
\* has used it since it was read, and no entry is lost to the unique constraint.
PositionStaysFree ==
    \A r \in Request :
        pc[r] = "inserting" => position[r] = 1 + Len(entries[at[r]])

\* docs/research-notebooks.md:34, "any empty, malformed, uncited, or
\* out-of-notebook claim is rejected": a generated entry cites something, and
\* only versions that were read for it, although newer ones may have been stored
\* while the model answered and the request waited.
GeneratedEntriesAreGrounded ==
    [][\A r \in Request :
         LET n == at[r]
             cites == entries'[n][Len(entries'[n])].cites
         IN
         /\ pc[r] = "inserting" /\ job[r].kind \in Generated
         /\ entries'[n] # entries[n]
         => /\ cites # {}
            /\ {c.version : c \in cites} \subseteq
                 {item.version : item \in job[r].read}]_vars

\* docs/research-notebooks.md:36, exports "include ... generated entries,
\* citation IDs": no exported entry misses a citation, although other entries
\* may be stored between the SELECTs.
ExportedEntriesKeepTheirCitations ==
    \A r \in Request : pc[r] = "exported" =>
        \A i \in 1..export[r].entries :
            entries[at[r]][i].cites \subseteq export[r].cites

\* A notebook under its requests is a research log as ResearchLog promises it.
Log == INSTANCE ResearchLog WITH
    Notebook <- Notebook,
    Document <- Document,
    stored <- latest,
    kept <- [n \in Notebook |-> saved[n] \cap Document],
    log <- [n \in Notebook |-> [i \in 1..Len(entries[n]) |->
              [kind |-> entries[n][i].kind,
               versions |-> {c.version : c \in entries[n][i].cites}]]]
ImplementsResearchLog == Log!Spec
=============================================================================
