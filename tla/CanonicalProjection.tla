------------------------- MODULE CanonicalProjection -------------------------
(***************************************************************************)
(* The canonical records of one document: the projection that a scan adds  *)
(* in the transaction of every new raw version, and the backfill that      *)
(* projects the versions of an earlier release while a worker starts.      *)
(*                                                                         *)
(* The backfill is one transaction: its first SELECT opens it, and every   *)
(* connection.transaction() inside is a savepoint.  A record it has locked *)
(* stays locked, and one it has inserted unseen, until it ends.  The rest  *)
(* of a scan after its upsert of the record waits for nobody and is one    *)
(* step.  Statements run under READ COMMITTED.                             *)
(***************************************************************************)
EXTENDS Naturals, Sequences, SequencesExt

CONSTANTS
    Content,    \* what the page may say: [type, key, text], type and key being
                \* the record type and identifier the extractor reads from it,
                \* text the extracted text, "" for a scanned PDF
    Worker,     \* ingestion worker processes
    None,       \* no row, nobody
    MaxEdits,   \* bound on the changes of the page
    MaxCrashes  \* bound on the crashes of the workers

Type == {c.type : c \in Content}
Key == {c.key : c \in Content}
Outcome == {"projected", "merged", "rejected"}

ASSUME ConstantsAssumption ==
    /\ None \notin Worker /\ None \notin Content
    /\ None \notin Key /\ None \notin Outcome
    /\ MaxEdits \in Nat /\ MaxCrashes \in Nat

VARIABLES
    site,       \* the page as its publisher serves it
    edits,      \* changes of the page so far
    raw,        \* document_versions of the document
    record,     \* canonical_records of the document by type: its identifier and
                \* the raw versions its canonical versions were made from; the
                \* last of them is the current one
    changes,    \* canonical_record_changes: [type, from, to, isNew], versions
                \* by number, from = 0 for none
    backfilled, \* canonical_backfill_runs.status
    docLock,    \* the scan that has locked the document
    runLock,    \* the worker that has locked the backfill run
    rowLock,    \* by type, the worker that has locked or inserted the record
    pc,         \* where a worker is
    task,       \* what it projects: [raw |-> number, content |-> draft]
    prior,      \* the record as it was read: [from, known], known when the
                \* snapshot of that version was read too
    outcome,    \* what became of the document in the worker's backfill
    crashes     \* crashes so far

tables == <<raw, record, changes, backfilled>>
locks == <<docLock, runLock, rowLock>>
local == <<pc, task, prior, outcome>>
vars == <<site, edits, tables, locks, local, crashes>>

Phase == {"starting", "selecting", "examining", "finishing", "scanning",
          "reading", "waiting", "writing"}

NoTask == [raw |-> 0, content |-> None]
NoPrior == [from |-> 0, known |-> FALSE]
NoRecord == [key |-> None, history |-> <<>>]

TypeOK ==
    /\ site \in Content
    /\ edits \in 0..MaxEdits
    /\ raw \in Seq(Content)
    /\ record \in [Type -> {NoRecord} \cup
                      [key : Key, history : Seq(1..Len(raw)) \ {<<>>}]]
    /\ changes \subseteq [type : Type, from : Nat, to : Nat \ {0}, isNew : BOOLEAN]
    /\ backfilled \in {"none", "completed", "failed"}
    /\ docLock \in Worker \cup {None}
    /\ runLock \in Worker \cup {None}
    /\ rowLock \in [Type -> Worker \cup {None}]
    /\ pc \in [Worker -> Phase]
    /\ task \in [Worker -> [raw : Nat, content : Content \cup {None}]]
    /\ prior \in [Worker -> [from : Nat, known : BOOLEAN]]
    /\ outcome \in [Worker -> Outcome \cup {None}]
    /\ crashes \in 0..MaxCrashes

\* The document may have a version from a release without canonical records.
Init ==
    /\ site \in Content
    /\ edits = 0
    /\ raw \in {<<>>} \cup {<<c>> : c \in Content}
    /\ record = [t \in Type |-> NoRecord]
    /\ changes = {}
    /\ backfilled = "none"
    /\ docLock = None
    /\ runLock = None
    /\ rowLock = [t \in Type |-> None]
    /\ pc = [w \in Worker |-> "starting"]
    /\ task = [w \in Worker |-> NoTask]
    /\ prior = [w \in Worker |-> NoPrior]
    /\ outcome = [w \in Worker |-> None]
    /\ crashes = 0

Edit(c) ==
    /\ edits < MaxEdits
    /\ site # c
    /\ site' = c
    /\ edits' = edits + 1
    /\ UNCHANGED <<tables, locks, local, crashes>>

-----------------------------------------------------------------------------
(* _persist_canonical_record, in a scan or in the backfill.                *)

Backfilling(w) == runLock = w

TypeOf(w) == task[w].content.type

\* The record that FOR UPDATE and ON CONFLICT look for.
Matches(w) == record[TypeOf(w)].key = task[w].content.key

\* Mutant: a plain INSERT, without ON CONFLICT.
ClashesWithAny(w) == record[TypeOf(w)] # NoRecord

\* The document has a record of this type under another identifier.
Clashes(w) == record[TypeOf(w)].key \notin {None, task[w].content.key}

Goto(w, phase) == pc' = [pc EXCEPT ![w] = phase]

\* SELECT ... FOR UPDATE with the snapshot of the current version.
Read(w) ==
    LET t == TypeOf(w)
        versions == Len(record[t].history)
    IN
    /\ pc[w] = "reading"
    /\ IF ~ Matches(w)
       THEN /\ prior' = [prior EXCEPT ![w] = NoPrior]
            /\ Goto(w, "writing")
            /\ UNCHANGED rowLock
       ELSE /\ prior' = [prior EXCEPT ![w] = [from |-> versions, known |-> TRUE]]
            /\ IF rowLock[t] = None
               THEN Goto(w, "writing") /\ rowLock' = [rowLock EXCEPT ![t] = w]
               ELSE Goto(w, "waiting") /\ UNCHANGED rowLock
    /\ UNCHANGED <<site, edits, tables, docLock, runLock, task, outcome, crashes>>

\* The row is free.  If it has changed meanwhile its new columns are returned,
\* but the subquery still looks for its new version in the old snapshot.
Wake(w) ==
    LET t == TypeOf(w)
        versions == Len(record[t].history)
    IN
    /\ pc[w] = "waiting"
    /\ rowLock[t] = None
    /\ rowLock' = [rowLock EXCEPT ![t] = w]
    /\ prior' = [prior EXCEPT ![w] =
                   [from |-> versions, known |-> prior[w].from = versions]]
    /\ Goto(w, "writing")
    /\ UNCHANGED <<site, edits, tables, docLock, runLock, task, outcome, crashes>>

\* Mutant: every projection is recorded as a new record.
IsNewAlways(w) == TRUE

\* _canonical_changes: without a prior snapshot the record counts as new.
IsNew(w) == ~ prior[w].known

\* The upsert, the canonical version and its changes, once they are committed.
Project(w) ==
    LET t == TypeOf(w)
        history == Append(record[t].history, task[w].raw)
    IN
    /\ record' = [record EXCEPT ![t] =
                    [key |-> task[w].content.key, history |-> history]]
    /\ changes' = changes \cup
         {[type |-> t, from |-> prior[w].from, to |-> Len(history),
           isNew |-> IsNew(w)]}

MayWrite(w) == pc[w] = "writing" /\ rowLock[TypeOf(w)] \in {w, None}

FreeRows(w) == [t \in Type |-> IF rowLock[t] = w THEN None ELSE rowLock[t]]

-----------------------------------------------------------------------------
(* The backfill of a starting worker.                                      *)

Check(w) ==
    /\ pc[w] = "starting"
    /\ Goto(w, IF backfilled = "completed" THEN "scanning" ELSE "selecting")
    /\ UNCHANGED <<site, edits, tables, locks, task, prior, outcome, crashes>>

\* WHERE coalesce(extracted_text, '') <> ''
WithText == {n \in 1..Len(raw) : raw[n].text # ""}

\* DISTINCT ON ... ORDER BY version_number DESC
Selected(n) == n \in WithText /\ \A m \in WithText : m <= n

\* The upsert of the run waits for another worker's backfill; then the latest
\* version that has a text is selected.
Select(w) ==
    /\ pc[w] = "selecting"
    /\ runLock = None
    /\ runLock' = w
    /\ \/ WithText = {} /\ Goto(w, "finishing") /\ UNCHANGED task
       \/ \E n \in 1..Len(raw) :
            /\ Selected(n)
            /\ Goto(w, "examining")
            /\ task' = [task EXCEPT ![w] = [raw |-> n, content |-> raw[n]]]
    /\ UNCHANGED <<site, edits, tables, docLock, rowLock, prior, outcome, crashes>>

Projected(n) == \E t \in Type : n \in ToSet(record[t].history)

\* Mutant: what an earlier start has projected is projected again.
MergedNever(w) == FALSE

\* The selected version has a canonical version already.
Merged(w) == Projected(task[w].raw)

Examine(w) ==
    /\ pc[w] = "examining"
    /\ IF Merged(w)
       THEN /\ Goto(w, "finishing")
            /\ outcome' = [outcome EXCEPT ![w] = "merged"]
       ELSE Goto(w, "reading") /\ UNCHANGED outcome
    /\ UNCHANGED <<site, edits, tables, locks, task, prior, crashes>>

BackfillUpsert(w) ==
    /\ Backfilling(w) /\ MayWrite(w) /\ ~ Clashes(w)
    /\ rowLock' = [rowLock EXCEPT ![TypeOf(w)] = w]
    /\ outcome' = [outcome EXCEPT ![w] = "projected"]
    /\ Goto(w, "finishing")
    /\ UNCHANGED <<site, edits, tables, docLock, runLock, task, prior, crashes>>

\* A unique violation, or anything else that raises for this document: back to
\* the savepoint.
BackfillReject(w) ==
    /\ Backfilling(w)
    /\ \/ pc[w] \in {"examining", "reading"}
       \/ MayWrite(w) /\ Clashes(w)
    /\ rowLock' = FreeRows(w)
    /\ outcome' = [outcome EXCEPT ![w] = "rejected"]
    /\ Goto(w, "finishing")
    /\ UNCHANGED <<site, edits, tables, docLock, runLock, task, prior, crashes>>

EndTask(w) ==
    /\ task' = [task EXCEPT ![w] = NoTask]
    /\ prior' = [prior EXCEPT ![w] = NoPrior]
    /\ outcome' = [outcome EXCEPT ![w] = None]
    /\ docLock' = IF docLock = w THEN None ELSE docLock
    /\ runLock' = IF runLock = w THEN None ELSE runLock
    /\ rowLock' = FreeRows(w)

\* Mutant: rejected documents do not keep the backfill from being completed.
BackfillStatusCompleted(w) == "completed"

\* Mutant: the run keeps the status it was started with.
BackfillStatusRunning(w) == "running"

BackfillStatus(w) == IF outcome[w] = "rejected" THEN "failed" ELSE "completed"

Finish(w) ==
    /\ pc[w] = "finishing"
    /\ IF outcome[w] = "projected" THEN Project(w)
       ELSE UNCHANGED <<record, changes>>
    /\ backfilled' = BackfillStatus(w)
    /\ EndTask(w)
    /\ Goto(w, "scanning")
    /\ UNCHANGED <<site, edits, raw, crashes>>

-----------------------------------------------------------------------------
(* Scans of the page; a transaction per fetch whose content has changed.   *)

Fetch(w) ==
    /\ pc[w] = "scanning"
    /\ docLock = None
    /\ raw # <<>> => Last(raw) # site
    /\ docLock' = w
    /\ task' = [task EXCEPT ![w] = [raw |-> Len(raw) + 1, content |-> site]]
    /\ Goto(w, "reading")
    /\ UNCHANGED <<site, edits, tables, runLock, rowLock, prior, outcome, crashes>>

\* An unchanged page gets an observation, but no version and no record.
FetchUnchanged(w) ==
    /\ pc[w] = "scanning"
    /\ docLock = None
    /\ raw # <<>> /\ Last(raw) = site
    /\ UNCHANGED vars

ScanUpsert(w) ==
    /\ docLock = w /\ MayWrite(w) /\ ~ Clashes(w)
    /\ raw' = Append(raw, task[w].content)
    /\ Project(w)
    /\ EndTask(w)
    /\ Goto(w, "scanning")
    /\ UNCHANGED <<site, edits, backfilled, crashes>>

\* Mutant: the raw version is kept when its record cannot be written.
ScanRejectKeepingVersion(w) ==
    /\ docLock = w /\ MayWrite(w) /\ Clashes(w)
    /\ raw' = Append(raw, task[w].content)
    /\ EndTask(w)
    /\ Goto(w, "scanning")
    /\ UNCHANGED <<site, edits, record, changes, backfilled, crashes>>

\* The unique violation, or anything else that raises, rolls the raw version
\* back as well; the document is skipped.
ScanReject(w) ==
    /\ docLock = w
    /\ \/ pc[w] = "reading"
       \/ MayWrite(w) /\ Clashes(w)
    /\ EndTask(w)
    /\ Goto(w, "scanning")
    /\ UNCHANGED <<site, edits, tables, crashes>>

Crash(w) ==
    /\ crashes < MaxCrashes
    /\ crashes' = crashes + 1
    /\ EndTask(w)
    /\ Goto(w, "starting")
    /\ UNCHANGED <<site, edits, tables>>

-----------------------------------------------------------------------------
Step(w) ==
    \/ Check(w) \/ Select(w) \/ Examine(w) \/ BackfillUpsert(w)
    \/ BackfillReject(w) \/ Finish(w)
    \/ Fetch(w) \/ FetchUnchanged(w) \/ Read(w) \/ Wake(w)
    \/ ScanUpsert(w) \/ ScanReject(w)

Next ==
    \/ \E c \in Content : Edit(c)
    \/ \E w \in Worker : Step(w) \/ Crash(w)

Spec == Init /\ [][Next]_vars

\* The steps that may have to wait for another worker's lock.
Proceed(w) ==
    \/ Select(w) \/ Fetch(w) \/ Wake(w) \/ BackfillUpsert(w) \/ ScanUpsert(w)

\* A worker keeps running, a lock that is free again and again is obtained, and
\* a statement that is tried again and again succeeds in the end.
Fairness ==
    \A w \in Worker :
        WF_vars(Step(w)) /\ SF_vars(Proceed(w)) /\ SF_vars(Read(w))

FairSpec == Spec /\ Fairness

-----------------------------------------------------------------------------
(* Properties.                                                             *)

\* Every raw version that a scan has stored was projected with it, and none
\* twice: a version without a canonical record is one of an earlier release.
VersionsAreProjected ==
    /\ \A n \in 2..Len(raw) : Projected(n)
    /\ \A s, t \in Type :
         \A i \in DOMAIN record[s].history, j \in DOMAIN record[t].history :
            record[s].history[i] = record[t].history[j] => s = t /\ i = j

\* A completed backfill has left no version it had to select without a
\* projection, with scans and other workers' backfills going on beside it.  (A
\* version of an earlier release without a text is not selected and stays
\* without one.)
CompletedMeansProjected ==
    backfilled = "completed" =>
        \A n \in 1..Len(raw) : Selected(n) => Projected(n)

\* docs/canonical-civic-records.md:21, "New canonical records generate
\* `new_record` events": the first version of a record does.  So may the one that
\* comes after or before the version of an earlier release, when a backfill had
\* projected that unseen; no other version does.
OnlyNewRecordsAreNew ==
    \A c \in changes :
        LET made == record[c.type].history IN
        /\ c.to = 1 => c.isNew
        /\ c.isNew /\ c.to # 1 => 1 \in {made[c.to], made[c.to - 1]}

\* docs/canonical-civic-records.md:10, "`civic.canonical_records` presents the
\* current civic interpretation": no raw version is projected after a newer one
\* of its record, but that of an earlier release by a backfill that a scan has
\* overtaken or that found no text in the newer versions.
ProjectionIsCurrent ==
    \A t \in Type : LET made == record[t].history IN
        \A i, j \in DOMAIN made : i < j /\ made[i] > made[j] => made[j] = 1

\* The page shows another identifier than the document's record of its type.
Renumbered == record[site.type].key \notin {None, site.key}

\* The last change of the page is stored, whatever backfills, scans and crashes
\* come before, unless the table's second unique constraint refuses it.
ChangedContentIsStoredUnlessRenumbered ==
    <>[]((raw # <<>> /\ Last(raw) = site) \/ Renumbered)
=============================================================================
