---------------------------- MODULE DocumentStore ----------------------------
(***************************************************************************)
(* How one public document gets into the archive: workers whose scans      *)
(* overlap fetch the page, put its bytes into the object store, and append *)
(* a version in one transaction, statement by statement.                   *)
(*                                                                         *)
(* A body stands for its SHA-256 hash, its object key and the text that is *)
(* extracted from it.  The upsert of civic.documents locks the document's  *)
(* row until the transaction ends, and the advisory lock after it does so  *)
(* again, so the two are one lock.  Under that lock nobody else inserts a  *)
(* version: the INSERTs and the commit are one step.  One of them is the   *)
(* upsert of the canonical record (CanonicalProjection has its steps): it  *)
(* raises for a body whose record clashes with that of a stored version.   *)
(***************************************************************************)
EXTENDS Naturals, Sequences

CONSTANTS
    Body,       \* contents the page may have
    Readable,   \* those of them that a text can be extracted from
    Record,     \* the record type and identifier the extractor reads from one
    Worker,     \* workers whose scans reach the page
    None,       \* nobody, or nothing fetched
    MaxEdits    \* bound on the changes of the page

ASSUME ConstantsAssumption ==
    /\ None \notin Worker \cup Body
    /\ Readable \subseteq Body
    /\ Record \in [Body -> [type : STRING, key : STRING]]
    /\ MaxEdits \in Nat

VARIABLES
    site,           \* the page as its publisher serves it
    edits,          \* changes of the page so far
    objects,        \* bodies in the S3 bucket, under artifacts/sha256
    versions,       \* document_versions.content_hash by version_number
    observations,   \* source_observations: [version, body]
    lock,           \* the worker whose transaction locks the document
    pc,             \* where a worker is with the page
    body,           \* what it has fetched
    seen            \* version_number of the latest version it has read, or 0

vars == <<site, edits, objects, versions, observations, lock, pc, body, seen>>

Phase == {"idle", "fetched", "stored", "locked", "compared"}

TypeOK ==
    /\ site \in Body
    /\ edits \in 0..MaxEdits
    /\ objects \subseteq Body
    /\ versions \in Seq(Body)
    /\ observations \subseteq [version : Nat \ {0}, body : Body]
    /\ lock \in Worker \cup {None}
    /\ pc \in [Worker -> Phase]
    /\ body \in [Worker -> Body \cup {None}]
    /\ seen \in [Worker -> Nat]

Init ==
    /\ site \in Body
    /\ edits = 0
    /\ objects = {}
    /\ versions = <<>>
    /\ observations = {}
    /\ lock = None
    /\ pc = [w \in Worker |-> "idle"]
    /\ body = [w \in Worker |-> None]
    /\ seen = [w \in Worker |-> 0]

-----------------------------------------------------------------------------
Edit(b) ==
    /\ edits < MaxEdits
    /\ site # b
    /\ site' = b
    /\ edits' = edits + 1
    /\ UNCHANGED <<objects, versions, observations, lock, pc, body, seen>>

\* The crawl returns all pages of a source before the first one is stored, so a
\* body may be old by then.
Fetch(w) ==
    /\ pc[w] = "idle"
    /\ pc' = [pc EXCEPT ![w] = "fetched"]
    /\ body' = [body EXCEPT ![w] = site]
    /\ UNCHANGED <<site, edits, objects, versions, observations, lock, seen>>

\* Mutant: an upload that failed goes unnoticed.
PutUnnoticed(w) ==
    /\ pc[w] = "fetched"
    /\ body[w] \in Readable
    /\ pc' = [pc EXCEPT ![w] = "stored"]
    /\ objects' \in {objects, objects \cup {body[w]}}
    /\ UNCHANGED <<site, edits, versions, observations, lock, body, seen>>

\* Text extraction, then put_object, whether or not the object is there.
Put(w) ==
    /\ pc[w] = "fetched"
    /\ body[w] \in Readable
    /\ pc' = [pc EXCEPT ![w] = "stored"]
    /\ objects' = objects \cup {body[w]}
    /\ UNCHANGED <<site, edits, versions, observations, lock, body, seen>>

\* Mutant: ON CONFLICT DO NOTHING, and no advisory lock.
LockUnwaited(w) ==
    /\ pc[w] = "stored"
    /\ lock' = w
    /\ pc' = [pc EXCEPT ![w] = "locked"]
    /\ UNCHANGED <<site, edits, objects, versions, observations, body, seen>>

\* The upsert of the document, which waits for another worker's commit.
Lock(w) ==
    /\ pc[w] = "stored"
    /\ lock = None
    /\ lock' = w
    /\ pc' = [pc EXCEPT ![w] = "locked"]
    /\ UNCHANGED <<site, edits, objects, versions, observations, body, seen>>

\* SELECT ... ORDER BY version_number DESC LIMIT 1
ReadLatest(w) ==
    /\ pc[w] = "locked"
    /\ pc' = [pc EXCEPT ![w] = "compared"]
    /\ seen' = [seen EXCEPT ![w] = Len(versions)]
    /\ UNCHANGED <<site, edits, objects, versions, observations, lock, body>>

\* Mutant: the hash is looked up among all versions.
ChangedEver(w) == \A n \in 1..seen[w] : versions[n] # body[w]

Changed(w) == seen[w] = 0 \/ versions[seen[w]] # body[w]

\* Mutant: max(version_number) without the increment.
NextNumberOfLatest == Len(versions)

\* COALESCE(max(version_number) + 1, 1)
NextNumber == Len(versions) + 1

\* Mutant: the observation names the version it was compared with.
ObservedVersionSeen(w) == IF seen[w] = 0 THEN 1 ELSE seen[w]

ObservedVersion(w) == IF Changed(w) THEN NextNumber ELSE seen[w]

Leave(w) ==
    /\ lock' = IF lock = w THEN None ELSE lock
    /\ pc' = [pc EXCEPT ![w] = "idle"]
    /\ body' = [body EXCEPT ![w] = None]
    /\ seen' = [seen EXCEPT ![w] = 0]

\* UNIQUE (organization_id, raw_document_id, record_type): a stored version has
\* given the document a record of this type under another identifier.
Refused(b) ==
    \E n \in 1..Len(versions) :
        /\ Record[versions[n]].type = Record[b].type
        /\ Record[versions[n]].key # Record[b].key

\* An unchanged body gets an observation only, and no record.
Accepted(w) == Changed(w) => ~ Refused(body[w])

Commit(w) ==
    /\ pc[w] = "compared"
    /\ Accepted(w)
    /\ versions' = IF Changed(w) THEN Append(versions, body[w]) ELSE versions
    /\ observations' = observations \cup
                         {[version |-> ObservedVersion(w), body |-> body[w]]}
    /\ Leave(w)
    /\ UNCHANGED <<site, edits, objects>>

\* Extraction, upload or a statement raised, or the process died: the document
\* is skipped and its transaction rolled back; an uploaded object stays.
Discard(w) ==
    /\ pc[w] # "idle"
    /\ Leave(w)
    /\ UNCHANGED <<site, edits, objects, versions, observations>>

\* For these bodies it always ends so.
Reject(w) ==
    /\ \/ pc[w] = "fetched" /\ body[w] \notin Readable
       \/ pc[w] = "compared" /\ ~ Accepted(w)
    /\ Discard(w)

Next ==
    \/ \E b \in Body : Edit(b)
    \/ \E w \in Worker :
         \/ Fetch(w) \/ Put(w) \/ Lock(w) \/ ReadLatest(w) \/ Commit(w)
         \/ Discard(w)

Spec == Init /\ [][Next]_vars

\* Scans recur for ever, and what is tried again and again succeeds in the end,
\* unless it is a body that raises each time: then the scan goes on without.
Fairness ==
    \A w \in Worker :
        /\ WF_vars(Fetch(w))
        /\ SF_vars(Put(w)) /\ SF_vars(Lock(w))
        /\ SF_vars(ReadLatest(w)) /\ SF_vars(Commit(w))
        /\ WF_vars(Reject(w))

FairSpec == Spec /\ Fairness

-----------------------------------------------------------------------------
(* Properties.                                                             *)

\* Every version's raw bytes are in the object store, although upload and
\* transaction are two systems and either may fail.
VersionsHaveArtifacts == \A n \in 1..Len(versions) : versions[n] \in objects

\* An observation names the version that holds the body it has fetched, and
\* every version has the observation that led to it.
ObservationsMatchVersions ==
    observations = {[version |-> n, body |-> versions[n]] : n \in 1..Len(versions)}

\* Whatever overlaps, versions are only appended and never repeat the latest.
EvidenceLog == INSTANCE EvidenceLog WITH Body <- Body, versions <- versions
ImplementsEvidenceLog == EvidenceLog!Spec

\* When the publisher stops changing the page, the latest version shows it for
\* ever, although old fetches may be stored after newer ones before that.  Two
\* kinds of page are skipped on every scan instead: one without an extractable
\* text, and one whose identifier is not that of a stored version.
StoreCatchesUpUnlessRefused ==
    <>[](\/ versions # <<>> /\ versions[Len(versions)] = site
         \/ site \notin Readable
         \/ Refused(site))
=============================================================================
