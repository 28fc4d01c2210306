----------------------------- MODULE VectorIndex -----------------------------
(***************************************************************************)
(* The semantic index of one document: the outbox civic.vector_index_jobs, *)
(* one job per document version, filled by triggers; the workers that      *)
(* lease its jobs; and the one Qdrant point that the jobs of all versions  *)
(* of the document write to.                                               *)
(*                                                                         *)
(* A version's text never changes, so what a job writes is its version and *)
(* the revision of the document's metadata it was claimed with.  A worker  *)
(* finishes its batch before it claims again, so the lease token of a job  *)
(* can be represented by the worker that holds it.  Retry delays are left  *)
(* out: a failed job may be claimed at any later time.                     *)
(*                                                                         *)
(* The claim is one READ COMMITTED statement: it finds the due rows and    *)
(* joins the documents on the snapshot it began with, but locks and leases *)
(* the newest version of a job row.  A transaction that commits in between *)
(* is in the lease and not in the metadata, so the claim is two steps.     *)
(***************************************************************************)
EXTENDS Naturals

CONSTANTS
    Indexer,        \* workers that run run_due_vector_index_jobs
    None,           \* SQL NULL, or no point in Qdrant yet
    MaxVersion,     \* bound on the versions of the document
    MaxMeta,        \* bound on the revisions of its metadata
    MaxCrashes      \* bound on the crashes of the workers

ASSUME ConstantsAssumption ==
    /\ None \notin Indexer \cup Nat
    /\ MaxVersion \in Nat /\ MaxMeta \in Nat /\ MaxCrashes \in Nat

VARIABLES
    latest,     \* number of the document's latest version, 0 for none
    meta,       \* revision of title, type, source, department, date, topics
    status,     \* vector_index_jobs.status by version, "none" for no row
    token,      \* vector_index_jobs.lease_token by version
    live,       \* vector_index_jobs.leased_until >= now() by version
    snapshot,   \* what a worker's claim statement saw when it began: the due
                \* jobs and the metadata; None when no claim is running
    batch,      \* metadata revision a worker's claimed job carries, by version
    written,    \* the job a worker has written to Qdrant but not completed
    point,      \* the document's Qdrant point: [version, meta]
    sent,       \* history: everything that was ever written to the point
    behind,     \* history: versions whose job, since it was last requeued,
                \* was leased with metadata older than the document's
    crashes     \* crashes so far

jobVars == <<status, token, live>>
qdrant == <<point, sent>>
vars == <<latest, meta, status, token, live, snapshot, batch, written, point,
          sent, behind, crashes>>

Version == 1..MaxVersion
Payload == [version : Version, meta : 0..MaxMeta]
Status == {"none", "pending", "processing", "completed", "failed"}
Snapshot == [due : SUBSET Version, meta : 0..MaxMeta]

TypeOK ==
    /\ latest \in 0..MaxVersion
    /\ meta \in 0..MaxMeta
    /\ status \in [Version -> Status]
    /\ token \in [Version -> Indexer \cup {None}]
    /\ live \in [Version -> BOOLEAN]
    /\ snapshot \in [Indexer -> Snapshot \cup {None}]
    /\ batch \in [Indexer -> [Version -> 0..MaxMeta \cup {None}]]
    /\ written \in [Indexer -> Version \cup {None}]
    /\ point \in Payload \cup {None}
    /\ sent \subseteq Payload
    /\ behind \subseteq Version
    /\ crashes \in 0..MaxCrashes

Init ==
    /\ latest = 0
    /\ meta = 0
    /\ status = [v \in Version |-> "none"]
    /\ token = [v \in Version |-> None]
    /\ live = [v \in Version |-> FALSE]
    /\ snapshot = [i \in Indexer |-> None]
    /\ batch = [i \in Indexer |-> [v \in Version |-> None]]
    /\ written = [i \in Indexer |-> None]
    /\ point = None
    /\ sent = {}
    /\ behind = {}
    /\ crashes = 0

-----------------------------------------------------------------------------
(* The triggers, inside the transactions of persist_resource.              *)

\* Mutant: the requeued job keeps its lease, so its worker may complete it.
RequeueKeepingLease(V) ==
    /\ status' = [v \in Version |-> IF v \in V THEN "pending" ELSE status[v]]
    /\ behind' = behind \ V
    /\ UNCHANGED <<token, live>>

\* enqueue_document_vector_reindex and enqueue_vector_index_job: the jobs V go
\* back to pending and lose their lease.
Requeue(V) ==
    /\ status' = [v \in Version |-> IF v \in V THEN "pending" ELSE status[v]]
    /\ token' = [v \in Version |-> IF v \in V THEN None ELSE token[v]]
    /\ live' = [v \in Version |-> live[v] /\ v \notin V]
    /\ behind' = behind \ V

\* The upsert of the document may or may not change its metadata.
TouchMeta == meta' \in {meta, meta + 1} \cap 0..MaxMeta

\* Mutant: only a change of the metadata requeues.
RequeuedOnChange == IF meta' = meta THEN {} ELSE {latest} \ {0}

\* The upsert lists the trigger's columns, so every later observation requeues
\* the version that is the latest when it runs.
RequeuedOnUpsert == {latest} \ {0}

\* A changed body: the upsert's trigger still sees the old latest version,
\* then the new version's row gets a job of its own.
ObserveChanged ==
    /\ latest < MaxVersion
    /\ latest' = latest + 1
    /\ TouchMeta
    /\ Requeue(RequeuedOnUpsert \cup {latest + 1})
    /\ UNCHANGED <<snapshot, batch, written, qdrant, crashes>>

ObserveUnchanged ==
    /\ latest > 0
    /\ TouchMeta
    /\ Requeue(RequeuedOnUpsert)
    /\ UNCHANGED <<latest, snapshot, batch, written, qdrant, crashes>>

-----------------------------------------------------------------------------
(* A worker's round over the outbox.                                       *)

Claimable ==
    {v \in Version : \/ status[v] \in {"pending", "failed"}
                     \/ status[v] = "processing" /\ ~ live[v]}

Idle(i) == batch[i] = [v \in Version |-> None]

\* claim_vector_index_jobs begins, and with it its snapshot.  (With no row due
\* it would return at once with nothing.)
BeginClaim(i) ==
    /\ Idle(i)
    /\ snapshot[i] = None
    /\ Claimable # {}
    /\ snapshot' = [snapshot EXCEPT ![i] = [due |-> Claimable, meta |-> meta]]
    /\ UNCHANGED <<latest, meta, jobVars, batch, written, qdrant, behind, crashes>>

\* It commits with the jobs V.  FOR UPDATE rechecks the newest version of each
\* row it locks and SKIP LOCKED may pass over any of them; the metadata is that
\* of the snapshot.
Claim(i, V) ==
    /\ snapshot[i] # None
    /\ V \subseteq snapshot[i].due \cap Claimable
    /\ status' = [v \in Version |-> IF v \in V THEN "processing" ELSE status[v]]
    /\ token' = [v \in Version |-> IF v \in V THEN i ELSE token[v]]
    /\ live' = [v \in Version |-> live[v] \/ v \in V]
    /\ batch' = [batch EXCEPT ![i] =
                   [v \in Version |-> IF v \in V THEN snapshot[i].meta ELSE None]]
    /\ behind' = IF snapshot[i].meta = meta THEN behind \ V ELSE behind \cup V
    /\ snapshot' = [snapshot EXCEPT ![i] = None]
    /\ UNCHANGED <<latest, meta, written, qdrant, crashes>>

ExpireLease(v) ==
    /\ live[v]
    /\ live' = [live EXCEPT ![v] = FALSE]
    /\ UNCHANGED <<latest, meta, status, token, snapshot, batch, written, qdrant,
                   behind, crashes>>

\* index(): embed, then PUT the point of the document, whatever it holds now.
WritePoint(i, v) ==
    LET p == [version |-> v, meta |-> batch[i][v]] IN
    /\ written[i] = None
    /\ batch[i][v] # None
    /\ point' = p
    /\ sent' = sent \cup {p}
    /\ written' = [written EXCEPT ![i] = v]
    /\ UNCHANGED <<latest, meta, jobVars, snapshot, batch, behind, crashes>>

\* Mutant: the result is recorded whoever holds the lease.
SetOutcomeUnfenced(i, v, outcome) ==
    /\ status' = [status EXCEPT ![v] = outcome]
    /\ token' = [token EXCEPT ![v] = None]
    /\ live' = [live EXCEPT ![v] = FALSE]

\* UPDATE ... WHERE lease_token = the worker's: nothing if the lease is gone.
SetOutcome(i, v, outcome) ==
    IF token[v] = i
    THEN /\ status' = [status EXCEPT ![v] = outcome]
         /\ token' = [token EXCEPT ![v] = None]
         /\ live' = [live EXCEPT ![v] = FALSE]
    ELSE UNCHANGED jobVars

Drop(i, v) ==
    /\ batch' = [batch EXCEPT ![i][v] = None]
    /\ written' = [written EXCEPT ![i] = None]

Complete(i, v) ==
    /\ written[i] = v
    /\ SetOutcome(i, v, "completed")
    /\ Drop(i, v)
    /\ UNCHANGED <<latest, meta, snapshot, qdrant, behind, crashes>>

\* The embedding or the PUT raised; the PUT may have been applied all the same,
\* and complete_vector_index_job may raise after it.
Fail(i, v) ==
    /\ batch[i][v] # None
    /\ written[i] \in {None, v}
    /\ SetOutcome(i, v, "failed")
    /\ Drop(i, v)
    /\ UNCHANGED <<latest, meta, snapshot, qdrant, behind, crashes>>

\* The process dies, or fail_vector_index_job raises out of the worker.  (A
\* claim that dies is rolled back, as if it had locked no row.)
Crash(i) ==
    /\ ~ Idle(i)
    /\ crashes < MaxCrashes
    /\ crashes' = crashes + 1
    /\ batch' = [batch EXCEPT ![i] = [v \in Version |-> None]]
    /\ written' = [written EXCEPT ![i] = None]
    /\ UNCHANGED <<latest, meta, jobVars, snapshot, qdrant, behind>>

Work(i) ==
    \E v \in Version : WritePoint(i, v) \/ Complete(i, v) \/ Fail(i, v)

Next ==
    \/ ObserveChanged
    \/ ObserveUnchanged
    \/ \E v \in Version : ExpireLease(v)
    \/ \E i \in Indexer :
         \/ BeginClaim(i)
         \/ \E V \in SUBSET Version : Claim(i, V)
         \/ Work(i)
         \/ Crash(i)

Spec == Init /\ [][Next]_vars

\* Scans recur, leases run out, workers poll, statements and calls return or
\* raise; ORDER BY run_after passes over no job for ever; and a write that is
\* retried for ever succeeds.
Fairness ==
    /\ WF_vars(ObserveUnchanged)
    /\ \A i \in Indexer :
         /\ WF_vars(Work(i))
         /\ WF_vars(BeginClaim(i))
         /\ WF_vars(\E V \in SUBSET Version : Claim(i, V))
    /\ \A v \in Version :
         /\ WF_vars(ExpireLease(v))
         /\ SF_vars(\E i \in Indexer, V \in SUBSET Version : v \in V /\ Claim(i, V))
         /\ SF_vars(\E i \in Indexer : WritePoint(i, v))

FairSpec == Spec /\ Fairness

-----------------------------------------------------------------------------
(* Properties.                                                             *)

\* A change of the document's metadata or text that commits after a job was
\* leased is never lost: a completed job of the latest version means that
\* exactly this version with exactly this metadata was written.  The exception
\* is a change that commits between the snapshot and the row lock of the very
\* statement that leases the job; it is not seen until the document is observed
\* again.
NoLostReindex ==
    latest > 0 /\ status[latest] = "completed" =>
        [version |-> latest, meta |-> meta] \in sent \/ latest \in behind

\* The only worker whose result will be recorded for the latest version carries
\* the metadata the document has now: a claim is fenced off by any change of
\* the document that follows it, by another claim, and by nothing else.  A
\* claim that was overtaken while it ran is the exception.
FencedWorkerIsCurrent ==
    \A i \in Indexer :
        latest > 0 /\ token[latest] = i /\ batch[i][latest] # None =>
            batch[i][latest] = meta \/ latest \in behind

\* The jobs of an old and a new version may be written to the point in either
\* order, so it may show the old version with every job completed.  It does not
\* stay so: the next scan of the document requeues the latest version, which
\* again gets its turn to be written last.
StaleIndexHeals ==
    []<>(latest > 0 => point # None /\ point.version = latest /\ point.meta = meta)
=============================================================================
