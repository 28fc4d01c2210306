--------------------------- MODULE DiscoveryQueue ---------------------------
(***************************************************************************)
(* The discovery queue of the ingestion worker: scheduled scans of the     *)
(* active sources of one organization, leased to workers from PostgreSQL,  *)
(* and the founder refreshes that ride on those scans.                     *)
(*                                                                         *)
(* One action is one committed transaction, except for the transactions    *)
(* that finish a scan: _complete_ingestion_runs reads other sources' rows  *)
(* under READ COMMITTED, so what it saw (BeginComplete, BeginFail) and the *)
(* commit (CommitComplete, CommitFail) are two steps.                      *)
(*                                                                         *)
(* Time is abstract: `due` says run_after <= now(), `live` says            *)
(* leased_until >= now(), and the clock's passage is the actions BecomeDue *)
(* and ExpireLease.  A lease token and the id of the scan it leads to are  *)
(* both fresh uuids and a lease starts at most one scan, so one Token      *)
(* names both.                                                             *)
(***************************************************************************)
EXTENDS Naturals, FiniteSets

CONSTANTS
    Source,       \* rows of civic.sources, each with its discovery job
    Run,          \* ids of the founder refreshes (bounds their number)
    Worker,       \* ingestion worker processes
    Token,        \* lease tokens of a source's job, alias scan ids
    None,         \* SQL NULL
    BatchLimit,   \* job_limit of claim_discovery_jobs; the worker passes 5
    MaxCrashes,   \* bound on the worker crashes of a behaviour
    LostAcks,     \* whether a commit may succeed and still raise
    Managed       \* bound: the sources an operator changes in a behaviour

ASSUME ConstantsAssumption ==
    /\ None \notin Token /\ None \notin Source
    /\ BatchLimit \in 1..100
    /\ MaxCrashes \in Nat
    /\ LostAcks \in BOOLEAN
    /\ Managed \subseteq Source

VARIABLES
    active,     \* sources.is_active
    due,        \* discovery_jobs.run_after <= now()
    token,      \* discovery_jobs.lease_token
    live,       \* discovery_jobs.leased_until >= now()
    run,        \* ingestion_runs.status
    progress,   \* ingestion_run_sources.status
    scanOf,     \* ingestion_run_sources.scan_run_id
    scan,       \* source_scan_runs.status of that scan; others are not kept
    cooling,    \* the last founder refresh is within the cooldown
    pc,         \* where a worker is in _run_job
    held,       \* lease tokens of the worker's claimed, unfinished jobs
    current,    \* source of the job _run_job is at
    closing,    \* runs _complete_ingestion_runs matched, not committed yet
    crashes     \* crashes so far

jobVars == <<due, token, live>>
runVars == <<run, progress, scanOf, scan>>
workerVars == <<pc, held, current, closing>>
vars == <<active, due, token, live, run, progress, scanOf, scan, cooling, pc,
          held, current, closing, crashes>>

Refresh == INSTANCE RefreshRun WITH
    Source <- Source, Run <- Run, run <- run, progress <- progress

Active == {"queued", "running"}
Finished == {"completed", "failed"}
RunStatus == {"none"} \cup Active \cup Finished
ScanStatus == {"none", "running"} \cup Finished
\* "unstarted": start_scan raised, so fail_job is called without a scan id.
Phase == {"ready", "scanning", "completing", "unstarted", "failing",
          "recording"}

TypeOK ==
    /\ active \in [Source -> BOOLEAN]
    /\ due \in [Source -> BOOLEAN]
    /\ token \in [Source -> Token \cup {None}]
    /\ live \in [Source -> BOOLEAN]
    /\ run \in [Run -> RunStatus]
    /\ progress \in [Run -> [Source -> RunStatus]]
    /\ scanOf \in [Run -> [Source -> Token \cup {None}]]
    /\ scan \in [Run -> [Source -> ScanStatus]]
    /\ cooling \in BOOLEAN
    /\ pc \in [Worker -> Phase]
    /\ held \in [Worker -> [Source -> Token \cup {None}]]
    /\ current \in [Worker -> Source \cup {None}]
    /\ closing \in [Worker -> SUBSET Run]
    /\ crashes \in 0..MaxCrashes

-----------------------------------------------------------------------------
\* Inserting an active source enqueues its job; an inactive one has no job yet.
Init ==
    /\ active \in [Source -> BOOLEAN]
    /\ \A s \in Source \ Managed : active[s]
    /\ due = active
    /\ token = [s \in Source |-> None]
    /\ live = [s \in Source |-> FALSE]
    /\ run = [r \in Run |-> "none"]
    /\ progress = [r \in Run |-> [s \in Source |-> "none"]]
    /\ scanOf = [r \in Run |-> [s \in Source |-> None]]
    /\ scan = [r \in Run |-> [s \in Source |-> "none"]]
    /\ cooling = FALSE
    /\ pc = [w \in Worker |-> "ready"]
    /\ held = [w \in Worker |-> [s \in Source |-> None]]
    /\ current = [w \in Worker |-> None]
    /\ closing = [w \in Worker |-> {}]
    /\ crashes = 0

-----------------------------------------------------------------------------
(* Provisioning and the clock.                                             *)

\* An update of is_active, canonical_url or acquisition_policy that leaves the
\* source active makes its job due, through the trigger.
Activate(s) ==
    /\ active' = [active EXCEPT ![s] = TRUE]
    /\ due' = [due EXCEPT ![s] = TRUE]
    /\ UNCHANGED <<token, live, runVars, cooling, workerVars, crashes>>

Deactivate(s) ==
    /\ active[s]
    /\ active' = [active EXCEPT ![s] = FALSE]
    /\ UNCHANGED <<jobVars, runVars, cooling, workerVars, crashes>>

BecomeDue(s) ==
    /\ ~ due[s]
    /\ due' = [due EXCEPT ![s] = TRUE]
    /\ UNCHANGED <<active, token, live, runVars, cooling, workerVars,
                   crashes>>

ExpireLease(s) ==
    /\ live[s]
    /\ live' = [live EXCEPT ![s] = FALSE]
    /\ UNCHANGED <<active, due, token, runVars, cooling, workerVars,
                   crashes>>

CooldownEnds ==
    /\ cooling
    /\ cooling' = FALSE
    /\ UNCHANGED <<active, jobVars, runVars, workerVars, crashes>>

-----------------------------------------------------------------------------
(* A founder asks for a refresh of one source or of all active ones.       *)

Requested == {s \in Source : active[s]}

\* Mutant: the busy check forgets the queued refreshes.
BusyOnlyRunning(s) == \E r \in Run : progress[r][s] = "running"

Busy(s) == \E r \in Run : progress[r][s] \in Active

\* The job of a leased source is left alone.
Enqueue(r, S) ==
    /\ ~ cooling
    /\ run[r] = "none"
    /\ S # {} /\ (S = Requested \/ \E s \in Requested : S = {s})
    /\ \A s \in S : ~ Busy(s)
    /\ run' = [run EXCEPT ![r] = "queued"]
    /\ progress' = [progress EXCEPT ![r] =
                      [s \in Source |-> IF s \in S THEN "queued" ELSE "none"]]
    /\ due' = [s \in Source |-> due[s] \/ (s \in S /\ ~ live[s])]
    /\ cooling' = TRUE
    /\ UNCHANGED <<active, token, live, scanOf, scan, workerVars, crashes>>

-----------------------------------------------------------------------------
(* The worker: claim a batch, then _run_job for each of its jobs.          *)

\* Mutant: only released jobs are due, so an expired lease is never taken over.
DueOnlyReleased == {s \in Source : active[s] /\ due[s] /\ token[s] = None}

Due == {s \in Source : active[s] /\ due[s] /\ ~ live[s]}

InUse(s) ==
    {token[s]} \cup {held[w][s] : w \in Worker} \cup {scanOf[r][s] : r \in Run}

\* gen_random_uuid(): a token nothing refers to.
FreshToken(s) == CHOOSE t \in Token : t \notin InUse(s)

Idle(w) == pc[w] = "ready" /\ \A s \in Source : held[w][s] = None

\* FOR UPDATE SKIP LOCKED passes over rows another transaction has locked, so
\* any nonempty part of the due jobs may come back, up to the limit.
Claim(w, S) ==
    /\ Idle(w)
    /\ S # {} /\ S \subseteq Due /\ Cardinality(S) <= BatchLimit
    /\ \A s \in S : Token \ InUse(s) # {}
    /\ held' = [held EXCEPT ![w] =
                  [s \in Source |-> IF s \in S THEN FreshToken(s) ELSE None]]
    /\ token' = [s \in Source |-> IF s \in S THEN FreshToken(s) ELSE token[s]]
    /\ live' = [s \in Source |-> s \in S \/ live[s]]
    /\ UNCHANGED <<active, due, runVars, cooling, pc, current, closing,
                   crashes>>

\* start_scan for the next job of the batch.  Nothing looks at the lease.
StartScan(w, s, acked) ==
    /\ pc[w] = "ready"
    /\ held[w][s] # None
    /\ acked \/ LostAcks
    /\ pc' = [pc EXCEPT ![w] = IF acked THEN "scanning" ELSE "unstarted"]
    /\ current' = [current EXCEPT ![w] = s]
    /\ progress' = [r \in Run |-> [progress[r] EXCEPT ![s] =
                      IF @ = "queued" THEN "running" ELSE @]]
    /\ scanOf' = [r \in Run |-> [scanOf[r] EXCEPT ![s] =
                    IF progress[r][s] = "queued" THEN held[w][s] ELSE @]]
    /\ scan' = [r \in Run |-> [scan[r] EXCEPT ![s] =
                  IF progress[r][s] = "queued" THEN "running" ELSE @]]
    /\ run' = [r \in Run |->
                 IF run[r] = "queued" /\ progress'[r][s] = "running"
                 THEN "running" ELSE run[r]]
    /\ UNCHANGED <<active, jobVars, cooling, held, closing, crashes>>

\* start_scan raises before it commits anything.
StartScanFails(w, s) ==
    /\ pc[w] = "ready"
    /\ held[w][s] # None
    /\ pc' = [pc EXCEPT ![w] = "unstarted"]
    /\ current' = [current EXCEPT ![w] = s]
    /\ UNCHANGED <<active, jobVars, runVars, cooling, held, closing,
                   crashes>>

\* Mutant: the refresh rows of the source, whichever scan works on them.
ProgressAfterOfSource(w, outcome) ==
    [r \in Run |-> [s \in Source |->
        IF s = current[w] /\ progress[r][s] = "running"
        THEN outcome ELSE progress[r][s]]]

\* Mutant: no status guard, so a late failure rewrites a completed row.
ProgressAfterUnguarded(w, outcome) ==
    [r \in Run |-> [s \in Source |->
        IF s = current[w] /\ scanOf[r][s] = held[w][s]
        THEN outcome ELSE progress[r][s]]]

\* Mutant: fail_job leaves the refresh rows alone.
ProgressAfterSuccessOnly(w, outcome) ==
    [r \in Run |-> [s \in Source |->
        IF s = current[w] /\ scanOf[r][s] = held[w][s]
           /\ progress[r][s] = "running" /\ outcome = "completed"
        THEN outcome ELSE progress[r][s]]]

\* The refresh rows of the worker's scan, set to the scan's outcome.
ProgressAfter(w, outcome) ==
    [r \in Run |-> [s \in Source |->
        IF s = current[w] /\ scanOf[r][s] = held[w][s]
           /\ progress[r][s] = "running"
        THEN outcome ELSE progress[r][s]]]

\* source_scan_runs ... WHERE id = the worker's scan, whatever its status.
ScanAfter(w, outcome) ==
    [r \in Run |-> [s \in Source |->
        IF s = current[w] /\ scanOf[r][s] = held[w][s]
        THEN outcome ELSE scan[r][s]]]

Settled(r, p) == \A s \in Source : p[r][s] \notin Active

\* Mutant: a status the CHECK constraint of ingestion_runs does not know.
OutcomePartial(r, p) ==
    IF \A s \in Source : p[r][s] \in {"completed", "none"} THEN "completed"
    ELSE "partial"

Outcome(r, p) ==
    IF \E s \in Source : p[r][s] = "completed" THEN "completed" ELSE "failed"

\* Mutant: sources that are still queued do not keep a run open.
ClosableUnlessRunning(p) ==
    {r \in Run : run[r] \in Active /\ \A s \in Source : p[r][s] # "running"}

\* The rows the UPDATE of _complete_ingestion_runs matches.
Closable(p) == {r \in Run : run[r] \in Active /\ Settled(r, p)}

RunAfter(w, p) ==
    [r \in Run |-> IF r \in closing[w] /\ run[r] \in Active
                   THEN Outcome(r, p) ELSE run[r]]

\* Mutant: no comparison of the lease token.
ReleaseJobUnfenced(w) ==
    LET s == current[w] IN
    /\ due' = [due EXCEPT ![s] = FALSE]
    /\ token' = [token EXCEPT ![s] = None]
    /\ live' = [live EXCEPT ![s] = FALSE]

\* discovery_jobs ... WHERE lease_token = the worker's: rescheduled, released.
ReleaseJob(w) ==
    LET s == current[w] IN
    IF token[s] = held[w][s]
    THEN /\ due' = [due EXCEPT ![s] = FALSE]
         /\ token' = [token EXCEPT ![s] = None]
         /\ live' = [live EXCEPT ![s] = FALSE]
    ELSE UNCHANGED jobVars

JobDone(w) ==
    /\ pc' = [pc EXCEPT ![w] = "ready"]
    /\ held' = [held EXCEPT ![w][current[w]] = None]
    /\ current' = [current EXCEPT ![w] = None]

\* Crawled and persisted; complete_job has run its UPDATEs of scan and runs.
BeginComplete(w) ==
    /\ pc[w] = "scanning"
    /\ pc' = [pc EXCEPT ![w] = "completing"]
    /\ closing' = [closing EXCEPT ![w] = Closable(ProgressAfter(w, "completed"))]
    /\ UNCHANGED <<active, jobVars, runVars, cooling, held, current,
                   crashes>>

\* complete_job commits; unless the caller hears of it, fail_job comes next.
CommitComplete(w, acked) ==
    /\ pc[w] = "completing"
    /\ acked \/ LostAcks
    /\ scan' = ScanAfter(w, "completed")
    /\ progress' = ProgressAfter(w, "completed")
    /\ run' = RunAfter(w, progress')
    /\ ReleaseJob(w)
    /\ closing' = [closing EXCEPT ![w] = {}]
    /\ IF acked THEN JobDone(w)
       ELSE pc' = [pc EXCEPT ![w] = "failing"] /\ UNCHANGED <<held, current>>
    /\ UNCHANGED <<active, scanOf, cooling, crashes>>

\* The crawl, the context or complete_job raised; a transaction rolls back.
ScanRaises(w) ==
    /\ pc[w] \in {"scanning", "completing"}
    /\ pc' = [pc EXCEPT ![w] = "failing"]
    /\ closing' = [closing EXCEPT ![w] = {}]
    /\ UNCHANGED <<active, jobVars, runVars, cooling, held, current,
                   crashes>>

\* fail_job with a scan id has run its UPDATEs of scan and runs.
BeginFail(w) ==
    /\ pc[w] = "failing"
    /\ pc' = [pc EXCEPT ![w] = "recording"]
    /\ closing' = [closing EXCEPT ![w] = Closable(ProgressAfter(w, "failed"))]
    /\ UNCHANGED <<active, jobVars, runVars, cooling, held, current,
                   crashes>>

CommitFail(w) ==
    /\ pc[w] = "recording"
    /\ scan' = ScanAfter(w, "failed")
    /\ progress' = ProgressAfter(w, "failed")
    /\ run' = RunAfter(w, progress')
    /\ ReleaseJob(w)
    /\ closing' = [closing EXCEPT ![w] = {}]
    /\ JobDone(w)
    /\ UNCHANGED <<active, scanOf, cooling, crashes>>

\* fail_job without a scan id only reschedules the job.
FailUnstarted(w) ==
    /\ pc[w] = "unstarted"
    /\ ReleaseJob(w)
    /\ JobDone(w)
    /\ UNCHANGED <<active, runVars, cooling, closing, crashes>>

\* The process dies, or fail_job raises out of run_worker.  The restarted
\* worker knows nothing; PostgreSQL rolls back a transaction in flight.
Crash(w) ==
    /\ ~ Idle(w)
    /\ crashes < MaxCrashes
    /\ crashes' = crashes + 1
    /\ pc' = [pc EXCEPT ![w] = "ready"]
    /\ held' = [held EXCEPT ![w] = [s \in Source |-> None]]
    /\ current' = [current EXCEPT ![w] = None]
    /\ closing' = [closing EXCEPT ![w] = {}]
    /\ UNCHANGED <<active, jobVars, runVars, cooling>>

-----------------------------------------------------------------------------
Clock ==
    \/ \E s \in Source : BecomeDue(s) \/ ExpireLease(s)
    \/ CooldownEnds

Operator ==
    \/ \E s \in Managed : Activate(s) \/ Deactivate(s)
    \/ \E r \in Run, S \in SUBSET Source : Enqueue(r, S)

RunJob(w) ==
    \/ \E s \in Source :
         \/ \E acked \in BOOLEAN : StartScan(w, s, acked)
         \/ StartScanFails(w, s)
    \/ BeginComplete(w)
    \/ \E acked \in BOOLEAN : CommitComplete(w, acked)
    \/ ScanRaises(w)
    \/ BeginFail(w)
    \/ CommitFail(w)
    \/ FailUnstarted(w)

Next ==
    \/ Clock
    \/ Operator
    \/ \E w \in Worker :
         \/ \E S \in SUBSET Source : Claim(w, S)
         \/ RunJob(w)
         \/ Crash(w)

Spec == Init /\ [][Next]_vars

ClaimsSource(s) == \E w \in Worker, S \in SUBSET Source : s \in S /\ Claim(w, S)

StartsSource(s) == \E w \in Worker : StartScan(w, s, TRUE)

\* Time passes; a worker's HTTP requests and statements return or raise; ORDER
\* BY run_after, created_at lets no due job be passed over for ever; and an
\* INSERT that is tried again and again succeeds in the end.
Fairness ==
    /\ \A s \in Source :
         /\ WF_vars(BecomeDue(s)) /\ WF_vars(ExpireLease(s))
         /\ SF_vars(ClaimsSource(s)) /\ SF_vars(StartsSource(s))
    /\ \A w \in Worker : WF_vars(RunJob(w))

FairSpec == Spec /\ Fairness

-----------------------------------------------------------------------------
(* Safety.                                                                 *)

\* A source is queued or running in at most one refresh, however scans and
\* requests interleave: the busy check of enqueue and the partial unique index.
OneRefreshPerSource ==
    \A s \in Source, r1, r2 \in Run :
        progress[r1][s] \in Active /\ progress[r2][s] \in Active => r1 = r2

\* A closed refresh has no unfinished source and the outcome its sources add up
\* to, although _complete_ingestion_runs decided to close it from a snapshot
\* that other workers have moved on from; a queued one has not been started.
RunAgreesWithSources ==
    \A r \in Run :
        /\ run[r] \in Finished =>
             /\ \A s \in Source : progress[r][s] \in Finished \cup {"none"}
             /\ run[r] = "completed" <=>
                  \E s \in Source : progress[r][s] = "completed"
        /\ run[r] = "queued" =>
             \A s \in Source : progress[r][s] \in {"queued", "none"}

\* The refresh row of a source and the scan that worked on it agree on what
\* happened, even when an expired lease lets two workers scan the source and
\* finish in any order.  One disagreement is left: when the acknowledgement of
\* complete_job is lost, fail_job overwrites the outcome of the scan.
ScanAgreesWithRefresh ==
    \A r \in Run, s \in Source :
        /\ progress[r][s] \in {"running", "failed"} => scan[r][s] = progress[r][s]
        /\ progress[r][s] = "completed" =>
             scan[r][s] = "completed" \/ (LostAcks /\ scan[r][s] = "failed")

\* A lease that has not expired is given up by its own holder and by nobody
\* else: no other worker's claim, completion, failure or crash touches it.
LiveLeaseIsKept ==
    [][\A s \in Source :
         live[s] /\ token'[s] # token[s] =>
           \E w \in Worker : /\ current[w] = s
                              /\ held[w][s] = token[s]
                              /\ pc'[w] # pc[w]]_vars

\* The queue under its workers is a founder refresh as RefreshRun promises it.
ImplementsRefresh == Refresh!Spec

-----------------------------------------------------------------------------
(* Liveness.                                                               *)

StaysActive(s) == <>[]active[s]

\* A source that stays active is scanned again and again, whatever fails and
\* whichever worker dies with its lease.
SourceKeepsBeingScanned ==
    \A s \in Source : StaysActive(s) =>
        []<>(\E w \in Worker : current[w] = s /\ pc[w] = "scanning")

\* A requested refresh of sources that stay active comes to an end, although two
\* workers that finish its last two sources at once both leave it open: each has
\* read the other's source as running, and some later scan has to close it.
RefreshFinishes ==
    (\A s \in Source : StaysActive(s)) =>
        \A r \in Run : run[r] = "queued" ~> run[r] \in Finished
=============================================================================
