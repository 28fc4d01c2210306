----------------------------- MODULE RefreshRun -----------------------------
(***************************************************************************)
(* What a founder refresh promises, with no queue, lease or worker in      *)
(* sight: a run is requested for some sources, every source is scanned     *)
(* once, and the run closes after its last source with the outcome the     *)
(* sources add up to.  DiscoveryQueue implements this specification.       *)
(***************************************************************************)
CONSTANTS
    Source,     \* rows of civic.sources of one organization
    Run         \* ids of civic.ingestion_runs

VARIABLES
    run,        \* civic.ingestion_runs.status, "none" before the request
    progress    \* civic.ingestion_run_sources.status, "none" for no row

refreshVars == <<run, progress>>

Active == {"queued", "running"}
Finished == {"completed", "failed"}
RunStatus == {"none"} \cup Active \cup Finished

\* All sources of run r have finished under the source statuses p.
Settled(r, p) == \A s \in Source : p[r][s] \notin Active

\* The outcome of a settled run: one completed source is enough.
Outcome(r, p) ==
    IF \E s \in Source : p[r][s] = "completed" THEN "completed" ELSE "failed"

Busy(s) == \E r \in Run : progress[r][s] \in Active

-----------------------------------------------------------------------------
Init ==
    /\ run = [r \in Run |-> "none"]
    /\ progress = [r \in Run |-> [s \in Source |-> "none"]]

\* A refresh of the sources S is accepted only when none of them is busy.
Request(r, S) ==
    /\ run[r] = "none"
    /\ S # {}
    /\ \A s \in S : ~ Busy(s)
    /\ run' = [run EXCEPT ![r] = "queued"]
    /\ progress' = [progress EXCEPT ![r] =
                      [s \in Source |-> IF s \in S THEN "queued" ELSE "none"]]

\* A scan of source s starts and takes up the refresh that waits for it.
Start(s) ==
    /\ progress' = [r \in Run |-> [progress[r] EXCEPT ![s] =
                      IF @ = "queued" THEN "running" ELSE @]]
    /\ run' = [r \in Run |->
                 IF run[r] = "queued" /\ progress'[r][s] = "running"
                 THEN "running" ELSE run[r]]

\* The refresh of source s finishes in the runs of R, and the runs of C, all
\* of them settled by now, are closed.  C may leave out a settled run: the
\* code closes runs in an UPDATE that may not see another worker's commit.
Finish(s, R, C, outcome) ==
    /\ \A r \in R : progress[r][s] = "running"
    /\ progress' = [r \in Run |-> [progress[r] EXCEPT ![s] =
                      IF r \in R THEN outcome ELSE @]]
    /\ \A r \in C : run[r] \in Active => Settled(r, progress')
    /\ run' = [r \in Run |-> IF r \in C /\ run[r] \in Active
                             THEN Outcome(r, progress') ELSE run[r]]

Next ==
    \/ \E r \in Run, S \in SUBSET Source : Request(r, S)
    \/ \E s \in Source : Start(s)
    \/ \E s \in Source, R, C \in SUBSET Run, outcome \in Finished :
         Finish(s, R, C, outcome)

Spec == Init /\ [][Next]_refreshVars
=============================================================================
