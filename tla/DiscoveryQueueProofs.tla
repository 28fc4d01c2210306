------------------------ MODULE DiscoveryQueueProofs ------------------------
(***************************************************************************)
(* Theorems about DiscoveryQueue for any numbers of sources, refreshes,    *)
(* workers, tokens and crashes.                                            *)
(***************************************************************************)
EXTENDS DiscoveryQueue, TLAPS

\* In the middle of _run_job a worker has a source and a token for it, and only
\* a transaction in flight has runs to close.
PhaseInv ==
    \A w \in Worker :
        /\ pc[w] # "ready" =>
             current[w] \in Source /\ held[w][current[w]] \in Token
        /\ pc[w] \notin {"completing", "recording"} => closing[w] = {}

\* What makes the decision to close a run stable from the statement that took
\* it to the commit: the only source that may still be running is the worker's
\* own, under the worker's own scan.
ClosingInv ==
    \A w \in Worker : \A r \in closing[w], s \in Source :
        /\ run[r] # "none"
        /\ \/ progress[r][s] \in Finished \cup {"none"}
           \/ /\ progress[r][s] = "running"
              /\ s = current[w]
              /\ scanOf[r][s] = held[w][s]

IInv == TypeOK /\ PhaseInv /\ ClosingInv /\ RunAgreesWithSources

-----------------------------------------------------------------------------
(* Lemmas about the operators the actions are built from.                  *)

\* A fresh token is a token, when there is one left.
LEMMA FreshTokenType ==
    ASSUME NEW s \in Source, Token \ InUse(s) # {}
    PROVE  FreshToken(s) \in Token /\ FreshToken(s) \notin InUse(s)
BY DEF FreshToken

\* The refresh rows keep their type when a scan ends.
LEMMA ProgressAfterType ==
    ASSUME TypeOK, NEW w \in Worker, NEW outcome \in Finished
    PROVE  ProgressAfter(w, outcome) \in [Run -> [Source -> RunStatus]]
BY DEF ProgressAfter, TypeOK, RunStatus

\* Closing runs keeps the type of their status.
LEMMA RunAfterType ==
    ASSUME TypeOK, NEW w \in Worker, NEW p
    PROVE  RunAfter(w, p) \in [Run -> RunStatus]
BY DEF RunAfter, Outcome, TypeOK, RunStatus, Finished

\* The scans keep their type when one of them ends.
LEMMA ScanAfterType ==
    ASSUME TypeOK, NEW w \in Worker, NEW outcome \in Finished
    PROVE  ScanAfter(w, outcome) \in [Run -> [Source -> ScanStatus]]
BY DEF ScanAfter, TypeOK, ScanStatus

\* Releasing a job keeps the type of the jobs.
LEMMA ReleaseJobType ==
    ASSUME TypeOK, NEW w \in Worker, ReleaseJob(w)
    PROVE  /\ due' \in [Source -> BOOLEAN]
           /\ token' \in [Source -> Token \cup {None}]
           /\ live' \in [Source -> BOOLEAN]
BY DEF ReleaseJob, TypeOK, jobVars

\* Leaving a job behind keeps the type of the worker's state.
LEMMA JobDoneType ==
    ASSUME TypeOK, NEW w \in Worker, JobDone(w)
    PROVE  /\ pc' \in [Worker -> Phase]
           /\ held' \in [Worker -> [Source -> Token \cup {None}]]
           /\ current' \in [Worker -> Source \cup {None}]
<1>1. pc' \in [Worker -> Phase]
  BY DEF JobDone, TypeOK, Phase
<1>2. held' \in [Worker -> [Source -> Token \cup {None}]]
  BY DEF JobDone, TypeOK
<1>3. current' \in [Worker -> Source \cup {None}]
  BY DEF JobDone, TypeOK
<1> QED BY <1>1, <1>2, <1>3

-----------------------------------------------------------------------------
(* Type correctness.                                                       *)

\* Every step keeps the types: one step of the proof per action.
LEMMA TypeStep == TypeOK /\ [Next]_vars => TypeOK'
<1> SUFFICES ASSUME TypeOK, [Next]_vars PROVE TypeOK'
  OBVIOUS
<1> USE DEF TypeOK, jobVars, runVars, workerVars
<1>1. ASSUME NEW s \in Source, Activate(s) \/ Deactivate(s) PROVE TypeOK'
  BY <1>1 DEF Activate, Deactivate
<1>2. ASSUME NEW s \in Source, BecomeDue(s) \/ ExpireLease(s) PROVE TypeOK'
  BY <1>2 DEF BecomeDue, ExpireLease
<1>3. CASE CooldownEnds
  BY <1>3 DEF CooldownEnds
<1>4. ASSUME NEW r \in Run, NEW S \in SUBSET Source, Enqueue(r, S)
      PROVE TypeOK'
  BY <1>4 DEF Enqueue, RunStatus, Active
<1>5. ASSUME NEW w \in Worker, NEW S \in SUBSET Source, Claim(w, S)
      PROVE TypeOK'
  <2>1. \A s \in S : FreshToken(s) \in Token
    BY <1>5, FreshTokenType DEF Claim
  <2>2. /\ held' \in [Worker -> [Source -> Token \cup {None}]]
        /\ token' \in [Source -> Token \cup {None}]
        /\ live' \in [Source -> BOOLEAN]
    BY <1>5, <2>1 DEF Claim
  <2> QED BY <1>5, <2>2 DEF Claim
<1>6. ASSUME NEW w \in Worker, NEW s \in Source, NEW acked \in BOOLEAN,
             StartScan(w, s, acked)
      PROVE TypeOK'
  <2>1. /\ progress' \in [Run -> [Source -> RunStatus]]
        /\ scanOf' \in [Run -> [Source -> Token \cup {None}]]
        /\ scan' \in [Run -> [Source -> ScanStatus]]
    BY <1>6 DEF StartScan, RunStatus, ScanStatus, Active
  <2>2. run' \in [Run -> RunStatus]
    BY <1>6 DEF StartScan, RunStatus, Active
  <2>3. pc' \in [Worker -> Phase]
    BY <1>6 DEF StartScan, Phase
  <2>4. current' \in [Worker -> Source \cup {None}]
    BY <1>6 DEF StartScan
  <2> QED BY <1>6, <2>1, <2>2, <2>3, <2>4 DEF StartScan
<1>7. ASSUME NEW w \in Worker, NEW s \in Source, StartScanFails(w, s)
      PROVE TypeOK'
  BY <1>7 DEF StartScanFails, Phase
<1>8. ASSUME NEW w \in Worker, BeginComplete(w) \/ BeginFail(w) PROVE TypeOK'
  BY <1>8 DEF BeginComplete, BeginFail, Closable, Phase
<1>9. ASSUME NEW w \in Worker, NEW acked \in BOOLEAN, CommitComplete(w, acked)
      PROVE TypeOK'
  <2>1. /\ progress' \in [Run -> [Source -> RunStatus]]
        /\ run' \in [Run -> RunStatus]
        /\ scan' \in [Run -> [Source -> ScanStatus]]
    BY <1>9, ProgressAfterType, RunAfterType, ScanAfterType
    DEF CommitComplete, Finished
  <2>2. /\ due' \in [Source -> BOOLEAN]
        /\ token' \in [Source -> Token \cup {None}]
        /\ live' \in [Source -> BOOLEAN]
    BY <1>9, ReleaseJobType DEF CommitComplete
  <2>3. /\ pc' \in [Worker -> Phase]
        /\ held' \in [Worker -> [Source -> Token \cup {None}]]
        /\ current' \in [Worker -> Source \cup {None}]
    <3>1. CASE acked
      BY <1>9, <3>1, JobDoneType DEF CommitComplete
    <3>2. CASE ~ acked
      BY <1>9, <3>2 DEF CommitComplete, Phase
    <3> QED BY <3>1, <3>2
  <2> QED BY <1>9, <2>1, <2>2, <2>3 DEF CommitComplete
<1>10. ASSUME NEW w \in Worker, ScanRaises(w) PROVE TypeOK'
  BY <1>10 DEF ScanRaises, Phase
<1>11. ASSUME NEW w \in Worker, CommitFail(w) PROVE TypeOK'
  <2>1. /\ progress' \in [Run -> [Source -> RunStatus]]
        /\ run' \in [Run -> RunStatus]
        /\ scan' \in [Run -> [Source -> ScanStatus]]
    BY <1>11, ProgressAfterType, RunAfterType, ScanAfterType
    DEF CommitFail, Finished
  <2>2. /\ due' \in [Source -> BOOLEAN]
        /\ token' \in [Source -> Token \cup {None}]
        /\ live' \in [Source -> BOOLEAN]
    BY <1>11, ReleaseJobType DEF CommitFail
  <2>3. /\ pc' \in [Worker -> Phase]
        /\ held' \in [Worker -> [Source -> Token \cup {None}]]
        /\ current' \in [Worker -> Source \cup {None}]
    BY <1>11, JobDoneType DEF CommitFail
  <2> QED BY <1>11, <2>1, <2>2, <2>3 DEF CommitFail
<1>12. ASSUME NEW w \in Worker, FailUnstarted(w) PROVE TypeOK'
  <2>1. /\ due' \in [Source -> BOOLEAN]
        /\ token' \in [Source -> Token \cup {None}]
        /\ live' \in [Source -> BOOLEAN]
    BY <1>12, ReleaseJobType DEF FailUnstarted
  <2>2. /\ pc' \in [Worker -> Phase]
        /\ held' \in [Worker -> [Source -> Token \cup {None}]]
        /\ current' \in [Worker -> Source \cup {None}]
    BY <1>12, JobDoneType DEF FailUnstarted
  <2> QED BY <1>12, <2>1, <2>2 DEF FailUnstarted
<1>13. ASSUME NEW w \in Worker, Crash(w) PROVE TypeOK'
  <2>1. crashes' \in 0..MaxCrashes
    BY <1>13, ConstantsAssumption DEF Crash
  <2> QED BY <1>13, <2>1 DEF Crash, Phase
<1>14. CASE UNCHANGED vars
  BY <1>14 DEF vars
<1> HIDE DEF TypeOK, jobVars, runVars, workerVars
<1> QED
  <2>1. CASE Clock
    BY <2>1, <1>2, <1>3 DEF Clock
  <2>2. CASE Operator
    BY <2>2, <1>1, <1>4, ConstantsAssumption DEF Operator
  <2>3. ASSUME NEW w \in Worker, RunJob(w) PROVE TypeOK'
    BY <2>3, <1>6, <1>7, <1>8, <1>9, <1>10, <1>11, <1>12 DEF RunJob
  <2> QED BY <2>1, <2>2, <2>3, <1>5, <1>13, <1>14 DEF Next

-----------------------------------------------------------------------------
(* The phases of a worker.                                                 *)

\* No step leaves a worker in a phase without the state the phase relies on.
LEMMA PhaseStep == TypeOK /\ PhaseInv /\ [Next]_vars => PhaseInv'
<1> SUFFICES ASSUME TypeOK, PhaseInv, [Next]_vars,
                    NEW v \in Worker
             PROVE  /\ pc'[v] # "ready" =>
                         current'[v] \in Source /\ held'[v][current'[v]] \in Token
                    /\ pc'[v] \notin {"completing", "recording"} => closing'[v] = {}
  BY DEF PhaseInv
<1> DEFINE Goal == /\ pc'[v] # "ready" =>
                         current'[v] \in Source /\ held'[v][current'[v]] \in Token
                   /\ pc'[v] \notin {"completing", "recording"} => closing'[v] = {}
<1>0. /\ pc[v] # "ready" => current[v] \in Source /\ held[v][current[v]] \in Token
      /\ pc[v] \notin {"completing", "recording"} => closing[v] = {}
  BY DEF PhaseInv
<1>1. ASSUME UNCHANGED workerVars PROVE Goal
  BY <1>0, <1>1 DEF workerVars
<1>2. ASSUME NEW w \in Worker, NEW S \in SUBSET Source, Claim(w, S) PROVE Goal
  <2>1. CASE v = w
    BY <1>0, <1>2, <2>1 DEF Claim, Idle, TypeOK
  <2>2. CASE v # w
    BY <1>0, <1>2, <2>2 DEF Claim, TypeOK
  <2> QED BY <2>1, <2>2
<1>3. ASSUME NEW w \in Worker, NEW s \in Source, NEW acked \in BOOLEAN,
             StartScan(w, s, acked) \/ StartScanFails(w, s)
      PROVE Goal
  <2>0. pc[w] = "ready" /\ held[w][s] # None
    BY <1>3 DEF StartScan, StartScanFails
  <2>1. held[w][s] \in Token
    BY <2>0 DEF TypeOK
  <2>5. closing[w] = {}
    BY <2>0 DEF PhaseInv
  <2>2. /\ current' = [current EXCEPT ![w] = s]
        /\ pc' \in {[pc EXCEPT ![w] = p] : p \in {"scanning", "unstarted"}}
        /\ UNCHANGED <<held, closing>>
    BY <1>3 DEF StartScan, StartScanFails
  <2>3. CASE v = w
    BY <2>1, <2>2, <2>3, <2>5 DEF TypeOK
  <2>4. CASE v # w
    BY <1>0, <2>2, <2>4 DEF TypeOK
  <2> QED BY <2>3, <2>4
<1>4. ASSUME NEW w \in Worker, BeginComplete(w) \/ BeginFail(w) PROVE Goal
  BY <1>0, <1>4 DEF BeginComplete, BeginFail, TypeOK
<1>5. ASSUME NEW w \in Worker, NEW acked \in BOOLEAN, CommitComplete(w, acked)
      PROVE Goal
  <2>1. CASE v = w
    <3>1. closing'[v] = {}
      BY <1>5, <2>1 DEF CommitComplete, TypeOK
    <3>2. acked => pc'[v] = "ready"
      BY <1>5, <2>1 DEF CommitComplete, JobDone, TypeOK
    <3>3. ~ acked => pc[v] # "ready" /\ UNCHANGED <<held, current>>
      BY <1>5, <2>1 DEF CommitComplete
    <3> QED BY <1>0, <3>1, <3>2, <3>3
  <2>2. CASE v # w
    <3>1. /\ pc'[v] = pc[v] /\ closing'[v] = closing[v]
          /\ current'[v] = current[v] /\ held'[v] = held[v]
      BY <1>5, <2>2 DEF CommitComplete, JobDone, TypeOK
    <3> QED BY <1>0, <3>1
  <2> QED BY <2>1, <2>2
<1>6. ASSUME NEW w \in Worker, ScanRaises(w) PROVE Goal
  BY <1>0, <1>6 DEF ScanRaises, TypeOK
<1>7. ASSUME NEW w \in Worker, CommitFail(w) PROVE Goal
  BY <1>0, <1>7 DEF CommitFail, JobDone, TypeOK
<1>8. ASSUME NEW w \in Worker, FailUnstarted(w) PROVE Goal
  BY <1>0, <1>8 DEF FailUnstarted, JobDone, TypeOK
<1>9. ASSUME NEW w \in Worker, Crash(w) PROVE Goal
  BY <1>0, <1>9 DEF Crash, TypeOK
<1> HIDE DEF Goal
<1>10. Goal
  <2>1. CASE Clock
    <3>1. UNCHANGED workerVars
      BY <2>1 DEF Clock, BecomeDue, ExpireLease, CooldownEnds, workerVars
    <3> QED BY <3>1, <1>1
  <2>2. CASE Operator
    <3>1. UNCHANGED workerVars
      BY <2>2 DEF Operator, Activate, Deactivate, Enqueue, workerVars
    <3> QED BY <3>1, <1>1
  <2>3. ASSUME NEW w \in Worker, RunJob(w) PROVE Goal
    BY <2>3, <1>3, <1>4, <1>5, <1>6, <1>7, <1>8 DEF RunJob
  <2>4. CASE UNCHANGED vars
    <3>1. UNCHANGED workerVars
      BY <2>4 DEF vars, workerVars
    <3> QED BY <3>1, <1>1
  <2> QED BY <2>1, <2>2, <2>3, <2>4, <1>2, <1>9 DEF Next
<1> QED BY <1>10 DEF Goal

-----------------------------------------------------------------------------
(* Every step is a step of the refresh, or none at all.                    *)

\* A committed end of a scan is a Finish step of RefreshRun: ClosingInv says
\* that the runs it closes are settled by then.
LEMMA FinishStep ==
    ASSUME TypeOK, PhaseInv, ClosingInv, NEW w \in Worker,
           NEW outcome \in Finished,
           pc[w] \in {"completing", "recording"},
           progress' = ProgressAfter(w, outcome),
           run' = RunAfter(w, progress')
    PROVE  Refresh!Next
<1> DEFINE s == current[w]
           R == {r \in Run : scanOf[r][s] = held[w][s] /\ progress[r][s] = "running"}
           C == closing[w]
<1>1. s \in Source /\ C \in SUBSET Run /\ R \in SUBSET Run
  BY DEF PhaseInv, TypeOK
<1>2. outcome \in Refresh!Finished
  BY DEF Finished, Refresh!Finished
<1>3. progress' = [r \in Run |-> [progress[r] EXCEPT ![s] =
                     IF r \in R THEN outcome ELSE @]]
  BY <1>1 DEF ProgressAfter, TypeOK
<1>4. \A r \in C : run[r] \in Active => Refresh!Settled(r, progress')
  <2> SUFFICES ASSUME NEW r \in C, NEW q \in Source
               PROVE  progress'[r][q] \notin Active
    BY DEF Refresh!Settled, Refresh!Active, Active
  <2>1. \/ progress[r][q] \in Finished \cup {"none"}
        \/ progress[r][q] = "running" /\ q = s /\ scanOf[r][q] = held[w][q]
    BY <1>1 DEF ClosingInv
  <2>2. progress'[r][q] =
          IF q = s /\ scanOf[r][q] = held[w][q] /\ progress[r][q] = "running"
          THEN outcome ELSE progress[r][q]
    BY <1>1 DEF ProgressAfter
  <2> QED BY <2>1, <2>2 DEF Finished, Active
<1>5. run' = [r \in Run |-> IF r \in C /\ run[r] \in Refresh!Active
                            THEN Refresh!Outcome(r, progress') ELSE run[r]]
  BY DEF RunAfter, Outcome, Active, Refresh!Outcome, Refresh!Active
<1>6. Refresh!Finish(s, R, C, outcome)
  BY <1>1, <1>3, <1>4, <1>5
  DEF Refresh!Finish, Active, Refresh!Active
<1> HIDE DEF s, R, C
<1> QED BY <1>1, <1>2, <1>6 DEF Refresh!Next

\* Every step of the queue and its workers is a step of RefreshRun, or leaves the
\* refreshes alone.
LEMMA RefreshStep ==
    TypeOK /\ PhaseInv /\ ClosingInv /\ [Next]_vars
      => [Refresh!Next]_(Refresh!refreshVars)
<1> SUFFICES ASSUME TypeOK, PhaseInv, ClosingInv, [Next]_vars
             PROVE  Refresh!Next \/ UNCHANGED <<run, progress>>
  BY DEF Refresh!refreshVars
<1>1. ASSUME NEW r \in Run, NEW S \in SUBSET Source, Enqueue(r, S)
      PROVE Refresh!Next
  <2>1. Refresh!Request(r, S)
    BY <1>1 DEF Enqueue, Busy, Active, Refresh!Request, Refresh!Busy, Refresh!Active
  <2> QED BY <2>1 DEF Refresh!Next
<1>2. ASSUME NEW w \in Worker, NEW s \in Source, NEW acked \in BOOLEAN,
             StartScan(w, s, acked)
      PROVE Refresh!Next
  <2>1. Refresh!Start(s)
    BY <1>2 DEF StartScan, Refresh!Start
  <2> QED BY <2>1 DEF Refresh!Next
<1>3. ASSUME NEW w \in Worker, NEW acked \in BOOLEAN, CommitComplete(w, acked)
      PROVE Refresh!Next
  BY <1>3, FinishStep DEF CommitComplete, Finished
<1>4. ASSUME NEW w \in Worker, CommitFail(w) PROVE Refresh!Next
  BY <1>4, FinishStep DEF CommitFail, Finished
<1>5. ASSUME NEW w \in Worker, RunJob(w)
      PROVE Refresh!Next \/ UNCHANGED <<run, progress>>
  BY <1>5, <1>2, <1>3, <1>4
  DEF RunJob, StartScanFails, BeginComplete, ScanRaises, BeginFail,
      FailUnstarted, runVars
<1>6. CASE Clock
  BY <1>6 DEF Clock, BecomeDue, ExpireLease, CooldownEnds, runVars
<1>7. CASE Operator
  BY <1>7, <1>1 DEF Operator, Activate, Deactivate, runVars
<1>8. ASSUME NEW w \in Worker, NEW S \in SUBSET Source, Claim(w, S) \/ Crash(w)
      PROVE UNCHANGED <<run, progress>>
  BY <1>8 DEF Claim, Crash, runVars
<1>9. CASE UNCHANGED vars
  BY <1>9 DEF vars
<1> QED BY <1>5, <1>6, <1>7, <1>8, <1>9 DEF Next

-----------------------------------------------------------------------------
(* The decision to close a run is stable.                                  *)

\* What any step may do to a row of a requested refresh.
RowMoves(r, s) ==
    /\ run'[r] # "none"
    /\ progress[r][s] \in Finished \cup {"none"} => progress'[r][s] = progress[r][s]
    /\ progress[r][s] = "running" => progress'[r][s] \in {"running"} \cup Finished
    /\ progress[r][s] # "queued" => scanOf'[r][s] = scanOf[r][s]

\* A requested refresh never goes back, and only its queued rows get a scan.
LEMMA RowStep ==
    ASSUME TypeOK, [Next]_vars, NEW r \in Run, NEW s \in Source, run[r] # "none"
    PROVE  RowMoves(r, s)
<1>1. ASSUME UNCHANGED <<run, progress, scanOf>> PROVE RowMoves(r, s)
  BY <1>1 DEF RowMoves
<1>2. ASSUME NEW q \in Run, NEW S \in SUBSET Source, Enqueue(q, S)
      PROVE RowMoves(r, s)
  <2>1. q # r
    BY <1>2 DEF Enqueue
  <2> QED BY <1>2, <2>1 DEF Enqueue, RowMoves, TypeOK
<1>3. ASSUME NEW w \in Worker, NEW q \in Source, NEW acked \in BOOLEAN,
             StartScan(w, q, acked)
      PROVE RowMoves(r, s)
  <2>1. run'[r] # "none"
    BY <1>3 DEF StartScan
  <2>2. /\ progress'[r][s] = IF s = q /\ progress[r][s] = "queued"
                             THEN "running" ELSE progress[r][s]
        /\ scanOf'[r][s] = IF s = q /\ progress[r][s] = "queued"
                           THEN held[w][q] ELSE scanOf[r][s]
    BY <1>3 DEF StartScan, TypeOK
  <2> QED BY <2>1, <2>2 DEF RowMoves, Finished
<1>4. ASSUME NEW w \in Worker, NEW outcome \in Finished, UNCHANGED scanOf,
             progress' = ProgressAfter(w, outcome), run' = RunAfter(w, progress')
      PROVE RowMoves(r, s)
  <2>1. run'[r] # "none"
    BY <1>4 DEF RunAfter, Outcome
  <2>2. \/ progress'[r][s] = progress[r][s]
        \/ progress[r][s] = "running" /\ progress'[r][s] \in Finished
    BY <1>4 DEF ProgressAfter
  <2> QED BY <1>4, <2>1, <2>2 DEF RowMoves, Finished
<1>5. ASSUME NEW w \in Worker, RunJob(w) PROVE RowMoves(r, s)
  <2>1. ASSUME NEW acked \in BOOLEAN, CommitComplete(w, acked) PROVE RowMoves(r, s)
    BY <2>1, <1>4 DEF CommitComplete, Finished
  <2>2. CASE CommitFail(w)
    BY <2>2, <1>4 DEF CommitFail, Finished
  <2>3. ASSUME NEW q \in Source, StartScanFails(w, q) PROVE RowMoves(r, s)
    BY <2>3, <1>1 DEF StartScanFails, runVars
  <2>4. CASE BeginComplete(w) \/ ScanRaises(w) \/ BeginFail(w) \/ FailUnstarted(w)
    BY <2>4, <1>1 DEF BeginComplete, ScanRaises, BeginFail, FailUnstarted, runVars
  <2> QED BY <1>5, <1>3, <2>1, <2>2, <2>3, <2>4 DEF RunJob
<1>6. CASE Clock
  BY <1>6, <1>1 DEF Clock, BecomeDue, ExpireLease, CooldownEnds, runVars
<1>7. CASE Operator
  BY <1>7, <1>1, <1>2 DEF Operator, Activate, Deactivate, runVars
<1>8. ASSUME NEW w \in Worker, NEW S \in SUBSET Source, Claim(w, S) \/ Crash(w)
      PROVE RowMoves(r, s)
  BY <1>8, <1>1 DEF Claim, Crash, runVars
<1>9. CASE UNCHANGED vars
  BY <1>9, <1>1 DEF vars
<1> QED BY <1>5, <1>6, <1>7, <1>8, <1>9 DEF Next

\* A worker with runs to close either decided on them just now, or has decided
\* before and has not moved.
LEMMA DecisionStep ==
    ASSUME TypeOK, PhaseInv, [Next]_vars, NEW v \in Worker, closing'[v] # {}
    PROVE  \/ /\ closing'[v] = closing[v]
              /\ current'[v] = current[v]
              /\ held'[v] = held[v]
           \/ \E outcome \in Finished :
                /\ closing'[v] = Closable(ProgressAfter(v, outcome))
                /\ UNCHANGED <<run, progress, scanOf, held, current>>
<1> DEFINE Stays == /\ closing'[v] = closing[v]
                    /\ current'[v] = current[v]
                    /\ held'[v] = held[v]
           Decides == \E outcome \in Finished :
                        /\ closing'[v] = Closable(ProgressAfter(v, outcome))
                        /\ UNCHANGED <<run, progress, scanOf, held, current>>
<1>1. ASSUME UNCHANGED workerVars PROVE Stays
  BY <1>1 DEF workerVars
<1>2. ASSUME NEW w \in Worker, w # v, RunJob(w) PROVE Stays
  BY <1>2 DEF RunJob, StartScan, StartScanFails, BeginComplete, CommitComplete,
              ScanRaises, BeginFail, CommitFail, FailUnstarted, JobDone, TypeOK
<1>3. ASSUME NEW w \in Worker, NEW S \in SUBSET Source, w # v,
             Claim(w, S) \/ Crash(w)
      PROVE Stays
  BY <1>3 DEF Claim, Crash, TypeOK
<1>4. pc[v] \notin {"completing", "recording"} => closing[v] = {}
  BY DEF PhaseInv
<1>5. ASSUME RunJob(v) PROVE Decides
  <2>1. CASE BeginComplete(v)
    BY <2>1 DEF BeginComplete, Finished, runVars, TypeOK
  <2>2. CASE BeginFail(v)
    BY <2>2 DEF BeginFail, Finished, runVars, TypeOK
  <2>3. ASSUME NEW s \in Source, NEW acked \in BOOLEAN,
               StartScan(v, s, acked) \/ StartScanFails(v, s)
        PROVE FALSE
    BY <2>3, <1>4 DEF StartScan, StartScanFails
  <2>4. ASSUME NEW acked \in BOOLEAN, CommitComplete(v, acked) PROVE FALSE
    BY <2>4 DEF CommitComplete, TypeOK
  <2>5. CASE ScanRaises(v) \/ CommitFail(v)
    BY <2>5 DEF ScanRaises, CommitFail, TypeOK
  <2>6. CASE FailUnstarted(v)
    BY <2>6, <1>4 DEF FailUnstarted
  <2> QED BY <1>5, <2>1, <2>2, <2>3, <2>4, <2>5, <2>6 DEF RunJob
<1>6. ASSUME NEW S \in SUBSET Source, Claim(v, S) \/ Crash(v) PROVE FALSE
  BY <1>6, <1>4 DEF Claim, Idle, Crash, TypeOK
<1> HIDE DEF Stays, Decides
<1>7. Stays \/ Decides
  <2>1. CASE Clock
    <3>1. UNCHANGED workerVars
      BY <2>1 DEF Clock, BecomeDue, ExpireLease, CooldownEnds, workerVars
    <3> QED BY <3>1, <1>1
  <2>2. CASE Operator
    <3>1. UNCHANGED workerVars
      BY <2>2 DEF Operator, Activate, Deactivate, Enqueue, workerVars
    <3> QED BY <3>1, <1>1
  <2>3. CASE UNCHANGED vars
    <3>1. UNCHANGED workerVars
      BY <2>3 DEF vars, workerVars
    <3> QED BY <3>1, <1>1
  <2>4. ASSUME NEW w \in Worker, RunJob(w) PROVE Stays \/ Decides
    BY <2>4, <1>2, <1>5
  <2>5. ASSUME NEW w \in Worker, NEW S \in SUBSET Source, Claim(w, S) \/ Crash(w)
        PROVE Stays
    BY <2>5, <1>3, <1>6
  <2> QED BY <2>1, <2>2, <2>3, <2>4, <2>5 DEF Next
<1> QED BY <1>7 DEF Stays, Decides

\* No other worker's step can make a closing run unsettled again.
LEMMA ClosingStep == TypeOK /\ PhaseInv /\ ClosingInv /\ [Next]_vars => ClosingInv'
<1> SUFFICES ASSUME TypeOK, PhaseInv, ClosingInv, [Next]_vars,
                    NEW v \in Worker, NEW r \in closing'[v], NEW s \in Source
             PROVE  /\ run'[r] # "none"
                    /\ \/ progress'[r][s] \in Finished \cup {"none"}
                       \/ /\ progress'[r][s] = "running"
                          /\ s = current'[v]
                          /\ scanOf'[r][s] = held'[v][s]
  BY DEF ClosingInv
<1>1. CASE /\ closing'[v] = closing[v]
           /\ current'[v] = current[v]
           /\ held'[v] = held[v]
  <2>1. /\ run[r] # "none"
        /\ \/ progress[r][s] \in Finished \cup {"none"}
           \/ /\ progress[r][s] = "running"
              /\ s = current[v]
              /\ scanOf[r][s] = held[v][s]
    BY <1>1 DEF ClosingInv
  <2>2. r \in Run
    BY <1>1 DEF TypeOK
  <2>3. RowMoves(r, s)
    BY <2>1, <2>2, RowStep
  <2> QED BY <1>1, <2>1, <2>3 DEF RowMoves, Finished
<1>2. ASSUME NEW outcome \in Finished,
             closing'[v] = Closable(ProgressAfter(v, outcome)),
             UNCHANGED <<run, progress, scanOf, held, current>>
      PROVE  /\ run'[r] # "none"
             /\ \/ progress'[r][s] \in Finished \cup {"none"}
                \/ /\ progress'[r][s] = "running"
                   /\ s = current'[v]
                   /\ scanOf'[r][s] = held'[v][s]
  <2>1. r \in Run /\ run[r] \in Active /\ ProgressAfter(v, outcome)[r][s] \notin Active
    BY <1>2 DEF Closable, Settled
  <2>2. ProgressAfter(v, outcome)[r][s] =
          IF s = current[v] /\ scanOf[r][s] = held[v][s] /\ progress[r][s] = "running"
          THEN outcome ELSE progress[r][s]
    BY <2>1 DEF ProgressAfter
  <2>3. progress[r][s] \in RunStatus
    BY <2>1 DEF TypeOK
  <2> QED BY <1>2, <2>1, <2>2, <2>3 DEF Active, RunStatus, Finished
<1> QED BY <1>1, <1>2, DecisionStep

-----------------------------------------------------------------------------
(* The outcome of a refresh.  It is a promise of RefreshRun, so it is enough *)
(* that the steps of RefreshRun keep it.                                   *)

\* The steps of RefreshRun keep a closed run and its sources in agreement.
LEMMA AgreementStep ==
    ASSUME TypeOK, TypeOK', RunAgreesWithSources,
           [Refresh!Next]_(Refresh!refreshVars)
    PROVE  RunAgreesWithSources'
<1> USE DEF Active, Finished, Refresh!Active, Refresh!Finished
<1>1. ASSUME NEW q \in Run, NEW S \in SUBSET Source, Refresh!Request(q, S)
      PROVE RunAgreesWithSources'
  BY <1>1 DEF Refresh!Request, RunAgreesWithSources, TypeOK
<1>2. ASSUME NEW s \in Source, Refresh!Start(s) PROVE RunAgreesWithSources'
  <2> SUFFICES ASSUME NEW r \in Run
               PROVE  /\ run'[r] \in Finished =>
                           /\ \A q \in Source : progress'[r][q] \in Finished \cup {"none"}
                           /\ run'[r] = "completed" <=>
                                \E q \in Source : progress'[r][q] = "completed"
                      /\ run'[r] = "queued" =>
                           \A q \in Source : progress'[r][q] \in {"queued", "none"}
    BY DEF RunAgreesWithSources
  <2>1. \A q \in Source : progress'[r][q] =
          IF q = s /\ progress[r][q] = "queued" THEN "running" ELSE progress[r][q]
    BY <1>2 DEF Refresh!Start, TypeOK
  <2>2. run'[r] = IF run[r] = "queued" /\ progress'[r][s] = "running"
                  THEN "running" ELSE run[r]
    BY <1>2 DEF Refresh!Start
  <2>3. CASE run[r] \in Finished
    BY <2>1, <2>2, <2>3 DEF RunAgreesWithSources
  <2>4. CASE run[r] \notin Finished
    BY <2>1, <2>2, <2>4 DEF RunAgreesWithSources
  <2> QED BY <2>3, <2>4
<1>3. ASSUME NEW s \in Source, NEW R \in SUBSET Run, NEW C \in SUBSET Run,
             NEW outcome \in Finished, Refresh!Finish(s, R, C, outcome)
      PROVE RunAgreesWithSources'
  <2> SUFFICES ASSUME NEW r \in Run
               PROVE  /\ run'[r] \in Finished =>
                           /\ \A q \in Source : progress'[r][q] \in Finished \cup {"none"}
                           /\ run'[r] = "completed" <=>
                                \E q \in Source : progress'[r][q] = "completed"
                      /\ run'[r] = "queued" =>
                           \A q \in Source : progress'[r][q] \in {"queued", "none"}
    BY DEF RunAgreesWithSources
  <2>1. \A q \in Source : progress'[r][q] =
          IF q = s /\ r \in R THEN outcome ELSE progress[r][q]
    BY <1>3 DEF Refresh!Finish, TypeOK
  <2>2. r \in R => progress[r][s] = "running"
    BY <1>3 DEF Refresh!Finish
  <2>3. CASE r \in C /\ run[r] \in Active
    <3>1. /\ Refresh!Settled(r, progress')
          /\ run'[r] = Refresh!Outcome(r, progress')
      BY <1>3, <2>3 DEF Refresh!Finish
    <3>2. \A q \in Source : progress'[r][q] \in RunStatus
      BY DEF TypeOK
    <3> QED BY <3>1, <3>2 DEF Refresh!Settled, Refresh!Outcome, RunStatus
  <2>4. CASE ~ (r \in C /\ run[r] \in Active)
    <3>1. run'[r] = run[r]
      BY <1>3, <2>4 DEF Refresh!Finish
    <3>2. run[r] \in Finished \cup {"queued"} => r \notin R
      BY <2>2 DEF RunAgreesWithSources
    <3> QED BY <2>1, <3>1, <3>2 DEF RunAgreesWithSources
  <2> QED BY <2>3, <2>4
<1>4. CASE UNCHANGED Refresh!refreshVars
  BY <1>4 DEF Refresh!refreshVars, RunAgreesWithSources
<1> QED BY <1>1, <1>2, <1>3, <1>4 DEF Refresh!Next

-----------------------------------------------------------------------------
(* Theorems.                                                               *)

\* The inductive invariant holds in every reachable state.
THEOREM Invariance == Spec => []IInv
<1>1. Init => IInv
  <2> SUFFICES ASSUME Init PROVE IInv
    OBVIOUS
  <2>1. TypeOK
    <3>1. crashes \in 0..MaxCrashes
      BY ConstantsAssumption DEF Init
    <3>2. pc \in [Worker -> Phase]
      BY DEF Init, Phase
    <3>3. run \in [Run -> RunStatus] /\ progress \in [Run -> [Source -> RunStatus]]
      BY DEF Init, RunStatus
    <3>4. scan \in [Run -> [Source -> ScanStatus]]
      BY DEF Init, ScanStatus
    <3> QED BY <3>1, <3>2, <3>3, <3>4 DEF Init, TypeOK
  <2> QED BY <2>1
      DEF Init, IInv, PhaseInv, ClosingInv, RunAgreesWithSources, Finished
<1>2. IInv /\ [Next]_vars => IInv'
  BY TypeStep, PhaseStep, ClosingStep, RefreshStep, AgreementStep DEF IInv
<1> QED BY <1>1, <1>2, PTL DEF Spec

\* Every variable of the queue keeps its type.
THEOREM TypeCorrect == Spec => []TypeOK
BY Invariance, PTL DEF IInv

\* A closed refresh agrees with its sources although it was closed from a
\* snapshot: RunAgreesWithSources holds for any number of workers.
THEOREM RefreshOutcome == Spec => []RunAgreesWithSources
BY Invariance, PTL DEF IInv

\* The queue and its workers implement the founder refresh.
THEOREM RefreshImplemented == Spec => ImplementsRefresh
<1>1. Init => Refresh!Init
  BY DEF Init, Refresh!Init
<1>2. IInv /\ [Next]_vars => [Refresh!Next]_(Refresh!refreshVars)
  BY RefreshStep DEF IInv
<1> QED BY <1>1, <1>2, Invariance, PTL DEF Spec, ImplementsRefresh, Refresh!Spec

\* No step takes an unexpired lease away from its holder.
THEOREM LeaseKept == Spec => LiveLeaseIsKept
<1> DEFINE Kept ==
      \A s \in Source :
         live[s] /\ token'[s] # token[s] =>
           \E w \in Worker : /\ current[w] = s
                              /\ held[w][s] = token[s]
                              /\ pc'[w] # pc[w]
<1>1. ASSUME TypeOK, [Next]_vars PROVE Kept
  <2>1. ASSUME UNCHANGED token PROVE Kept
    BY <2>1
  <2>2. ASSUME NEW w \in Worker, ReleaseJob(w), pc'[w] # pc[w] PROVE Kept
    <3>1. \A s \in Source : token'[s] # token[s] =>
            s = current[w] /\ token[s] = held[w][s]
      BY <2>2, <1>1 DEF ReleaseJob, jobVars, TypeOK
    <3> QED BY <2>2, <3>1
  <2>3. ASSUME NEW w \in Worker, NEW S \in SUBSET Source, Claim(w, S) PROVE Kept
    BY <2>3, <1>1 DEF Claim, Due, TypeOK
  <2> HIDE DEF Kept
  <2>4. ASSUME NEW w \in Worker, RunJob(w) PROVE Kept
    <3>1. ASSUME NEW acked \in BOOLEAN, CommitComplete(w, acked) PROVE Kept
      <4>1. pc'[w] # pc[w]
        BY <3>1, <1>1 DEF CommitComplete, JobDone, TypeOK
      <4> QED BY <3>1, <4>1, <2>2 DEF CommitComplete
    <3>2. CASE CommitFail(w)
      <4>1. pc'[w] # pc[w]
        BY <3>2, <1>1 DEF CommitFail, JobDone, TypeOK
      <4> QED BY <3>2, <4>1, <2>2 DEF CommitFail
    <3>3. CASE FailUnstarted(w)
      <4>1. pc'[w] # pc[w]
        BY <3>3, <1>1 DEF FailUnstarted, JobDone, TypeOK
      <4> QED BY <3>3, <4>1, <2>2 DEF FailUnstarted
    <3>4. ASSUME NEW s \in Source, NEW acked \in BOOLEAN,
                 StartScan(w, s, acked) \/ StartScanFails(w, s)
          PROVE Kept
      BY <3>4, <2>1 DEF StartScan, StartScanFails, jobVars
    <3>5. CASE BeginComplete(w) \/ ScanRaises(w) \/ BeginFail(w)
      BY <3>5, <2>1 DEF BeginComplete, ScanRaises, BeginFail, jobVars
    <3> QED BY <2>4, <3>1, <3>2, <3>3, <3>4, <3>5 DEF RunJob
  <2>5. CASE Clock
    BY <2>5, <2>1 DEF Clock, BecomeDue, ExpireLease, CooldownEnds, jobVars
  <2>6. CASE Operator
    BY <2>6, <2>1 DEF Operator, Activate, Deactivate, Enqueue, jobVars
  <2>7. ASSUME NEW w \in Worker, Crash(w) PROVE Kept
    BY <2>7, <2>1 DEF Crash, jobVars
  <2>8. CASE UNCHANGED vars
    BY <2>8, <2>1 DEF vars
  <2> QED BY <1>1, <2>3, <2>4, <2>5, <2>6, <2>7, <2>8 DEF Next
<1>2. TypeOK /\ [Next]_vars => [Kept]_vars
  BY <1>1
<1> QED BY <1>2, TypeCorrect, PTL DEF Spec, LiveLeaseIsKept

-----------------------------------------------------------------------------
(* One refresh per source, and refresh rows that agree with their scans.   *)

\* A source gets into a refresh only when no other one is busy with it.
LEMMA BusyStep ==
    TypeOK /\ OneRefreshPerSource /\ [Next]_vars => OneRefreshPerSource'
<1> SUFFICES ASSUME TypeOK, OneRefreshPerSource, [Next]_vars,
                    NEW s \in Source, NEW r1 \in Run, NEW r2 \in Run,
                    progress'[r1][s] \in Active, progress'[r2][s] \in Active
             PROVE  r1 = r2
  BY DEF OneRefreshPerSource
<1>1. ASSUME \A r \in Run : progress'[r][s] \in Active => progress[r][s] \in Active
      PROVE  r1 = r2
  BY <1>1 DEF OneRefreshPerSource
<1>2. ASSUME NEW r \in Run, NEW S \in SUBSET Source, Enqueue(r, S) PROVE r1 = r2
  <2>1. \A q \in Run \ {r} : progress'[q] = progress[q]
    BY <1>2 DEF Enqueue, TypeOK
  <2>2. progress'[r][s] \in Active => s \in S
    BY <1>2 DEF Enqueue, TypeOK, Active
  <2>3. s \in S => \A q \in Run : progress[q][s] \notin Active
    BY <1>2 DEF Enqueue, Busy
  <2> QED BY <2>1, <2>2, <2>3 DEF OneRefreshPerSource
<1>3. ASSUME UNCHANGED progress PROVE r1 = r2
  BY <1>1, <1>3
<1>4. ASSUME NEW w \in Worker, RunJob(w) PROVE r1 = r2
  <2>1. ASSUME NEW t \in Source, NEW acked \in BOOLEAN, StartScan(w, t, acked)
        PROVE  r1 = r2
    BY <1>1, <2>1 DEF StartScan, TypeOK, Active
  <2>2. ASSUME NEW outcome \in Finished, progress' = ProgressAfter(w, outcome)
        PROVE  r1 = r2
    BY <1>1, <2>2 DEF ProgressAfter, Active, Finished
  <2>3. ASSUME NEW acked \in BOOLEAN, CommitComplete(w, acked) PROVE r1 = r2
    BY <2>2, <2>3 DEF CommitComplete, Finished
  <2>4. ASSUME CommitFail(w) PROVE r1 = r2
    BY <2>2, <2>4 DEF CommitFail, Finished
  <2>5. ASSUME NEW t \in Source, StartScanFails(w, t) PROVE r1 = r2
    BY <1>3, <2>5 DEF StartScanFails, runVars
  <2>6. ASSUME BeginComplete(w) \/ ScanRaises(w) \/ BeginFail(w) \/ FailUnstarted(w)
        PROVE  r1 = r2
    BY <1>3, <2>6 DEF BeginComplete, ScanRaises, BeginFail, FailUnstarted, runVars
  <2> QED BY <1>4, <2>1, <2>3, <2>4, <2>5, <2>6 DEF RunJob
<1>5. ASSUME Clock PROVE r1 = r2
  BY <1>3, <1>5 DEF Clock, BecomeDue, ExpireLease, CooldownEnds, runVars
<1>6. ASSUME NEW t \in Managed, Activate(t) \/ Deactivate(t) PROVE r1 = r2
  BY <1>3, <1>6 DEF Activate, Deactivate, runVars
<1>7. ASSUME NEW w \in Worker, NEW S \in SUBSET Source, Claim(w, S) \/ Crash(w)
      PROVE  r1 = r2
  BY <1>3, <1>7 DEF Claim, Crash, runVars
<1>8. ASSUME UNCHANGED vars PROVE r1 = r2
  BY <1>3, <1>8 DEF vars
<1>9. ASSUME NEW w \in Worker, Crash(w) PROVE r1 = r2
  BY <1>3, <1>9 DEF Crash, runVars
<1> QED BY <1>2, <1>4, <1>5, <1>6, <1>7, <1>8, <1>9 DEF Next, Operator

\* A source is queued or running in at most one refresh.
THEOREM RefreshesDisjoint == Spec => []OneRefreshPerSource
<1>1. Init => OneRefreshPerSource
  BY DEF Init, OneRefreshPerSource, Active
<1> QED BY <1>1, BusyStep, TypeCorrect, PTL DEF Spec

\* A token is held by one worker, and a refresh row that bears it is the one of
\* that worker's scan: it is running, or it is completed and the worker has not
\* heard of it.
HoldInv ==
    \A v, w \in Worker, s \in Source :
        v # w /\ held[v][s] # None => held[v][s] # held[w][s]

RowInv ==
    /\ \A r \in Run, s \in Source :
         /\ run[r] = "none" => progress[r][s] = "none"
         /\ progress[r][s] \in {"none", "queued"} => scanOf[r][s] = None
    /\ \A w \in Worker, r \in Run, s \in Source :
         held[w][s] # None /\ scanOf[r][s] = held[w][s] =>
           /\ current[w] = s /\ pc[w] # "ready"
           /\ \/ progress[r][s] = "running"
              \/ /\ progress[r][s] = "completed" /\ LostAcks
                 /\ pc[w] \in {"failing", "recording"}

\* What JobDone leaves of the tokens.
LEMMA JobDoneHeld ==
    ASSUME TypeOK, PhaseInv, NEW w \in Worker, JobDone(w), pc[w] # "ready"
    PROVE  /\ held'[w][current[w]] = None
           /\ \A s \in Source \ {current[w]} : held'[w][s] = held[w][s]
           /\ \A v \in Worker \ {w} : /\ held'[v] = held[v]
                                      /\ current'[v] = current[v] /\ pc'[v] = pc[v]
BY DEF JobDone, PhaseInv, TypeOK

\* Tokens stay unique.
LEMMA HoldStep == TypeOK /\ PhaseInv /\ HoldInv /\ [Next]_vars => HoldInv'
<1> SUFFICES ASSUME TypeOK, PhaseInv, HoldInv, [Next]_vars PROVE HoldInv'
  OBVIOUS
<1> USE DEF HoldInv
<1>1. ASSUME \A w \in Worker, s \in Source : held'[w][s] \in {held[w][s], None}
      PROVE  HoldInv'
  BY <1>1
<1>2. ASSUME UNCHANGED held PROVE HoldInv'
  BY <1>1, <1>2
<1>3. ASSUME NEW w \in Worker, JobDone(w), pc[w] # "ready" PROVE HoldInv'
  BY <1>1, <1>3, JobDoneHeld
<1>4. ASSUME NEW w \in Worker, NEW S \in SUBSET Source, Claim(w, S) PROVE HoldInv'
  <2>1. \A s \in Source : held'[w][s] = IF s \in S THEN FreshToken(s) ELSE None
    BY <1>4 DEF Claim, TypeOK
  <2>2. \A v \in Worker \ {w} : held'[v] = held[v]
    BY <1>4 DEF Claim, TypeOK
  <2>3. \A v \in Worker, s \in S : FreshToken(s) # held[v][s]
    BY <1>4, FreshTokenType DEF Claim, InUse
  <2> QED BY <2>1, <2>2, <2>3
<1>5. ASSUME NEW w \in Worker, Crash(w) PROVE HoldInv'
  <2>1. \A v \in Worker, s \in Source : held'[v][s] \in {held[v][s], None}
    BY <1>5 DEF Crash, TypeOK
  <2> QED BY <1>1, <2>1
<1> HIDE DEF HoldInv
<1>6. ASSUME NEW w \in Worker, RunJob(w) PROVE HoldInv'
  <2>1. ASSUME NEW acked \in BOOLEAN, CommitComplete(w, acked) PROVE HoldInv'
    BY <1>2, <1>3, <2>1 DEF CommitComplete
  <2>2. ASSUME CommitFail(w) \/ FailUnstarted(w) PROVE HoldInv'
    BY <1>3, <2>2 DEF CommitFail, FailUnstarted
  <2>3. ASSUME NEW s \in Source, NEW acked \in BOOLEAN,
               StartScan(w, s, acked) \/ StartScanFails(w, s)
        PROVE  HoldInv'
    BY <1>2, <2>3 DEF StartScan, StartScanFails
  <2>4. ASSUME BeginComplete(w) \/ ScanRaises(w) \/ BeginFail(w) PROVE HoldInv'
    BY <1>2, <2>4 DEF BeginComplete, ScanRaises, BeginFail
  <2>5. ASSUME NEW s \in Source, StartScanFails(w, s) PROVE HoldInv'
    BY <1>2, <2>5 DEF StartScanFails
  <2> QED BY <1>6, <2>1, <2>2, <2>3, <2>4, <2>5 DEF RunJob
<1>7. ASSUME Clock \/ Operator PROVE HoldInv'
  BY <1>2, <1>7 DEF Clock, BecomeDue, ExpireLease, CooldownEnds, Operator, Activate,
                    Deactivate, Enqueue, workerVars
<1>8. ASSUME UNCHANGED vars PROVE HoldInv'
  BY <1>2, <1>8 DEF vars
<1> QED BY <1>4, <1>5, <1>6, <1>7, <1>8 DEF Next


\* When the scan of a worker ends, the rows of the other workers' scans stay.
LEMMA ForeignRows ==
    ASSUME TypeOK, HoldInv, NEW w \in Worker, NEW v \in Worker, v # w,
           NEW r \in Run, NEW s \in Source, NEW outcome,
           held[v][s] # None, scanOf[r][s] = held[v][s]
    PROVE  ProgressAfter(w, outcome)[r][s] = progress[r][s]
BY DEF HoldInv, ProgressAfter

\* The rows of a worker keep following its phase.
LEMMA RowInvStep == TypeOK /\ PhaseInv /\ HoldInv /\ RowInv /\ [Next]_vars => RowInv'
<1> SUFFICES ASSUME TypeOK, PhaseInv, HoldInv, RowInv, [Next]_vars PROVE RowInv'
  OBVIOUS
<1> DEFINE Row(w, r, s) ==
             held[w][s] # None /\ scanOf[r][s] = held[w][s] =>
               /\ current[w] = s /\ pc[w] # "ready"
               /\ \/ progress[r][s] = "running"
                  \/ /\ progress[r][s] = "completed" /\ LostAcks
                     /\ pc[w] \in {"failing", "recording"}
           Born(r, s) == /\ run[r] = "none" => progress[r][s] = "none"
                         /\ progress[r][s] \in {"none", "queued"} => scanOf[r][s] = None
           NewRow(w, r, s) ==
             held'[w][s] # None /\ scanOf'[r][s] = held'[w][s] =>
               /\ current'[w] = s /\ pc'[w] # "ready"
               /\ \/ progress'[r][s] = "running"
                  \/ /\ progress'[r][s] = "completed" /\ LostAcks
                     /\ pc'[w] \in {"failing", "recording"}
           NewBorn(r, s) ==
             /\ run'[r] = "none" => progress'[r][s] = "none"
             /\ progress'[r][s] \in {"none", "queued"} => scanOf'[r][s] = None
<1>1. \A w \in Worker, r \in Run, s \in Source : Row(w, r, s) /\ Born(r, s)
  BY DEF RowInv
<1>2. SUFFICES ASSUME NEW v \in Worker, NEW r \in Run, NEW s \in Source
               PROVE  NewRow(v, r, s)
  <2>1. SUFFICES ASSUME NEW r \in Run, NEW s \in Source PROVE NewBorn(r, s)
    BY <1>2, <2>1 DEF RowInv
  <2>2. Born(r, s)
    BY DEF RowInv
  <2>3. ASSUME UNCHANGED runVars PROVE NewBorn(r, s)
    BY <2>2, <2>3 DEF runVars
  <2>4. ASSUME NEW w \in Worker, NEW outcome \in Finished, UNCHANGED scanOf,
               progress' = ProgressAfter(w, outcome), run' = RunAfter(w, progress')
        PROVE  NewBorn(r, s)
    <3>1. run'[r] = "none" => run[r] = "none"
      BY <2>4 DEF RunAfter, Outcome
    <3>2. \/ progress'[r][s] = progress[r][s]
          \/ progress[r][s] = "running" /\ progress'[r][s] \in Finished
      BY <2>4 DEF ProgressAfter
    <3> QED BY <2>2, <2>4, <3>1, <3>2 DEF Finished
  <2>5. ASSUME NEW q \in Run, NEW S \in SUBSET Source, Enqueue(q, S)
        PROVE  NewBorn(r, s)
    BY <2>2, <2>5 DEF Enqueue, TypeOK
  <2>6. ASSUME NEW w \in Worker, NEW q \in Source, NEW acked \in BOOLEAN,
               StartScan(w, q, acked)
        PROVE  NewBorn(r, s)
    <3>1. run'[r] = "none" => run[r] = "none"
      BY <2>6 DEF StartScan
    <3>2. /\ progress'[r][s] = IF s = q /\ progress[r][s] = "queued"
                               THEN "running" ELSE progress[r][s]
          /\ scanOf'[r][s] = IF s = q /\ progress[r][s] = "queued"
                             THEN held[w][q] ELSE scanOf[r][s]
      BY <2>6 DEF StartScan, TypeOK
    <3> QED BY <2>2, <3>1, <3>2
  <2> HIDE DEF NewBorn, Born
  <2>7. ASSUME NEW w \in Worker, RunJob(w) PROVE NewBorn(r, s)
    <3>1. ASSUME NEW acked \in BOOLEAN, CommitComplete(w, acked) PROVE NewBorn(r, s)
      BY <2>4, <3>1 DEF CommitComplete, Finished
    <3>2. ASSUME CommitFail(w) PROVE NewBorn(r, s)
      BY <2>4, <3>2 DEF CommitFail, Finished
    <3>3. ASSUME NEW q \in Source, StartScanFails(w, q) PROVE NewBorn(r, s)
      BY <2>3, <3>3 DEF StartScanFails
    <3>4. ASSUME BeginComplete(w) \/ ScanRaises(w) \/ BeginFail(w) \/ FailUnstarted(w)
          PROVE  NewBorn(r, s)
      BY <2>3, <3>4 DEF BeginComplete, ScanRaises, BeginFail, FailUnstarted
    <3> QED BY <2>6, <2>7, <3>1, <3>2, <3>3, <3>4 DEF RunJob
  <2>8. ASSUME Clock \/ Operator PROVE NewBorn(r, s)
    BY <2>3, <2>5, <2>8 DEF Clock, BecomeDue, ExpireLease, CooldownEnds, Operator,
                            Activate, Deactivate
  <2>9. ASSUME NEW w \in Worker, NEW S \in SUBSET Source, Claim(w, S) PROVE NewBorn(r, s)
    BY <2>3, <2>9 DEF Claim
  <2>10. ASSUME NEW w \in Worker, Crash(w) PROVE NewBorn(r, s)
    BY <2>3, <2>10 DEF Crash
  <2>11. ASSUME UNCHANGED vars PROVE NewBorn(r, s)
    BY <2>3, <2>11 DEF vars, runVars
  <2> QED BY <2>7, <2>8, <2>9, <2>10, <2>11 DEF Next
<1>3. Row(v, r, s) /\ Born(r, s)
  BY <1>1
<1>4. ASSUME UNCHANGED runVars, UNCHANGED <<held, current, pc>> PROVE NewRow(v, r, s)
  BY <1>3, <1>4 DEF runVars
\* A worker between two jobs has no rows.
<1>5. ASSUME pc[v] = "ready", UNCHANGED <<scanOf, held>> PROVE NewRow(v, r, s)
  BY <1>3, <1>5
\* What a worker does to the rows of its scan is nothing to another worker's.
<1>6. ASSUME NEW w \in Worker, v # w, NEW outcome, UNCHANGED scanOf,
             progress' = ProgressAfter(w, outcome),
             held'[v] = held[v] /\ current'[v] = current[v] /\ pc'[v] = pc[v]
      PROVE  NewRow(v, r, s)
  BY <1>3, <1>6, ForeignRows
<1>7. ASSUME UNCHANGED scanOf, JobDone(v), pc[v] # "ready" PROVE NewRow(v, r, s)
  BY <1>3, <1>7, JobDoneHeld
<1>8. ASSUME NEW w \in Worker, NEW acked \in BOOLEAN, CommitComplete(w, acked)
      PROVE  NewRow(v, r, s)
  <2>1. CASE v # w
    <3>1. held'[v] = held[v] /\ current'[v] = current[v] /\ pc'[v] = pc[v]
      BY <1>8, <2>1 DEF CommitComplete, JobDone, TypeOK
    <3> QED BY <1>6, <1>8, <2>1, <3>1 DEF CommitComplete
  <2>2. CASE v = w /\ acked
    BY <1>7, <1>8, <2>2 DEF CommitComplete
  <2>3. CASE v = w /\ ~ acked
    <3>1. /\ UNCHANGED <<scanOf, held, current>> /\ LostAcks
          /\ pc'[v] = "failing" /\ pc[v] = "completing"
      BY <1>8, <2>3 DEF CommitComplete, TypeOK
    <3>2. s = current[v] /\ scanOf[r][s] = held[v][s] /\ progress[r][s] = "running"
            => progress'[r][s] = "completed"
      BY <1>8, <2>3 DEF CommitComplete, ProgressAfter
    <3> QED BY <1>3, <3>1, <3>2
  <2> QED BY <2>1, <2>2, <2>3
<1>9. ASSUME NEW w \in Worker, CommitFail(w) PROVE NewRow(v, r, s)
  <2>1. CASE v # w
    <3>1. held'[v] = held[v] /\ current'[v] = current[v] /\ pc'[v] = pc[v]
      BY <1>9, <2>1 DEF CommitFail, JobDone, TypeOK
    <3> QED BY <1>6, <1>9, <2>1, <3>1 DEF CommitFail
  <2>2. CASE v = w
    BY <1>7, <1>9, <2>2 DEF CommitFail
  <2> QED BY <2>1, <2>2
<1>10. ASSUME NEW w \in Worker, FailUnstarted(w) PROVE NewRow(v, r, s)
  <2>1. CASE v # w
    <3>1. held'[v] = held[v] /\ current'[v] = current[v] /\ pc'[v] = pc[v]
      BY <1>10, <2>1 DEF FailUnstarted, JobDone, TypeOK
    <3> QED BY <1>3, <1>10, <3>1 DEF FailUnstarted, runVars
  <2>2. CASE v = w
    BY <1>7, <1>10, <2>2 DEF FailUnstarted, runVars
  <2> QED BY <2>1, <2>2
<1>11. ASSUME NEW w \in Worker, NEW q \in Source, NEW acked \in BOOLEAN,
              StartScan(w, q, acked)
       PROVE  NewRow(v, r, s)
  <2>1. /\ progress'[r][s] = IF s = q /\ progress[r][s] = "queued"
                             THEN "running" ELSE progress[r][s]
        /\ scanOf'[r][s] = IF s = q /\ progress[r][s] = "queued"
                           THEN held[w][q] ELSE scanOf[r][s]
        /\ UNCHANGED held
    BY <1>11 DEF StartScan, TypeOK
  <2>2. CASE v # w
    <3>1. pc'[v] = pc[v] /\ current'[v] = current[v]
      BY <1>11, <2>2 DEF StartScan, TypeOK
    <3>2. held[v][s] # None => held[v][s] # held[w][s]
      BY <2>2 DEF HoldInv
    <3> QED BY <1>3, <2>1, <3>1, <3>2
  <2>3. CASE v = w
    <3>1. pc[v] = "ready" /\ pc'[v] # "ready" /\ current'[v] = q
      BY <1>11, <2>3 DEF StartScan, TypeOK
    <3> QED BY <1>3, <2>1, <2>3, <3>1
  <2> QED BY <2>2, <2>3
<1>12. ASSUME NEW w \in Worker, NEW q \in Source, StartScanFails(w, q)
       PROVE  NewRow(v, r, s)
  <2>1. CASE v # w
    <3>1. held'[v] = held[v] /\ current'[v] = current[v] /\ pc'[v] = pc[v]
      BY <1>12, <2>1 DEF StartScanFails, TypeOK
    <3> QED BY <1>3, <1>12, <3>1 DEF StartScanFails, runVars
  <2>2. CASE v = w
    BY <1>5, <1>12, <2>2 DEF StartScanFails, runVars
  <2> QED BY <2>1, <2>2
<1>13. ASSUME NEW w \in Worker, BeginComplete(w) \/ BeginFail(w) PROVE NewRow(v, r, s)
  <2>1. /\ UNCHANGED <<runVars, held, current>>
        /\ \/ pc'[v] = pc[v]
           \/ pc[v] = "scanning" /\ pc'[v] = "completing"
           \/ pc[v] = "failing" /\ pc'[v] = "recording"
    BY <1>13 DEF BeginComplete, BeginFail, TypeOK
  <2> QED BY <1>3, <2>1 DEF runVars
<1>14. ASSUME NEW w \in Worker, ScanRaises(w) PROVE NewRow(v, r, s)
  <2>1. /\ UNCHANGED <<runVars, held, current>>
        /\ \/ pc'[v] = pc[v]
           \/ pc[v] \in {"scanning", "completing"} /\ pc'[v] = "failing"
    BY <1>14 DEF ScanRaises, TypeOK
  <2> QED BY <1>3, <2>1 DEF runVars
<1>15. ASSUME NEW w \in Worker, NEW S \in SUBSET Source, Claim(w, S)
       PROVE  NewRow(v, r, s)
  <2>1. CASE v # w
    <3>1. held'[v] = held[v] /\ current'[v] = current[v] /\ pc'[v] = pc[v]
      BY <1>15, <2>1 DEF Claim, TypeOK
    <3> QED BY <1>3, <1>15, <3>1 DEF Claim, runVars
  <2>2. CASE v = w
    <3>1. held'[v][s] = IF s \in S THEN FreshToken(s) ELSE None
      BY <1>15, <2>2 DEF Claim, TypeOK
    <3>2. s \in S => FreshToken(s) # scanOf[r][s]
      BY <1>15, FreshTokenType DEF Claim, InUse
    <3> QED BY <1>15, <3>1, <3>2 DEF Claim, runVars
  <2> QED BY <2>1, <2>2
<1>16. ASSUME NEW w \in Worker, Crash(w) PROVE NewRow(v, r, s)
  <2>1. CASE v # w
    <3>1. held'[v] = held[v] /\ current'[v] = current[v] /\ pc'[v] = pc[v]
      BY <1>16, <2>1 DEF Crash, TypeOK
    <3> QED BY <1>3, <1>16, <3>1 DEF Crash, runVars
  <2>2. CASE v = w
    BY <1>16, <2>2 DEF Crash, TypeOK
  <2> QED BY <2>1, <2>2
<1>17. ASSUME NEW q \in Run, NEW S \in SUBSET Source, Enqueue(q, S) PROVE NewRow(v, r, s)
  <2>1. UNCHANGED <<scanOf, held, current, pc>>
    BY <1>17 DEF Enqueue, workerVars
  <2>2. r = q => scanOf[r][s] = None
    BY <1>3, <1>17 DEF Enqueue
  <2>3. r # q => progress'[r][s] = progress[r][s]
    BY <1>17 DEF Enqueue
  <2> QED BY <1>3, <2>1, <2>2, <2>3
<1> HIDE DEF NewRow
<1>18. ASSUME NEW w \in Worker, RunJob(w) PROVE NewRow(v, r, s)
  BY <1>8, <1>9, <1>10, <1>11, <1>12, <1>13, <1>14, <1>18 DEF RunJob
<1>19. ASSUME Clock \/ Operator PROVE NewRow(v, r, s)
  BY <1>4, <1>17, <1>19 DEF Clock, BecomeDue, ExpireLease, CooldownEnds, Operator,
                            Activate, Deactivate, workerVars
<1>20. ASSUME UNCHANGED vars PROVE NewRow(v, r, s)
  BY <1>4, <1>20 DEF vars, runVars
<1> QED BY <1>15, <1>16, <1>18, <1>19, <1>20 DEF Next

\* The end of a scan reaches the scan and its rows alike.
LEMMA ScanStep ==
    TypeOK /\ PhaseInv /\ RowInv /\ ScanAgreesWithRefresh /\ [Next]_vars
      => ScanAgreesWithRefresh'
<1> SUFFICES ASSUME TypeOK, PhaseInv, RowInv, ScanAgreesWithRefresh, [Next]_vars,
                    NEW r \in Run, NEW s \in Source
             PROVE  /\ progress'[r][s] \in {"running", "failed"} =>
                         scan'[r][s] = progress'[r][s]
                    /\ progress'[r][s] = "completed" =>
                         scan'[r][s] = "completed" \/ (LostAcks /\ scan'[r][s] = "failed")
  BY DEF ScanAgreesWithRefresh
<1> DEFINE Agree == /\ progress'[r][s] \in {"running", "failed"} =>
                         scan'[r][s] = progress'[r][s]
                    /\ progress'[r][s] = "completed" =>
                         scan'[r][s] = "completed" \/ (LostAcks /\ scan'[r][s] = "failed")
<1>1. /\ progress[r][s] \in {"running", "failed"} => scan[r][s] = progress[r][s]
      /\ progress[r][s] = "completed" =>
           scan[r][s] = "completed" \/ (LostAcks /\ scan[r][s] = "failed")
  BY DEF ScanAgreesWithRefresh
<1>2. ASSUME UNCHANGED runVars PROVE Agree
  BY <1>1, <1>2 DEF runVars
<1>3. ASSUME NEW w \in Worker, NEW outcome \in Finished, pc[w] # "ready",
             outcome = "failed" \/ pc[w] = "completing",
             progress' = ProgressAfter(w, outcome), scan' = ScanAfter(w, outcome)
      PROVE  Agree
  <2>1. CASE s = current[w] /\ scanOf[r][s] = held[w][s]
    <3>1. held[w][s] # None
      BY <1>3, <2>1, ConstantsAssumption DEF PhaseInv
    <3>2. \/ progress[r][s] = "running"
          \/ progress[r][s] = "completed" /\ LostAcks /\ pc[w] # "completing"
      BY <2>1, <3>1 DEF RowInv
    <3>3. /\ scan'[r][s] = outcome
          /\ progress'[r][s] = IF progress[r][s] = "running" THEN outcome
                               ELSE progress[r][s]
      BY <1>3, <2>1 DEF ProgressAfter, ScanAfter
    <3> QED BY <1>3, <3>2, <3>3 DEF Finished
  <2>2. CASE ~ (s = current[w] /\ scanOf[r][s] = held[w][s])
    <3>1. scan'[r][s] = scan[r][s] /\ progress'[r][s] = progress[r][s]
      BY <1>3, <2>2 DEF ProgressAfter, ScanAfter
    <3> QED BY <1>1, <3>1
  <2> QED BY <2>1, <2>2
<1>4. ASSUME NEW w \in Worker, NEW q \in Source, NEW acked \in BOOLEAN,
             StartScan(w, q, acked)
      PROVE  Agree
  <2>1. /\ progress'[r][s] = IF s = q /\ progress[r][s] = "queued"
                             THEN "running" ELSE progress[r][s]
        /\ scan'[r][s] = IF s = q /\ progress[r][s] = "queued"
                         THEN "running" ELSE scan[r][s]
    BY <1>4 DEF StartScan, TypeOK
  <2> QED BY <1>1, <2>1
<1>5. ASSUME NEW q \in Run, NEW S \in SUBSET Source, Enqueue(q, S) PROVE Agree
  <2>1. scan' = scan /\ progress'[r][s] \in {progress[r][s], "queued", "none"}
    BY <1>5 DEF Enqueue, TypeOK
  <2> QED BY <1>1, <2>1
<1> HIDE DEF Agree
<1>6. ASSUME NEW w \in Worker, RunJob(w) PROVE Agree
  <2>1. ASSUME NEW acked \in BOOLEAN, CommitComplete(w, acked) PROVE Agree
    BY <1>3, <2>1 DEF CommitComplete, Finished
  <2>2. ASSUME CommitFail(w) PROVE Agree
    BY <1>3, <2>2 DEF CommitFail, Finished
  <2>3. ASSUME NEW q \in Source, StartScanFails(w, q) PROVE Agree
    BY <1>2, <2>3 DEF StartScanFails
  <2>4. ASSUME BeginComplete(w) \/ ScanRaises(w) \/ BeginFail(w) \/ FailUnstarted(w)
        PROVE  Agree
    BY <1>2, <2>4 DEF BeginComplete, ScanRaises, BeginFail, FailUnstarted
  <2> QED BY <1>4, <1>6, <2>1, <2>2, <2>3, <2>4 DEF RunJob
<1>7. ASSUME Clock \/ Operator PROVE Agree
  BY <1>2, <1>5, <1>7 DEF Clock, BecomeDue, ExpireLease, CooldownEnds, Operator,
                          Activate, Deactivate
<1>8. ASSUME NEW w \in Worker, NEW S \in SUBSET Source, Claim(w, S) PROVE Agree
  BY <1>2, <1>8 DEF Claim
<1>9. ASSUME NEW w \in Worker, Crash(w) PROVE Agree
  BY <1>2, <1>9 DEF Crash
<1>10. ASSUME UNCHANGED vars PROVE Agree
  BY <1>2, <1>10 DEF vars, runVars
<1>11. Agree
  BY <1>6, <1>7, <1>8, <1>9, <1>10 DEF Next
<1> QED BY <1>11 DEF Agree

\* A refresh row and the scan that worked on it agree on what happened, whichever
\* workers scanned the source and in whatever order they came to their ends.
THEOREM ScanAgrees == Spec => []ScanAgreesWithRefresh
<1>1. Init => HoldInv /\ RowInv /\ ScanAgreesWithRefresh
  BY DEF Init, HoldInv, RowInv, ScanAgreesWithRefresh
<1>2. TypeOK /\ PhaseInv /\ HoldInv /\ RowInv /\ ScanAgreesWithRefresh /\ [Next]_vars
        => HoldInv' /\ RowInv' /\ ScanAgreesWithRefresh'
  BY HoldStep, RowInvStep, ScanStep
<1>3. Spec => [](TypeOK /\ PhaseInv)
  BY Invariance, PTL DEF IInv
<1> QED BY <1>1, <1>2, <1>3, PTL DEF Spec

-----------------------------------------------------------------------------
(* Orphans.                                                                *)

\* Somebody is scanning for a refresh row.
Attended(r, s) ==
    \E w \in Worker : /\ pc[w] \notin {"ready", "unstarted"}
                      /\ current[w] = s
                      /\ held[w][s] = scanOf[r][s]

\* As long as no worker has crashed, and unless the acknowledgement of
\* start_scan can be lost, a source that is running in a refresh is being scanned
\* for it: whatever keeps a refresh from its end is a worker that died.
RunningIsAttended ==
    crashes = 0 /\ ~ LostAcks =>
        \A r \in Run, s \in Source : progress[r][s] = "running" => Attended(r, s)

\* A scan that goes on still attends to its rows.
LEMMA AttendedStays ==
    ASSUME NEW r \in Run, NEW s \in Source, NEW w \in Worker,
           pc'[w] \notin {"ready", "unstarted"}, current'[w] = s,
           held'[w][s] = scanOf'[r][s]
    PROVE  Attended(r, s)'
BY DEF Attended

LEMMA AttendedStep ==
    TypeOK /\ PhaseInv /\ RunningIsAttended /\ [Next]_vars => RunningIsAttended'
<1> SUFFICES ASSUME TypeOK, PhaseInv, RunningIsAttended, [Next]_vars,
                    crashes' = 0, ~ LostAcks,
                    NEW r \in Run, NEW s \in Source, progress'[r][s] = "running"
             PROVE  Attended(r, s)'
  BY DEF RunningIsAttended
<1>1. ASSUME crashes = 0, progress[r][s] = "running" PROVE Attended(r, s)
  BY <1>1 DEF RunningIsAttended
\* The worker that is at the source stays there.
<1>2. ASSUME NEW w \in Worker, pc[w] \notin {"ready", "unstarted"}, current[w] = s,
             held[w][s] = scanOf[r][s], scanOf'[r][s] = scanOf[r][s],
             pc'[w] \notin {"ready", "unstarted"}, current'[w] = current[w],
             held'[w] = held[w]
      PROVE  Attended(r, s)'
  BY <1>2, AttendedStays
<1>3. ASSUME UNCHANGED <<progress, scanOf, pc, held, current, crashes>>
      PROVE  Attended(r, s)'
  BY <1>1, <1>3 DEF Attended
<1>4. ASSUME NEW q \in Run, NEW S \in SUBSET Source, Enqueue(q, S)
      PROVE  Attended(r, s)'
  <2>1. progress[r][s] = "running"
    BY <1>4 DEF Enqueue, TypeOK
  <2> QED BY <1>1, <1>4, <2>1 DEF Enqueue, workerVars, Attended
<1>5. ASSUME NEW v \in Worker, NEW S \in SUBSET Source, Claim(v, S)
      PROVE  Attended(r, s)'
  <2>1. PICK w \in Worker : /\ pc[w] \notin {"ready", "unstarted"} /\ current[w] = s
                            /\ held[w][s] = scanOf[r][s]
    BY <1>1, <1>5 DEF Claim, runVars, Attended
  <2>2. w # v
    BY <1>5, <2>1 DEF Claim, Idle
  <2>3. held'[w] = held[w]
    BY <1>5, <2>2 DEF Claim, TypeOK
  <2> QED BY <1>2, <1>5, <2>1, <2>3 DEF Claim, runVars
<1>6. ASSUME NEW v \in Worker, NEW x \in Source, StartScan(v, x, TRUE)
      PROVE  Attended(r, s)'
  <2>1. CASE progress[r][s] = "running"
    <3>1. PICK w \in Worker : /\ pc[w] \notin {"ready", "unstarted"} /\ current[w] = s
                              /\ held[w][s] = scanOf[r][s]
      BY <1>1, <1>6, <2>1 DEF StartScan, Attended
    <3>2. w # v
      BY <1>6, <3>1 DEF StartScan
    <3>3. pc'[w] = pc[w] /\ current'[w] = current[w] /\ held'[w] = held[w]
      BY <1>6, <3>2 DEF StartScan, TypeOK
    <3>4. scanOf'[r][s] = scanOf[r][s]
      BY <1>6, <2>1 DEF StartScan, TypeOK
    <3> QED BY <1>2, <3>1, <3>3, <3>4
  <2>2. CASE progress[r][s] # "running"
    <3>1. x = s /\ progress[r][s] = "queued"
      BY <1>6, <2>2 DEF StartScan, TypeOK
    <3>2. scanOf'[r][s] = held[v][s] /\ held' = held
      BY <1>6, <3>1 DEF StartScan, TypeOK
    <3>3. pc'[v] = "scanning" /\ current'[v] = s
      BY <1>6, <3>1 DEF StartScan, TypeOK
    <3> QED BY <3>2, <3>3, AttendedStays
  <2> QED BY <2>1, <2>2
<1>7. ASSUME NEW v \in Worker, NEW x \in Source, StartScanFails(v, x)
      PROVE  Attended(r, s)'
  <2>1. PICK w \in Worker : /\ pc[w] \notin {"ready", "unstarted"} /\ current[w] = s
                            /\ held[w][s] = scanOf[r][s]
    BY <1>1, <1>7 DEF StartScanFails, runVars, Attended
  <2>2. w # v
    BY <1>7, <2>1 DEF StartScanFails
  <2>3. pc'[w] = pc[w] /\ current'[w] = current[w] /\ held'[w] = held[w]
    BY <1>7, <2>2 DEF StartScanFails, TypeOK
  <2> QED BY <1>2, <1>7, <2>1, <2>3 DEF StartScanFails, runVars
<1>8. ASSUME NEW v \in Worker, BeginComplete(v) \/ ScanRaises(v) \/ BeginFail(v)
      PROVE  Attended(r, s)'
  <2>1. PICK w \in Worker : /\ pc[w] \notin {"ready", "unstarted"} /\ current[w] = s
                            /\ held[w][s] = scanOf[r][s]
    BY <1>1, <1>8 DEF BeginComplete, ScanRaises, BeginFail, runVars, Attended
  <2>2. pc'[w] \notin {"ready", "unstarted"} /\ current'[w] = current[w] /\ held'[w] = held[w]
    BY <1>8, <2>1 DEF BeginComplete, ScanRaises, BeginFail, TypeOK
  <2> QED BY <1>2, <1>8, <2>1, <2>2 DEF BeginComplete, ScanRaises, BeginFail, runVars
\* Who ends its scan ends the rows it attends to.
<1>9. ASSUME NEW v \in Worker, NEW outcome \in Finished, pc[v] # "ready",
             progress' = ProgressAfter(v, outcome), JobDone(v),
             UNCHANGED <<scanOf, crashes>>
      PROVE  Attended(r, s)'
  <2>1. progress[r][s] = "running" /\ ~ (s = current[v] /\ scanOf[r][s] = held[v][s])
    BY <1>9 DEF ProgressAfter, Finished, TypeOK
  <2>2. PICK w \in Worker : /\ pc[w] \notin {"ready", "unstarted"} /\ current[w] = s
                            /\ held[w][s] = scanOf[r][s]
    BY <1>1, <1>9, <2>1 DEF Attended
  <2>3. w # v
    BY <2>1, <2>2
  <2>4. pc'[w] = pc[w] /\ current'[w] = current[w] /\ held'[w] = held[w]
    BY <1>9, <2>3, JobDoneHeld
  <2> QED BY <1>2, <1>9, <2>2, <2>4
<1>10. ASSUME NEW v \in Worker, FailUnstarted(v)
       PROVE  Attended(r, s)'
  <2>1. PICK w \in Worker : /\ pc[w] \notin {"ready", "unstarted"} /\ current[w] = s
                            /\ held[w][s] = scanOf[r][s]
    BY <1>1, <1>10 DEF FailUnstarted, runVars, Attended
  <2>2. w # v
    BY <1>10, <2>1 DEF FailUnstarted
  <2>3. pc'[w] = pc[w] /\ current'[w] = current[w] /\ held'[w] = held[w]
    BY <1>10, <2>2, JobDoneHeld DEF FailUnstarted
  <2> QED BY <1>2, <1>10, <2>1, <2>3 DEF FailUnstarted, runVars
<1>11. ASSUME NEW v \in Worker, RunJob(v) PROVE Attended(r, s)'
  <2>1. ASSUME NEW x \in Source, NEW acked \in BOOLEAN, StartScan(v, x, acked)
        PROVE  Attended(r, s)'
    <3>1. acked = TRUE
      BY <2>1 DEF StartScan
    <3> QED BY <1>6, <2>1, <3>1
  <2>2. ASSUME NEW acked \in BOOLEAN, CommitComplete(v, acked)
        PROVE  Attended(r, s)'
    <3>1. acked = TRUE
      BY <2>2 DEF CommitComplete
    <3>2. JobDone(v) /\ pc[v] # "ready" /\ "completed" \in Finished
      BY <2>2, <3>1 DEF CommitComplete, Finished
    <3> QED BY <1>9, <2>2, <3>2 DEF CommitComplete
  <2>3. ASSUME CommitFail(v) PROVE Attended(r, s)'
    <3>1. JobDone(v) /\ pc[v] # "ready" /\ "failed" \in Finished
      BY <2>3 DEF CommitFail, Finished
    <3> QED BY <1>9, <2>3, <3>1 DEF CommitFail
  <2> QED BY <1>7, <1>8, <1>10, <1>11, <2>1, <2>2, <2>3 DEF RunJob
<1>12. ASSUME NEW v \in Worker, Crash(v) PROVE FALSE
  BY <1>12 DEF Crash, TypeOK
<1>13. ASSUME Clock \/ (\E x \in Managed : Activate(x) \/ Deactivate(x)) PROVE Attended(r, s)'
  BY <1>3, <1>13 DEF Clock, BecomeDue, ExpireLease, CooldownEnds, Activate, Deactivate,
                     runVars, workerVars
<1>14. ASSUME UNCHANGED vars PROVE Attended(r, s)'
  BY <1>3, <1>14 DEF vars
<1> QED BY <1>4, <1>5, <1>11, <1>12, <1>13, <1>14 DEF Next, Operator

\* Without a crash and a lost acknowledgement no refresh is orphaned.
THEOREM OrphansNeedACrash == Spec => []RunningIsAttended
<1>1. Init => RunningIsAttended
  BY DEF Init, RunningIsAttended
<1>2. IInv => TypeOK /\ PhaseInv
  BY DEF IInv
<1> QED BY <1>1, <1>2, AttendedStep, Invariance, PTL DEF Spec

-----------------------------------------------------------------------------
(* The end of a refresh.                                                 *)

\* A refresh that is closed is over: neither its outcome nor the rows of its
\* sources change any more, although stale workers may still end scans of them.
ClosedRefreshIsFinal ==
    [][\A r \in Run : run[r] \in Finished =>
         run'[r] = run[r] /\ progress'[r] = progress[r]]_vars

\* Nothing reopens a refresh or rewrites what came out of it.
THEOREM RefreshFinal == Spec => ClosedRefreshIsFinal
<1> DEFINE Final == \A r \in Run : run[r] \in Finished =>
                      run'[r] = run[r] /\ progress'[r] = progress[r]
<1>1. ASSUME IInv, [Next]_vars PROVE Final
  <2> SUFFICES ASSUME NEW r \in Run, run[r] \in Finished
               PROVE  run'[r] = run[r] /\ progress'[r] = progress[r]
    OBVIOUS
  <2>1. /\ run' \in [Run -> RunStatus] /\ progress' \in [Run -> [Source -> RunStatus]]
        /\ run \in [Run -> RunStatus] /\ progress \in [Run -> [Source -> RunStatus]]
    BY <1>1, TypeStep DEF IInv, TypeOK
  <2>2. \A s \in Source : progress[r][s] \in Finished \cup {"none"}
    BY <1>1 DEF IInv, RunAgreesWithSources
  <2>3. [Refresh!Next]_(Refresh!refreshVars)
    BY <1>1, RefreshStep DEF IInv
  <2>4. CASE UNCHANGED Refresh!refreshVars
    BY <2>4 DEF Refresh!refreshVars
  <2>5. ASSUME NEW q \in Run, NEW S \in SUBSET Source, Refresh!Request(q, S)
        PROVE  run'[r] = run[r] /\ progress'[r] = progress[r]
    <3>1. q # r
      BY <2>5 DEF Refresh!Request, Finished
    <3> QED BY <2>1, <2>5, <3>1 DEF Refresh!Request
  <2>6. ASSUME NEW s \in Source, Refresh!Start(s)
        PROVE  run'[r] = run[r] /\ progress'[r] = progress[r]
    <3>1. run'[r] = run[r]
      BY <2>6 DEF Refresh!Start, Finished
    <3>2. progress'[r] = [progress[r] EXCEPT ![s] = IF @ = "queued" THEN "running" ELSE @]
      BY <2>6 DEF Refresh!Start
    <3>3. progress[r][s] # "queued"
      BY <2>2 DEF Finished
    <3> QED BY <2>1, <3>1, <3>2, <3>3
  <2>7. ASSUME NEW s \in Source, NEW R \in SUBSET Run, NEW C \in SUBSET Run,
               NEW outcome \in Finished, Refresh!Finish(s, R, C, outcome)
        PROVE  run'[r] = run[r] /\ progress'[r] = progress[r]
    <3>1. run'[r] = run[r]
      BY <2>7 DEF Refresh!Finish, Finished, Refresh!Active
    <3>2. r \notin R
      BY <2>2, <2>7 DEF Refresh!Finish, Finished
    <3>3. progress'[r] = [progress[r] EXCEPT ![s] = @]
      BY <2>7, <3>2 DEF Refresh!Finish
    <3> QED BY <2>1, <3>1, <3>3
  <2> QED BY <2>3, <2>4, <2>5, <2>6, <2>7 DEF Refresh!Next, Refresh!Finished, Finished
<1> QED BY <1>1, Invariance, PTL DEF Spec, ClosedRefreshIsFinal
=============================================================================
