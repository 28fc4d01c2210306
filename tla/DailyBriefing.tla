---------------------------- MODULE DailyBriefing ----------------------------
(***************************************************************************)
(* The daily briefings of one organization: a job per date that the        *)
(* workers enqueue when they poll, lease, and complete or fail; the        *)
(* edition that a job publishes; and the readers who subscribe to it.      *)
(*                                                                         *)
(* Time is counted in ticks of the database's clock.  The date a worker    *)
(* asks for is the date in the configured time zone; the window of what    *)
(* the edition lists is the date in the database's zone.  Of the six       *)
(* sections of an edition the model has the first: documents by the time   *)
(* they were first observed.  The others run the same query shape over     *)
(* rows that the workers here do not write.                                *)
(*                                                                         *)
(* A worker finishes its batch before it claims again, so a lease token is *)
(* represented by the worker that holds it.  Retry delays are left out: a  *)
(* failed job may be claimed at any later time.                            *)
(***************************************************************************)
EXTENDS Integers, FiniteSets

CONSTANTS
    Worker,         \* processes that run run_worker
    Reader,         \* active members of the organization
    Item,           \* documents
    None,           \* SQL NULL, or no row
    LastDate,       \* bound on the dates
    DayLength,      \* ticks in a day
    Zone,           \* ticks the briefing zone is ahead of the database's
    SectionLimit    \* CIVICOS_BRIEFING_SECTION_LIMIT

ASSUME ConstantsAssumption ==
    /\ None \notin Worker \cup Int /\ \A S \in SUBSET Item : S # None
    /\ LastDate \in Nat \ {0} /\ DayLength \in Nat \ {0} /\ Zone \in Int
    /\ SectionLimit \in Nat
    /\ IsFiniteSet(Item)

VARIABLES
    now,        \* now() in ticks
    seen,       \* documents.first_observed_at, None for no row
    subscribed, \* readers whose briefing_subscriptions.is_active
    job,        \* daily_briefing_jobs.status by date, "none" for no row
    token,      \* daily_briefing_jobs.lease_token by date
    live,       \* leased_until >= now() by date
    edition,    \* daily_briefings.content by date
    delivered,  \* readers with a row in daily_briefing_deliveries, by date
    read,       \* readers whose delivery has status read, by date
    pc,         \* where a worker is in run_due_jobs
    held,       \* dates of the claimed jobs a worker has not finished
    draft       \* what a worker has collected: [date, items], or None

clock == <<now, seen>>
shelf == <<edition, delivered>>
jobVars == <<job, token, live>>
local == <<pc, held, draft>>
vars == <<now, seen, subscribed, job, token, live, edition, delivered, read,
          pc, held, draft>>

Date == 1..LastDate
Status == {"none", "pending", "processing", "completed", "failed"}
Draft == [date : Date, items : SUBSET Item]

LocalDate == (now + Zone) \div DayLength
Start == DayLength - Zone
End == (LastDate + 1) * DayLength - Zone - 1

TypeOK ==
    /\ now \in Start..End
    /\ seen \in [Item -> Start..End \cup {None}]
    /\ subscribed \subseteq Reader
    /\ job \in [Date -> Status]
    /\ token \in [Date -> Worker \cup {None}]
    /\ live \in [Date -> BOOLEAN]
    /\ edition \in [Date -> {None} \cup SUBSET Item]
    /\ delivered \in [Date -> SUBSET Reader]
    /\ read \in [Date -> SUBSET Reader]
    /\ pc \in [Worker -> {"ready", "claiming", "working"}]
    /\ held \in [Worker -> SUBSET Date]
    /\ draft \in [Worker -> {None} \cup Draft]

\* The clock stands at local midnight of the first date.
Init ==
    /\ now = Start
    /\ seen = [x \in Item |-> None]
    /\ subscribed \in SUBSET Reader
    /\ job = [d \in Date |-> "none"]
    /\ token = [d \in Date |-> None]
    /\ live = [d \in Date |-> FALSE]
    /\ edition = [d \in Date |-> None]
    /\ delivered = [d \in Date |-> {}]
    /\ read = [d \in Date |-> {}]
    /\ pc = [w \in Worker |-> "ready"]
    /\ held = [w \in Worker |-> {}]
    /\ draft = [w \in Worker |-> None]

-----------------------------------------------------------------------------
(* The clock, the scans that store documents, and the readers.             *)

Tick ==
    /\ now < End
    /\ now' = now + 1
    /\ UNCHANGED <<seen, subscribed, jobVars, shelf, read, local>>

ExpireLease(d) ==
    /\ live[d]
    /\ live' = [live EXCEPT ![d] = FALSE]
    /\ UNCHANGED <<clock, subscribed, job, token, shelf, read, local>>

Observe(x) ==
    /\ seen[x] = None
    /\ seen' = [seen EXCEPT ![x] = now]
    /\ UNCHANGED <<now, subscribed, jobVars, shelf, read, local>>

Subscribe(u) ==
    /\ subscribed' = subscribed \cup {u}
    /\ UNCHANGED <<clock, jobVars, shelf, read, local>>

\* The row stays, with is_active = false.
Unsubscribe(u) ==
    /\ subscribed' = subscribed \ {u}
    /\ UNCHANGED <<clock, jobVars, shelf, read, local>>

\* "Briefing was not found" unless the member has a delivery of it; a
\* subscription that is no longer active does not matter.
MarkRead(d, u) ==
    /\ u \in delivered[d]
    /\ read' = [read EXCEPT ![d] = @ \cup {u}]
    /\ UNCHANGED <<clock, subscribed, jobVars, shelf, local>>

-----------------------------------------------------------------------------
(* A worker's round: enqueue, claim, then one job after the other.         *)

\* Mutant: the poll of a date starts its job over.
EnqueuedAgain(d) == job[d] # "processing" /\ subscribed # {}

\* enqueue_daily_briefing_jobs: ON CONFLICT DO NOTHING.
Enqueued(d) == job[d] = "none" /\ subscribed # {}

Poll(w) ==
    /\ pc[w] = "ready"
    /\ job' = [d \in Date |-> IF d = LocalDate /\ Enqueued(d) THEN "pending"
                              ELSE job[d]]
    /\ pc' = [pc EXCEPT ![w] = "claiming"]
    /\ UNCHANGED <<clock, subscribed, token, live, shelf, read, held,
                   draft>>

\* Mutant: only jobs that nobody has leased yet are due.
ClaimableReleased == {d \in Date : job[d] \in {"pending", "failed"}}

Claimable ==
    {d \in Date : \/ job[d] \in {"pending", "failed"}
                  \/ job[d] = "processing" /\ ~ live[d]}

\* claim_daily_briefing_jobs: SKIP LOCKED may pass over any of the due rows.
Claim(w, D) ==
    /\ pc[w] = "claiming"
    /\ D \subseteq Claimable
    /\ job' = [d \in Date |-> IF d \in D THEN "processing" ELSE job[d]]
    /\ token' = [d \in Date |-> IF d \in D THEN w ELSE token[d]]
    /\ live' = [d \in Date |-> live[d] \/ d \in D]
    /\ held' = [held EXCEPT ![w] = D]
    /\ pc' = [pc EXCEPT ![w] = IF D = {} THEN "ready" ELSE "working"]
    /\ UNCHANGED <<clock, subscribed, shelf, read, draft>>

\* Mutant: the end of the window belongs to it.
WindowClosed(d) ==
    {x \in Item : /\ seen[x] # None
                  /\ d * DayLength <= seen[x] /\ seen[x] <= (d + 1) * DayLength}

\* first_observed_at >= briefing_date AND < day_after, in the database's zone.
Window(d) ==
    {x \in Item : /\ seen[x] # None
                  /\ d * DayLength <= seen[x] /\ seen[x] < (d + 1) * DayLength}

\* ORDER BY first_observed_at DESC LIMIT.
Newest(S) ==
    {T \in SUBSET S :
        /\ Cardinality(T) <= SectionLimit
        /\ T # S => Cardinality(T) = SectionLimit
        /\ \A x \in T, y \in S \ T : seen[x] >= seen[y]}

Collect(w, d) ==
    /\ d \in held[w]
    /\ draft[w] = None
    /\ \E T \in Newest(Window(d)) :
         draft' = [draft EXCEPT ![w] = [date |-> d, items |-> T]]
    /\ UNCHANGED <<clock, subscribed, jobVars, shelf, read, pc, held>>

\* The loop goes on to the batch's next job, or returns.
Drop(w, d) ==
    /\ held' = [held EXCEPT ![w] = @ \ {d}]
    /\ draft' = [draft EXCEPT ![w] = None]
    /\ pc' = [pc EXCEPT ![w] = IF held[w] = {d} THEN "ready" ELSE "working"]

\* Mutant: a failed job gets a status that the table does not allow.
SetOutcomeRetrying(d, outcome) ==
    /\ job' = [job EXCEPT ![d] = IF outcome = "failed" THEN "retrying" ELSE outcome]
    /\ token' = [token EXCEPT ![d] = None]
    /\ live' = [live EXCEPT ![d] = FALSE]

SetOutcome(d, outcome) ==
    /\ job' = [job EXCEPT ![d] = outcome]
    /\ token' = [token EXCEPT ![d] = None]
    /\ live' = [live EXCEPT ![d] = FALSE]

\* The upserts of complete_job: the content is replaced, deliveries only added.
Store(d, items) ==
    /\ edition' = [edition EXCEPT ![d] = items]
    /\ delivered' = [delivered EXCEPT ![d] = @ \cup subscribed]

\* Mutant: the upserts are committed although the lease was lost.
CompleteWithoutRollback(w, d) ==
    /\ draft[w] # None /\ draft[w].date = d
    /\ Store(d, draft[w].items)
    /\ IF token[d] = w THEN SetOutcome(d, "completed") ELSE UNCHANGED jobVars
    /\ Drop(w, d)
    /\ UNCHANGED <<clock, subscribed, read>>

\* complete_job: one transaction with the fenced update of the job.  When the
\* lease was lost it is rolled back, and fail_job finds no row either.
Complete(w, d) ==
    /\ draft[w] # None /\ draft[w].date = d
    /\ IF token[d] = w
       THEN Store(d, draft[w].items) /\ SetOutcome(d, "completed")
       ELSE UNCHANGED <<shelf, jobVars>>
    /\ Drop(w, d)
    /\ UNCHANGED <<clock, subscribed, read>>

\* A query raised: fail_job sets the job back if the lease is still held.
Fail(w, d) ==
    /\ d \in held[w]
    /\ draft[w] # None => draft[w].date = d
    /\ IF token[d] = w THEN SetOutcome(d, "failed") ELSE UNCHANGED jobVars
    /\ Drop(w, d)
    /\ UNCHANGED <<clock, subscribed, shelf, read>>

\* The process dies and is started again, or enqueue, claim or fail_job raises
\* out of run_worker; its leases run on.
Crash(w) ==
    /\ held' = [held EXCEPT ![w] = {}]
    /\ draft' = [draft EXCEPT ![w] = None]
    /\ pc' = [pc EXCEPT ![w] = "ready"]
    /\ UNCHANGED <<clock, subscribed, jobVars, shelf, read>>

Round(w) ==
    \/ Poll(w)
    \/ \E D \in SUBSET Date : Claim(w, D)
    \/ \E d \in Date : Collect(w, d) \/ Complete(w, d) \/ Fail(w, d)

Next ==
    \/ Tick
    \/ \E d \in Date : ExpireLease(d)
    \/ \E x \in Item : Observe(x)
    \/ \E u \in Reader : \/ Subscribe(u)
                         \/ Unsubscribe(u)
                         \/ \E d \in Date : MarkRead(d, u)
    \/ \E w \in Worker : Round(w) \/ Crash(w)

Spec == Init /\ [][Next]_vars

\* Workers poll and their calls return or raise, leases run out; ORDER BY
\* run_after passes over no job for ever, and a generation that is retried for
\* ever succeeds within its lease.
Fairness ==
    /\ \A w \in Worker : WF_vars(Round(w))
    /\ \A d \in Date :
         /\ WF_vars(ExpireLease(d))
         /\ SF_vars(\E w \in Worker, D \in SUBSET Date : d \in D /\ Claim(w, D))
         /\ SF_vars(\E w \in Worker : token[d] = w /\ Collect(w, d))
         /\ SF_vars(\E w \in Worker : token[d] = w /\ Complete(w, d))

FairSpec == Spec /\ Fairness

-----------------------------------------------------------------------------
(* Properties.                                                             *)

Shelf == INSTANCE Edition WITH
    Date <- Date, Item <- Item, Reader <- Reader, None <- None,
    subscribed <- subscribed, edition <- edition, delivered <- delivered,
    read <- read

\* One edition per date, published once, final, and delivered to exactly the
\* readers who were subscribed then, although two workers may generate it when
\* a lease runs out, and readers come and go at any time.
ImplementsEdition == Shelf!Spec

\* The content of a date and the state of its job are written by one
\* transaction: a worker that has lost its lease leaves neither behind, and a
\* job never ends without its edition.
EditionAgreesWithJob ==
    \A d \in Date : edition[d] # None <=> job[d] = "completed"

\* No document is news twice, in whichever order the editions of two dates are
\* generated and retried.
NoNewsTwice ==
    \A d, e \in Date :
        d # e /\ edition[d] # None /\ edition[e] # None =>
            edition[d] \cap edition[e] = {}

\* A briefing once enqueued is published, whoever crashes, however often its
\* generation fails, and also when the failure cannot be recorded.
BriefingIsPublished ==
    \A d \in Date : job[d] = "pending" ~> edition[d] # None
=============================================================================
