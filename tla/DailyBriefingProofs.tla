------------------------- MODULE DailyBriefingProofs -------------------------
(***************************************************************************)
(* Proofs about DailyBriefing for any workers, readers, documents, dates,  *)
(* time zone and limit.                                                    *)
(*                                                                         *)
(* That an edition is published once rests on the lease: whoever holds the *)
(* token of a date finds its job in processing, so the date has no edition *)
(* and nobody has a delivery of it.  That no document is news twice rests  *)
(* on what editions and drafts hold: documents of the window of their      *)
(* date, and a document never leaves the window it was first observed in.  *)
(***************************************************************************)
EXTENDS DailyBriefing, TLAPS

\* A lease belongs to a job in processing.
LeaseInv == \A d \in Date : token[d] # None => job[d] = "processing"

\* Nobody has a delivery of an edition that does not exist.
DeliveryInv == \A d \in Date : edition[d] = None => delivered[d] = {}

\* Editions and drafts hold documents of their date only.
WindowInv ==
    /\ \A d \in Date : edition[d] # None => edition[d] \subseteq Window(d)
    /\ \A w \in Worker :
         draft[w] # None => draft[w].items \subseteq Window(draft[w].date)

IInv ==
    /\ TypeOK
    /\ LeaseInv
    /\ EditionAgreesWithJob
    /\ DeliveryInv
    /\ WindowInv

-----------------------------------------------------------------------------
\* The clock starts and ends at integers.
LEMMA TimeIsInteger == Start \in Int /\ End \in Int
  BY ConstantsAssumption DEF Start, End

\* The windows of two dates have no document in common.
LEMMA WindowsAreDisjoint ==
    ASSUME TypeOK, NEW d \in Date, NEW e \in Date, d # e
    PROVE  Window(d) \cap Window(e) = {}
  <1>1. ASSUME NEW i \in Nat, NEW j \in Nat, i < j
        PROVE  (i + 1) * DayLength <= j * DayLength
    <2>1. (j - i - 1) \in Nat /\ DayLength \in Nat
      BY <1>1, ConstantsAssumption
    <2>2. (j - i - 1) * DayLength \in Nat
      BY <2>1
    <2>3. j * DayLength = (i + 1) * DayLength + (j - i - 1) * DayLength
      BY <2>1
    <2>4. (i + 1) * DayLength \in Nat /\ j * DayLength \in Nat
      BY <2>1
    <2>. QED  BY <2>2, <2>3, <2>4
  <1>2. d \in Nat /\ e \in Nat /\ (d < e \/ e < d)
    BY ConstantsAssumption DEF Date
  <1>3. /\ d * DayLength \in Nat /\ (d + 1) * DayLength \in Nat
        /\ e * DayLength \in Nat /\ (e + 1) * DayLength \in Nat
    BY <1>2, ConstantsAssumption
  <1>4. (d + 1) * DayLength <= e * DayLength \/ (e + 1) * DayLength <= d * DayLength
    BY <1>1, <1>2
  <1>5. \A x \in Item : seen[x] # None => seen[x] \in Int
    BY TimeIsInteger DEF TypeOK
  <1>. QED  BY <1>3, <1>4, <1>5 DEF Window

\* A document stays in the window it was first observed in.
LEMMA WindowsGrow ==
    ASSUME TypeOK, [Next]_vars, NEW d \in Date
    PROVE  Window(d) \subseteq Window(d)'
  <1>1. \A x \in Item : seen[x] # None => seen'[x] = seen[x]
    <2>1. CASE \E x \in Item : Observe(x)
      BY <2>1 DEF Observe, TypeOK
    <2>2. CASE UNCHANGED seen
      BY <2>2
    <2>. QED
      BY <2>1, <2>2
      DEF Next, vars, clock, Tick, ExpireLease, Subscribe, Unsubscribe, MarkRead,
          Round, Poll, Claim, Collect, Complete, Fail, Crash
  <1>. QED  BY <1>1 DEF Window

-----------------------------------------------------------------------------
\* What an action may do to the rows of the jobs, editions and deliveries.

\* A worker publishes only a date that it has leased, which has no edition yet,
\* and publishes exactly what it collected.
LEMMA CompleteEffect ==
    ASSUME IInv, NEW w \in Worker, NEW d \in Date, Complete(w, d)
    PROVE  \/ UNCHANGED <<edition, delivered, jobVars>>
           \/ /\ draft[w] \in Draft /\ draft[w].date = d
              /\ edition[d] = None
              /\ job[d] = "processing"
              /\ edition' = [edition EXCEPT ![d] = draft[w].items]
              /\ delivered' = [delivered EXCEPT ![d] = subscribed]
              /\ SetOutcome(d, "completed")
  <1>1. CASE token[d] = w
    <2>1. job[d] = "processing"
      BY <1>1, ConstantsAssumption DEF IInv, LeaseInv
    <2>2. edition[d] = None /\ delivered[d] = {}
      BY <2>1 DEF IInv, EditionAgreesWithJob, DeliveryInv
    <2>3. draft[w] \in Draft
      BY DEF IInv, TypeOK, Complete
    <2>4. delivered' = [delivered EXCEPT ![d] = subscribed]
      BY <1>1, <2>2 DEF Complete, Store, IInv, TypeOK
    <2>. QED  BY <1>1, <2>1, <2>2, <2>3, <2>4 DEF Complete, Store
  <1>2. CASE token[d] # w
    BY <1>2 DEF Complete, shelf, jobVars
  <1>. QED  BY <1>1, <1>2

-----------------------------------------------------------------------------
\* The empty tables satisfy the invariant.
LEMMA InitIInv == Init => IInv
  <1>1. Start \in Start..End
    <2>1. (LastDate - 1) * DayLength \in Nat
      BY ConstantsAssumption
    <2>2. End = (LastDate - 1) * DayLength + DayLength + Start - 1
      BY ConstantsAssumption DEF Start, End
    <2>. QED  BY <2>1, <2>2, TimeIsInteger, ConstantsAssumption
  <1>. QED
    BY <1>1, ConstantsAssumption
    DEF Init, IInv, TypeOK, LeaseInv, EditionAgreesWithJob, DeliveryInv,
        WindowInv, Status, Draft
\* Where neither editions nor drafts change, windows only grow around them.
LEMMA WindowInvKept ==
    ASSUME IInv, [Next]_vars, UNCHANGED edition,
           \A w \in Worker : draft'[w] = draft[w] \/ draft'[w] = None
    PROVE  WindowInv'
  <1>1. ASSUME NEW d \in Date, edition[d] # None
        PROVE  edition[d] \subseteq Window(d)'
    BY <1>1, WindowsGrow DEF IInv, WindowInv
  <1>2. ASSUME NEW w \in Worker, draft[w] # None
        PROVE  \A d \in Date : draft[w].date = d => draft[w].items \subseteq Window(d)'
    BY <1>2, WindowsGrow DEF IInv, WindowInv
  <1>3. \A w \in Worker : draft[w] # None => draft[w].date \in Date
    BY DEF IInv, TypeOK, Draft
  <1>. QED  BY <1>1, <1>2, <1>3 DEF WindowInv

\* The clock, the scans and the readers do not touch jobs and editions.
LEMMA OutsideIInv ==
    ASSUME IInv,
           \/ Tick
           \/ \E d \in Date : ExpireLease(d)
           \/ \E x \in Item : Observe(x)
           \/ \E u \in Reader : \/ Subscribe(u)
                                \/ Unsubscribe(u)
                                \/ \E d \in Date : MarkRead(d, u)
    PROVE  IInv'
  <1>. USE DEF IInv
  <1>1. TypeOK'
    <2>1. CASE Tick
      BY <2>1, TimeIsInteger DEF Tick, TypeOK, jobVars, shelf, local
    <2>2. ASSUME NEW d \in Date, ExpireLease(d) PROVE TypeOK'
      BY <2>2 DEF ExpireLease, TypeOK, clock, shelf, local
    <2>3. ASSUME NEW x \in Item, Observe(x) PROVE TypeOK'
      BY <2>3 DEF Observe, TypeOK, jobVars, shelf, local
    <2>4. ASSUME NEW u \in Reader, Subscribe(u) \/ Unsubscribe(u) PROVE TypeOK'
      BY <2>4 DEF Subscribe, Unsubscribe, TypeOK, clock, jobVars, shelf, local
    <2>5. ASSUME NEW u \in Reader, NEW d \in Date, MarkRead(d, u) PROVE TypeOK'
      BY <2>5 DEF MarkRead, TypeOK, clock, jobVars, shelf, local
    <2>. QED  BY <2>1, <2>2, <2>3, <2>4, <2>5
  <1>2. UNCHANGED <<job, token, edition, delivered, draft>>
    BY DEF Tick, ExpireLease, Observe, Subscribe, Unsubscribe, MarkRead, jobVars,
           shelf, local
  <1>3. WindowInv'
    BY <1>2, WindowInvKept DEF Next
  <1>. QED
    BY <1>1, <1>2, <1>3 DEF LeaseInv, EditionAgreesWithJob, DeliveryInv

\* A poll only adds the job of a date that has none, hence no edition.
LEMMA PollIInv ==
    ASSUME IInv, NEW w \in Worker, Poll(w)
    PROVE  IInv'
  <1>. USE DEF IInv, Poll
  <1>1. TypeOK'
    BY DEF TypeOK, Status, clock, shelf
  <1>2. UNCHANGED <<token, edition, delivered, draft>>
    BY DEF shelf
  <1>3. \A d \in Date : job'[d] = job[d] \/ (job[d] = "none" /\ job'[d] = "pending")
    <2>1. \A d \in Date : job'[d] = IF d = LocalDate /\ Enqueued(d)
                                    THEN "pending" ELSE job[d]
      OBVIOUS
    <2>. QED  BY <2>1 DEF Enqueued
  <1>4. WindowInv'
    BY <1>2, WindowInvKept DEF Next, Round
  <1>. QED
    BY <1>1, <1>2, <1>3, <1>4
    DEF LeaseInv, EditionAgreesWithJob, DeliveryInv

\* A claim moves the token of jobs that are not completed.
LEMMA ClaimIInv ==
    ASSUME IInv, NEW w \in Worker, NEW D \in SUBSET Date, Claim(w, D)
    PROVE  IInv'
  <1>. USE DEF IInv, Claim
  <1>1. TypeOK'
    BY DEF TypeOK, Status, clock, shelf
  <1>2. UNCHANGED <<edition, delivered, draft>>
    BY DEF shelf
  <1>3. LeaseInv'
    BY DEF LeaseInv
  <1>4. EditionAgreesWithJob'
    BY <1>2 DEF EditionAgreesWithJob, Claimable, TypeOK
  <1>5. WindowInv'
    BY <1>2, WindowInvKept DEF Next, Round
  <1>. QED
    BY <1>1, <1>2, <1>3, <1>4, <1>5 DEF DeliveryInv

\* A draft is taken from the window of its date.
LEMMA CollectIInv ==
    ASSUME IInv, NEW w \in Worker, NEW d \in Date, Collect(w, d)
    PROVE  IInv'
  <1>. USE DEF IInv, Collect
  <1>1. PICK T \in Newest(Window(d)) :
          draft' = [draft EXCEPT ![w] = [date |-> d, items |-> T]]
    OBVIOUS
  <1>2. T \subseteq Window(d) /\ Window(d) \subseteq Item
    BY DEF Newest, Window
  <1>3. [date |-> d, items |-> T] \in Draft
    BY <1>2 DEF Draft
  <1>4. UNCHANGED <<job, token, edition, delivered>>
    BY DEF jobVars, shelf
  <1>5. TypeOK'
    BY <1>1, <1>3, <1>4 DEF TypeOK, clock, jobVars
  <1>6. WindowInv'
    <2>1. \A e \in Date : Window(e)' = Window(e)
      BY DEF Window, clock
    <2>2. \A v \in Worker : draft[v] # None => draft[v].date \in Date
      BY DEF TypeOK, Draft
    <2>. QED
      BY <1>1, <1>2, <1>4, <2>1, <2>2 DEF WindowInv, TypeOK
  <1>. QED
    BY <1>4, <1>5, <1>6 DEF LeaseInv, EditionAgreesWithJob, DeliveryInv

\* Completion moves job, edition and deliveries together, or nothing at all.
LEMMA CompleteIInv ==
    ASSUME IInv, NEW w \in Worker, NEW d \in Date, Complete(w, d)
    PROVE  IInv'
  <1>. USE DEF IInv
  <1>1. /\ held' = [held EXCEPT ![w] = @ \ {d}]
        /\ draft' = [draft EXCEPT ![w] = None]
        /\ pc' = [pc EXCEPT ![w] = IF held[w] = {d} THEN "ready" ELSE "working"]
        /\ UNCHANGED <<now, seen, subscribed, read>>
    BY DEF Complete, Drop, clock
  <1>2. /\ held' \in [Worker -> SUBSET Date]
        /\ draft' \in [Worker -> {None} \cup Draft]
        /\ pc' \in [Worker -> {"ready", "claiming", "working"}]
    BY <1>1 DEF TypeOK
  <1>3. \A v \in Worker : draft'[v] = draft[v] \/ draft'[v] = None
    BY <1>1 DEF TypeOK
  <1>4. [Next]_vars
    BY DEF Next, Round
  <1>5. CASE UNCHANGED <<edition, delivered, jobVars>>
    <2>1. TypeOK'
      BY <1>1, <1>2, <1>5 DEF TypeOK, jobVars
    <2>2. WindowInv'
      BY <1>3, <1>4, <1>5, WindowInvKept
    <2>. QED
      BY <1>5, <2>1, <2>2
      DEF LeaseInv, EditionAgreesWithJob, DeliveryInv, jobVars
  <1>6. CASE /\ draft[w] \in Draft /\ draft[w].date = d
             /\ edition[d] = None
             /\ job[d] = "processing"
             /\ edition' = [edition EXCEPT ![d] = draft[w].items]
             /\ delivered' = [delivered EXCEPT ![d] = subscribed]
             /\ SetOutcome(d, "completed")
    <2>1. draft[w].items \in SUBSET Item /\ draft[w].items # None
      BY <1>6, ConstantsAssumption DEF Draft
    <2>2. TypeOK'
      <3>1. /\ job' \in [Date -> Status]
            /\ token' \in [Date -> Worker \cup {None}]
            /\ live' \in [Date -> BOOLEAN]
        BY <1>6 DEF TypeOK, SetOutcome, Status
      <3>2. /\ edition' \in [Date -> {None} \cup SUBSET Item]
            /\ delivered' \in [Date -> SUBSET Reader]
        BY <1>6, <2>1 DEF TypeOK
      <3>. QED  BY <1>1, <1>2, <3>1, <3>2 DEF TypeOK
    <2>3. LeaseInv'
      BY <1>6 DEF LeaseInv, SetOutcome, TypeOK
    <2>4. EditionAgreesWithJob' /\ DeliveryInv'
      BY <1>6, <2>1 DEF EditionAgreesWithJob, DeliveryInv, SetOutcome, TypeOK
    <2>5. WindowInv'
      <3>1. \A e \in Date : Window(e)' = Window(e)
        BY <1>1 DEF Window
      <3>2. draft[w].items \subseteq Window(d)
        BY <1>6, ConstantsAssumption DEF WindowInv, Complete
      <3>3. ASSUME NEW e \in Date, edition'[e] # None
            PROVE  edition'[e] \subseteq Window(e)'
        BY <1>6, <3>1, <3>2, <3>3 DEF WindowInv, TypeOK
      <3>4. ASSUME NEW v \in Worker, draft'[v] # None
            PROVE  draft'[v].items \subseteq Window(draft[v].date)
        BY <1>3, <3>4 DEF WindowInv
      <3>5. \A v \in Worker : draft'[v] # None =>
              draft'[v] = draft[v] /\ draft[v].date \in Date
        BY <1>3 DEF TypeOK, Draft
      <3>. QED  BY <3>1, <3>3, <3>4, <3>5 DEF WindowInv
    <2>. QED  BY <2>2, <2>3, <2>4, <2>5
  <1>. QED  BY <1>5, <1>6, CompleteEffect

\* Failures give leases back, crashes do not; neither reaches an edition.
LEMMA FailIInv ==
    ASSUME IInv, NEW w \in Worker, Crash(w) \/ \E d \in Date : Fail(w, d)
    PROVE  IInv'
  <1>. USE DEF IInv
  <1>1. CASE Crash(w)
    <2>1. TypeOK'
      BY <1>1 DEF Crash, TypeOK, clock, jobVars, shelf
    <2>2. WindowInv'
      <3>1. \A v \in Worker : draft'[v] = draft[v] \/ draft'[v] = None
        BY <1>1 DEF Crash, TypeOK
      <3>. QED  BY <1>1, <3>1, WindowInvKept DEF Next, Crash, shelf
    <2>. QED
      BY <1>1, <2>1, <2>2
      DEF Crash, LeaseInv, EditionAgreesWithJob, DeliveryInv, jobVars, shelf
  <1>2. ASSUME NEW d \in Date, Fail(w, d) PROVE IInv'
    <2>1. UNCHANGED jobVars
          \/ (job[d] = "processing" /\ SetOutcome(d, "failed"))
      BY <1>2, ConstantsAssumption DEF Fail, LeaseInv
    <2>2. UNCHANGED <<now, seen, subscribed, edition, delivered, read>>
      BY <1>2 DEF Fail, clock, shelf
    <2>3. /\ held' \in [Worker -> SUBSET Date]
          /\ draft' \in [Worker -> {None} \cup Draft]
          /\ pc' \in [Worker -> {"ready", "claiming", "working"}]
          /\ \A v \in Worker : draft'[v] = draft[v] \/ draft'[v] = None
      BY <1>2 DEF Fail, Drop, TypeOK
    <2>4. /\ job' \in [Date -> Status]
          /\ token' \in [Date -> Worker \cup {None}]
          /\ live' \in [Date -> BOOLEAN]
      BY <2>1 DEF SetOutcome, TypeOK, Status, jobVars
    <2>5. TypeOK'
      BY <2>2, <2>3, <2>4 DEF TypeOK
    <2>6. LeaseInv'
      BY <2>1 DEF LeaseInv, SetOutcome, TypeOK, jobVars
    <2>7. EditionAgreesWithJob' /\ DeliveryInv'
      BY <2>1, <2>2 DEF EditionAgreesWithJob, DeliveryInv, SetOutcome, TypeOK, jobVars
    <2>8. WindowInv'
      BY <1>2, <2>2, <2>3, WindowInvKept DEF Next, Round
    <2>. QED  BY <2>5, <2>6, <2>7, <2>8
  <1>. QED  BY <1>1, <1>2

\* The invariant holds in every reachable state.
THEOREM Invariance == Spec => []IInv
  <1>1. ASSUME IInv, UNCHANGED vars PROVE IInv'
    BY <1>1
    DEF vars, IInv, TypeOK, LeaseInv, EditionAgreesWithJob, DeliveryInv, WindowInv,
        Window
  <1>2. ASSUME IInv, Next PROVE IInv'
    BY <1>2, OutsideIInv, PollIInv, ClaimIInv, CollectIInv, CompleteIInv, FailIInv
    DEF Next, Round
  <1>. QED  BY InitIInv, <1>1, <1>2, PTL DEF Spec

-----------------------------------------------------------------------------
\* Every variable keeps its type.
THEOREM TypeCorrect == Spec => []TypeOK
  BY Invariance, PTL DEF IInv

\* A date has an edition exactly when its job is completed.
THEOREM EditionsAgree == Spec => []EditionAgreesWithJob
  BY Invariance, PTL DEF IInv

\* No document is in the editions of two dates.
THEOREM NewsOnce == Spec => []NoNewsTwice
  <1>1. IInv => NoNewsTwice
    BY WindowsAreDisjoint DEF IInv, WindowInv, NoNewsTwice
  <1>. QED  BY Invariance, <1>1, PTL

\* Editions are published once, to whoever is subscribed then, and stay.
THEOREM EditionImplemented == Spec => ImplementsEdition
  <1>. USE DEF Shelf!vars
  <1>1. Init => Shelf!Init
    BY DEF Init, Shelf!Init
  <1>2. ASSUME IInv, [Next]_vars PROVE [Shelf!Next]_(Shelf!vars)
    <2>1. ASSUME NEW u \in Reader, Subscribe(u) \/ Unsubscribe(u)
          PROVE  Shelf!Next
      BY <1>2, <2>1
      DEF IInv, TypeOK, Subscribe, Unsubscribe, shelf, Shelf!Next,
          Shelf!ChangeSubscription
    <2>2. ASSUME NEW u \in Reader, NEW d \in Date, MarkRead(d, u)
          PROVE  Shelf!Next
      BY <2>2 DEF MarkRead, shelf, Shelf!Next, Shelf!MarkRead
    <2>3. ASSUME NEW w \in Worker, NEW d \in Date, Complete(w, d)
          PROVE  [Shelf!Next]_(Shelf!vars)
      <3>1. UNCHANGED <<subscribed, read>>
        BY <2>3 DEF Complete
      <3>2. CASE UNCHANGED <<edition, delivered, jobVars>>
        BY <3>1, <3>2
      <3>3. CASE /\ draft[w] \in Draft /\ draft[w].date = d
                 /\ edition[d] = None
                 /\ edition' = [edition EXCEPT ![d] = draft[w].items]
                 /\ delivered' = [delivered EXCEPT ![d] = subscribed]
        <4>1. draft[w].items \in SUBSET Item
          BY <3>3 DEF Draft
        <4>. QED
          BY <3>1, <3>3, <4>1 DEF Shelf!Next, Shelf!Publish
      <3>. QED  BY <1>2, <2>3, <3>2, <3>3, CompleteEffect
    <2>4. CASE UNCHANGED <<subscribed, edition, delivered, read>>
      BY <2>4
    <2>. QED
      BY <1>2, <2>1, <2>2, <2>3, <2>4
      DEF Next, Round, vars, shelf, Tick, ExpireLease, Observe, Poll, Claim,
          Collect, Fail, Crash
  <1>. QED
    BY <1>1, <1>2, Invariance, PTL DEF Spec, ImplementsEdition, Shelf!Spec
=============================================================================
