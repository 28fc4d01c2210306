-------------------------- MODULE VectorIndexProofs --------------------------
(***************************************************************************)
(* Proofs about VectorIndex for any workers, versions and crashes.         *)
(*                                                                         *)
(* NoLostReindex is not inductive: that the job of the latest version is   *)
(* completed only with the current metadata rests on the fence (the worker *)
(* whose token still matches carries the current metadata, unless its      *)
(* claim was overtaken while it ran), on WrittenIsSent (a job is completed *)
(* only after its payload was written) and on ClaimsWhenIdle (a claim      *)
(* replaces no batch that is still worked on).                             *)
(***************************************************************************)
EXTENDS VectorIndex, TLAPS

\* A job that is about to be completed was written with what it was claimed with.
WrittenIsSent ==
    \A i \in Indexer : \A v \in Version :
        written[i] = v =>
            /\ batch[i][v] # None
            /\ [version |-> v, meta |-> batch[i][v]] \in sent

\* Only a worker whose batch is done runs the claim statement.
ClaimsWhenIdle == \A i \in Indexer : snapshot[i] # None => Idle(i)

IInv ==
    /\ TypeOK
    /\ FencedWorkerIsCurrent
    /\ WrittenIsSent
    /\ ClaimsWhenIdle
    /\ NoLostReindex

-----------------------------------------------------------------------------
\* The empty index satisfies the invariant.
LEMMA InitIInv == Init => IInv
  BY ConstantsAssumption
  DEF Init, IInv, TypeOK, FencedWorkerIsCurrent, WrittenIsSent, NoLostReindex,
      ClaimsWhenIdle, Version, Status, Payload

\* An observation requeues the version that is the latest after it, so that no
\* token of that version is left and its job is not completed.
LEMMA ObserveIInv ==
    ASSUME IInv, ObserveChanged \/ ObserveUnchanged
    PROVE  IInv'
  <1>. USE DEF IInv, RequeuedOnUpsert, Requeue, TouchMeta
  <1>1. latest' \in 1..MaxVersion /\ meta' \in 0..MaxMeta
    BY ConstantsAssumption DEF TypeOK, ObserveChanged, ObserveUnchanged
  <1>2. PICK V \in SUBSET Version :
           /\ latest' \in V
           /\ status' = [v \in Version |->
                           IF v \in V THEN "pending" ELSE status[v]]
           /\ token' = [v \in Version |-> IF v \in V THEN None ELSE token[v]]
           /\ live' = [v \in Version |-> live[v] /\ v \notin V]
           /\ behind' = behind \ V
    <2>1. CASE ObserveChanged
      <3>1. RequeuedOnUpsert \cup {latest + 1} \in SUBSET Version
        BY <2>1, <1>1 DEF ObserveChanged, TypeOK, Version
      <3>. QED  BY <2>1, <3>1 DEF ObserveChanged
    <2>2. CASE ObserveUnchanged
      <3>1. RequeuedOnUpsert \in SUBSET Version /\ latest' \in RequeuedOnUpsert
        BY <2>2, <1>1 DEF ObserveUnchanged, TypeOK, Version
      <3>. QED  BY <2>2, <3>1 DEF ObserveUnchanged
    <2>. QED  BY <2>1, <2>2
  <1>3. status'[latest'] = "pending" /\ token'[latest'] = None
    BY <1>2
  <1>7. TypeOK'
    <2>1. status' \in [Version -> Status]
      BY <1>2 DEF TypeOK, Status
    <2>2. token' \in [Version -> Indexer \cup {None}]
      BY <1>2 DEF TypeOK
    <2>3. live' \in [Version -> BOOLEAN]
      BY <1>2 DEF TypeOK
    <2>4. behind' \subseteq Version
      BY <1>2 DEF TypeOK
    <2>. QED  BY <1>1, <2>1, <2>2, <2>3, <2>4
              DEF TypeOK, ObserveChanged, ObserveUnchanged, qdrant
  <1>4. FencedWorkerIsCurrent'
    BY <1>3, ConstantsAssumption DEF FencedWorkerIsCurrent
  <1>5. WrittenIsSent' /\ ClaimsWhenIdle'
    BY DEF ObserveChanged, ObserveUnchanged, qdrant, WrittenIsSent,
           ClaimsWhenIdle, Idle
  <1>6. NoLostReindex'
    BY <1>3 DEF NoLostReindex
  <1>. QED  BY <1>7, <1>4, <1>5, <1>6

\* The claim statement begins: nothing is leased yet.
LEMMA BeginClaimIInv ==
    ASSUME IInv, NEW i \in Indexer, BeginClaim(i)
    PROVE  IInv'
  <1>. USE DEF IInv, BeginClaim, jobVars, qdrant
  <1>1. [due |-> Claimable, meta |-> meta] \in Snapshot
    BY DEF TypeOK, Snapshot, Claimable
  <1>2. TypeOK'
    BY <1>1 DEF TypeOK
  <1>3. FencedWorkerIsCurrent' /\ WrittenIsSent' /\ NoLostReindex'
    BY DEF FencedWorkerIsCurrent, WrittenIsSent, NoLostReindex
  <1>4. ClaimsWhenIdle'
    BY DEF ClaimsWhenIdle, Idle, TypeOK
  <1>. QED  BY <1>2, <1>3, <1>4

\* A claim takes the metadata of its snapshot along with the token; when that
\* is not the document's any more, the job is behind.
LEMMA ClaimIInv ==
    ASSUME IInv, NEW i \in Indexer, NEW V \in SUBSET Version, Claim(i, V)
    PROVE  IInv'
  <1>. USE DEF IInv, Claim, qdrant
  <1>0. snapshot[i] \in Snapshot /\ snapshot[i].meta \in 0..MaxMeta
    BY DEF TypeOK, Snapshot
  <1>1. TypeOK'
    BY <1>0 DEF TypeOK, Version, Status
  <1>2. FencedWorkerIsCurrent'
    <2>1. SUFFICES ASSUME NEW j \in Indexer, latest > 0, token'[latest] = j,
                          batch'[j][latest] # None, latest \notin behind'
                   PROVE  batch'[j][latest] = meta
      BY DEF FencedWorkerIsCurrent
    <2>2. latest \in Version
      BY <2>1 DEF TypeOK, Version
    <2>3. CASE latest \in V
      <3>1. snapshot[i].meta = meta
        BY <2>1, <2>3
      <3>2. j = i
        BY <2>1, <2>2, <2>3 DEF TypeOK
      <3>. QED  BY <2>2, <2>3, <3>1, <3>2 DEF TypeOK
    <2>4. CASE latest \notin V
      <3>1. token[latest] = j
        BY <2>1, <2>2, <2>4
      <3>2. j # i
        BY <2>1, <2>2, <2>4 DEF TypeOK
      <3>3. latest \notin behind
        BY <2>1, <2>4
      <3>. QED  BY <2>1, <3>1, <3>2, <3>3 DEF FencedWorkerIsCurrent, TypeOK
    <2>. QED  BY <2>3, <2>4
  <1>3. WrittenIsSent'
    <2>1. SUFFICES ASSUME NEW j \in Indexer, NEW v \in Version, written[j] = v
                   PROVE  batch'[j][v] # None
                          /\ [version |-> v, meta |-> batch'[j][v]] \in sent
      BY DEF WrittenIsSent
    <2>2. batch[j][v] # None /\ [version |-> v, meta |-> batch[j][v]] \in sent
      BY <2>1 DEF WrittenIsSent
    <2>3. j # i
      BY <2>2 DEF ClaimsWhenIdle, Idle
    <2>. QED  BY <2>2, <2>3 DEF TypeOK
  <1>4. NoLostReindex'
    BY DEF NoLostReindex, TypeOK, Version
  <1>5. ClaimsWhenIdle'
    BY DEF ClaimsWhenIdle, Idle, TypeOK
  <1>. QED  BY <1>1, <1>2, <1>3, <1>4, <1>5

\* Qdrant only gains payloads.
LEMMA WriteIInv ==
    ASSUME IInv, NEW i \in Indexer, NEW v \in Version, WritePoint(i, v)
    PROVE  IInv'
  <1>. USE DEF IInv, WritePoint, qdrant
  <1>1. batch[i][v] \in 0..MaxMeta
    BY DEF TypeOK
  <1>2. TypeOK'
    BY <1>1 DEF TypeOK, jobVars, Payload
  <1>3. FencedWorkerIsCurrent'
    BY DEF FencedWorkerIsCurrent, jobVars
  <1>4. WrittenIsSent'
    BY DEF WrittenIsSent, TypeOK
  <1>5. NoLostReindex'
    BY DEF NoLostReindex, jobVars
  <1>6. ClaimsWhenIdle'
    BY DEF ClaimsWhenIdle, Idle
  <1>. QED  BY <1>2, <1>3, <1>4, <1>5, <1>6

\* Recording an outcome under the fence: nothing but the worker's own job and
\* its own lease changes, and a completed latest version was written in full.
LEMMA SettleIInv ==
    ASSUME IInv, NEW i \in Indexer, NEW v \in Version,
           Complete(i, v) \/ Fail(i, v)
    PROVE  IInv'
  <1>. USE DEF IInv, Drop
  <1>1. PICK o \in {"completed", "failed"} :
           SetOutcome(i, v, o) /\ (o = "completed" => written[i] = v)
    BY DEF Complete, Fail
  <1>2. /\ Drop(i, v)
        /\ UNCHANGED <<latest, meta, snapshot, point, sent, behind, crashes>>
    BY DEF Complete, Fail, qdrant
  <1>3. TypeOK'
    BY <1>1, <1>2 DEF TypeOK, SetOutcome, jobVars, Status
  <1>4. \A j \in Indexer, u \in Version :
           batch'[j][u] # None => batch'[j][u] = batch[j][u]
    BY <1>2 DEF TypeOK
  <1>5. \A u \in Version : token'[u] # None => token'[u] = token[u]
    BY <1>1 DEF TypeOK, SetOutcome, jobVars
  <1>6. FencedWorkerIsCurrent'
    <2>1. SUFFICES ASSUME NEW j \in Indexer, latest > 0, token'[latest] = j,
                          batch'[j][latest] # None, latest \notin behind
                   PROVE  batch'[j][latest] = meta
      BY <1>2 DEF FencedWorkerIsCurrent
    <2>2. latest \in Version
      BY <2>1 DEF TypeOK, Version
    <2>. QED
      BY <2>1, <2>2, <1>4, <1>5, ConstantsAssumption DEF FencedWorkerIsCurrent
  <1>7. WrittenIsSent'
    <2>1. SUFFICES ASSUME NEW j \in Indexer, NEW u \in Version, written'[j] = u
                   PROVE  batch'[j][u] # None
                          /\ [version |-> u, meta |-> batch'[j][u]] \in sent
      BY <1>2 DEF WrittenIsSent
    <2>2. j # i
      BY <2>1, <1>2, ConstantsAssumption DEF TypeOK, Version
    <2>. QED  BY <2>1, <2>2, <1>2 DEF WrittenIsSent, TypeOK
  <1>8. NoLostReindex'
    <2>1. SUFFICES ASSUME latest > 0, status'[latest] = "completed",
                          latest \notin behind
                   PROVE  [version |-> latest, meta |-> meta] \in sent
      BY <1>2 DEF NoLostReindex
    <2>2. latest \in Version
      BY <2>1 DEF TypeOK, Version
    <2>3. CASE token[v] = i /\ v = latest
      <3>1. written[i] = v
        BY <1>1, <2>1, <2>2, <2>3 DEF SetOutcome, TypeOK
      <3>. QED
        BY <3>1, <2>1, <2>3 DEF WrittenIsSent, FencedWorkerIsCurrent
    <2>4. CASE ~ (token[v] = i /\ v = latest)
      <3>1. status'[latest] = status[latest]
        BY <1>1, <2>2, <2>4 DEF SetOutcome, jobVars, TypeOK
      <3>. QED  BY <3>1, <2>1 DEF NoLostReindex
    <2>. QED  BY <2>3, <2>4
  <1>9. ClaimsWhenIdle'
    BY <1>2, <1>4 DEF ClaimsWhenIdle, Idle, TypeOK
  <1>. QED  BY <1>3, <1>6, <1>7, <1>8, <1>9

\* A crash and an expired lease take nothing back that was written.
LEMMA LossIInv ==
    ASSUME IInv, \/ \E i \in Indexer : Crash(i)
                 \/ \E v \in Version : ExpireLease(v)
                 \/ UNCHANGED vars
    PROVE  IInv'
  <1>. USE DEF IInv
  <1>1. CASE \E i \in Indexer : Crash(i)
    <2>1. PICK i \in Indexer : Crash(i)
      BY <1>1
    <2>. USE <2>1 DEF Crash, jobVars, qdrant
    <2>2. TypeOK'
      BY ConstantsAssumption DEF TypeOK
    <2>3. FencedWorkerIsCurrent'
      BY DEF FencedWorkerIsCurrent, TypeOK, Version
    <2>4. WrittenIsSent'
      BY ConstantsAssumption DEF WrittenIsSent, TypeOK, Version
    <2>5. NoLostReindex'
      BY DEF NoLostReindex
    <2>6. ClaimsWhenIdle'
      BY DEF ClaimsWhenIdle, Idle, TypeOK
    <2>. QED  BY <2>2, <2>3, <2>4, <2>5, <2>6
  <1>2. CASE \E v \in Version : ExpireLease(v)
    BY <1>2 DEF ExpireLease, qdrant, TypeOK, FencedWorkerIsCurrent,
                WrittenIsSent, ClaimsWhenIdle, Idle, NoLostReindex
  <1>3. CASE UNCHANGED vars
    BY <1>3 DEF vars, jobVars, TypeOK, FencedWorkerIsCurrent, WrittenIsSent,
                ClaimsWhenIdle, Idle, NoLostReindex
  <1>. QED  BY <1>1, <1>2, <1>3

\* The inductive invariant of the outbox holds in every behaviour.
THEOREM Invariance == Spec => []IInv
  <1>1. ASSUME IInv, [Next]_vars PROVE IInv'
    BY <1>1, ObserveIInv, BeginClaimIInv, ClaimIInv, WriteIInv, SettleIInv, LossIInv
    DEF Next, Work
  <1>. QED  BY InitIInv, <1>1, PTL DEF Spec

\* Every column of the outbox and every variable of a worker keeps its type.
THEOREM TypeCorrect == Spec => []TypeOK
  BY Invariance, PTL DEF IInv

\* Any change of the document that commits after a worker's claim fences that
\* worker off: whoever's result will be recorded carries the current metadata,
\* but for a claim that was overtaken while its statement ran.
THEOREM Fenced == Spec => []FencedWorkerIsCurrent
  BY Invariance, PTL DEF IInv

\* A completed job of the latest version was written with its current metadata
\* or was leased by an overtaken claim, with any number of workers, changes,
\* lost leases and crashes.
THEOREM ReindexNotLost == Spec => []NoLostReindex
  BY Invariance, PTL DEF IInv
=============================================================================
