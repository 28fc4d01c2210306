------------------------- MODULE DocumentStoreProofs -------------------------
(***************************************************************************)
(* Proofs about DocumentStore for any workers, bodies and edits.           *)
(*                                                                         *)
(* What a worker compares with is the latest version until it commits:     *)
(* that is LockInv, and it holds because the document's row stays locked   *)
(* from the upsert to the commit.  StoredInv says that a body is uploaded  *)
(* before its transaction begins.  Everything else follows from the two.   *)
(***************************************************************************)
EXTENDS DocumentStore, TLAPS

\* At most one worker is inside its transaction, and it has read the present.
LockInv ==
    \A w \in Worker :
        /\ pc[w] \in {"locked", "compared"} <=> lock = w
        /\ pc[w] = "compared" => seen[w] = Len(versions)

\* A worker that is past its upload has a body, and the bucket has it too.
StoredInv ==
    \A w \in Worker :
        /\ pc[w] # "idle" => body[w] \in Body
        /\ pc[w] \in {"stored", "locked", "compared"} => body[w] \in objects

IInv ==
    /\ TypeOK /\ LockInv /\ StoredInv
    /\ VersionsHaveArtifacts /\ ObservationsMatchVersions

-----------------------------------------------------------------------------
\* The empty archive satisfies the invariant.
LEMMA InitIInv == Init => IInv
  <1>. SUFFICES ASSUME Init PROVE IInv
    OBVIOUS
  <1>. USE ConstantsAssumption DEF Init
  <1>1. TypeOK
    BY DEF TypeOK, Phase
  <1>2. LockInv /\ StoredInv
    BY DEF LockInv, StoredInv
  <1>3. VersionsHaveArtifacts /\ ObservationsMatchVersions
    BY DEF VersionsHaveArtifacts, ObservationsMatchVersions
  <1>. QED  BY <1>1, <1>2, <1>3 DEF IInv

\* The steps outside of the transaction leave versions and observations alone.
LEMMA OutsideIInv ==
    ASSUME IInv, \/ \E b \in Body : Edit(b)
                 \/ \E w \in Worker : Fetch(w) \/ Put(w)
                 \/ UNCHANGED vars
    PROVE  IInv'
  <1>. USE DEF IInv
  <1>1. CASE \E b \in Body : Edit(b)
    BY <1>1, ConstantsAssumption
    DEF Edit, TypeOK, LockInv, StoredInv, VersionsHaveArtifacts,
        ObservationsMatchVersions
  <1>2. ASSUME NEW w \in Worker, Fetch(w) PROVE IInv'
    <2>. USE <1>2 DEF Fetch
    <2>1. TypeOK'
      BY DEF TypeOK, Phase
    <2>2. LockInv' /\ StoredInv'
      BY DEF LockInv, StoredInv, TypeOK
    <2>. QED
      BY <2>1, <2>2 DEF VersionsHaveArtifacts, ObservationsMatchVersions
  <1>3. ASSUME NEW w \in Worker, Put(w) PROVE IInv'
    <2>. USE <1>3 DEF Put
    <2>1. TypeOK'
      BY DEF TypeOK, Phase, StoredInv
    <2>2. LockInv' /\ StoredInv'
      BY DEF LockInv, StoredInv, TypeOK
    <2>. QED
      BY <2>1, <2>2 DEF VersionsHaveArtifacts, ObservationsMatchVersions
  <1>4. CASE UNCHANGED vars
    BY <1>4 DEF vars, TypeOK, LockInv, StoredInv, VersionsHaveArtifacts,
                ObservationsMatchVersions
  <1>. QED  BY <1>1, <1>2, <1>3, <1>4

\* The steps of a transaction before it commits, or when it rolls back.
LEMMA UncommittedIInv ==
    ASSUME IInv, NEW w \in Worker, Lock(w) \/ ReadLatest(w) \/ Discard(w)
    PROVE  IInv'
  <1>. USE DEF IInv
  <1>1. CASE Lock(w)
    <2>. USE <1>1 DEF Lock
    <2>1. TypeOK'
      BY DEF TypeOK, Phase
    <2>2. LockInv' /\ StoredInv'
      BY ConstantsAssumption DEF LockInv, StoredInv, TypeOK
    <2>. QED
      BY <2>1, <2>2 DEF VersionsHaveArtifacts, ObservationsMatchVersions
  <1>2. CASE ReadLatest(w)
    <2>. USE <1>2 DEF ReadLatest
    <2>1. TypeOK'
      BY DEF TypeOK, Phase
    <2>2. LockInv' /\ StoredInv'
      BY DEF LockInv, StoredInv, TypeOK
    <2>. QED
      BY <2>1, <2>2 DEF VersionsHaveArtifacts, ObservationsMatchVersions
  <1>3. CASE Discard(w)
    <2>. USE <1>3 DEF Discard, Leave
    <2>1. TypeOK'
      BY DEF TypeOK, Phase
    <2>2. LockInv' /\ StoredInv'
      BY ConstantsAssumption DEF LockInv, StoredInv, TypeOK
    <2>. QED
      BY <2>1, <2>2 DEF VersionsHaveArtifacts, ObservationsMatchVersions
  <1>. QED  BY <1>1, <1>2, <1>3

\* What a commit does to the two tables, in terms of the present versions.
LEMMA CommitEffect ==
    ASSUME IInv, NEW w \in Worker, Commit(w)
    PROVE  /\ body[w] \in Body /\ body[w] \in objects
           /\ \/ /\ versions # <<>> => versions[Len(versions)] # body[w]
                 /\ versions' = Append(versions, body[w])
                 /\ observations' = observations \cup
                      {[version |-> Len(versions) + 1, body |-> body[w]]}
              \/ UNCHANGED <<versions, observations>>
  <1>. USE DEF IInv
  <1>1. body[w] \in Body /\ body[w] \in objects
    BY DEF Commit, StoredInv
  <1>2. seen[w] = Len(versions)
    BY DEF Commit, LockInv
  <1>3. versions \in Seq(Body) /\ Len(versions) \in Nat
    BY DEF TypeOK
  <1>4. CASE Changed(w)
    BY <1>1, <1>2, <1>3, <1>4
    DEF Commit, Changed, ObservedVersion, NextNumber
  <1>5. CASE ~ Changed(w)
    <2>1. /\ Len(versions) \in 1..Len(versions)
          /\ versions[Len(versions)] = body[w]
      BY <1>2, <1>3, <1>5 DEF Changed
    <2>2. [version |-> Len(versions), body |-> body[w]] \in observations
      BY <2>1 DEF ObservationsMatchVersions
    <2>3. UNCHANGED versions
      BY <1>5 DEF Commit
    <2>4. observations' = observations \cup
            {[version |-> Len(versions), body |-> body[w]]}
      BY <1>2, <1>5 DEF Commit, ObservedVersion
    <2>. QED  BY <1>1, <2>2, <2>3, <2>4
  <1>. QED  BY <1>4, <1>5

\* A commit keeps both tables consistent.
LEMMA CommitIInv ==
    ASSUME IInv, NEW w \in Worker, Commit(w)
    PROVE  IInv'
  <1>. USE DEF IInv
  <1>. DEFINE n == Len(versions)
  <1>1. body[w] \in Body /\ body[w] \in objects
    BY CommitEffect
  <1>2. versions \in Seq(Body) /\ n \in Nat
    BY DEF TypeOK
  <1>3. LockInv' /\ StoredInv'
    BY ConstantsAssumption
    DEF Commit, Leave, LockInv, StoredInv, TypeOK
  <1>4. CASE UNCHANGED <<versions, observations>>
    <2>1. TypeOK'
      BY <1>4 DEF Commit, Leave, TypeOK, Phase
    <2>. QED
      BY <1>3, <1>4, <2>1
      DEF Commit, VersionsHaveArtifacts, ObservationsMatchVersions
  <1>5. CASE /\ versions' = Append(versions, body[w])
             /\ observations' = observations \cup
                  {[version |-> n + 1, body |-> body[w]]}
    <2>1. /\ versions' \in Seq(Body)
          /\ Len(versions') = n + 1
          /\ versions'[n + 1] = body[w]
          /\ \A k \in 1..n : versions'[k] = versions[k]
      BY <1>1, <1>2, <1>5
    <2>2. 1..(n + 1) = (1..n) \cup {n + 1}
      BY <1>2
    <2>3. TypeOK'
      BY <1>1, <1>2, <1>5, <2>1 DEF Commit, Leave, TypeOK, Phase
    <2>4. VersionsHaveArtifacts'
      BY <1>1, <2>1, <2>2 DEF VersionsHaveArtifacts, Commit
    <2>5. ObservationsMatchVersions'
      BY <1>5, <2>1, <2>2 DEF ObservationsMatchVersions
    <2>. QED  BY <1>3, <2>3, <2>4, <2>5
  <1>. QED  BY <1>4, <1>5, CommitEffect

\* The invariant holds in every reachable state.
THEOREM Invariance == Spec => []IInv
  <1>1. ASSUME IInv, [Next]_vars PROVE IInv'
    BY <1>1, OutsideIInv, UncommittedIInv, CommitIInv DEF Next
  <1>. QED  BY InitIInv, <1>1, PTL DEF Spec

\* Every variable of the archive keeps its type.
THEOREM TypeCorrect == Spec => []TypeOK
  BY Invariance, PTL DEF IInv

\* Every version has its bytes in the object store.
THEOREM ArtifactsKept == Spec => []VersionsHaveArtifacts
  BY Invariance, PTL DEF IInv

\* Observations and versions tell the same story.
THEOREM ObservationsKept == Spec => []ObservationsMatchVersions
  BY Invariance, PTL DEF IInv

\* Overlapping transactions append to the log one at a time, and no version
\* repeats the one before it.
THEOREM LogImplemented == Spec => ImplementsEvidenceLog
  <1>1. Init => EvidenceLog!Init
    BY DEF Init, EvidenceLog!Init
  <1>2. ASSUME IInv, [Next]_vars
        PROVE  [EvidenceLog!Next]_versions
    <2>1. CASE \E w \in Worker : Commit(w)
      BY <1>2, <2>1, CommitEffect DEF EvidenceLog!Next, EvidenceLog!Log
    <2>2. CASE ~ \E w \in Worker : Commit(w)
      BY <1>2, <2>2 DEF Next, vars, Edit, Fetch, Put, Lock, ReadLatest, Discard
    <2>. QED  BY <2>1, <2>2
  <1>. QED
    BY <1>1, <1>2, Invariance, PTL
    DEF Spec, ImplementsEvidenceLog, EvidenceLog!Spec
=============================================================================
