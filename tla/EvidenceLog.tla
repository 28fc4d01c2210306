----------------------------- MODULE EvidenceLog -----------------------------
(***************************************************************************)
(* What the archive promises for one public document: an append-only log   *)
(* of the bodies it has had, in which no body follows itself.              *)
(* DocumentStore implements this specification.                            *)
(***************************************************************************)
EXTENDS Sequences, Naturals

CONSTANT
    Body        \* contents a page may have

VARIABLE
    versions    \* civic.document_versions of the document, by version_number

Init == versions = <<>>

\* A body is logged when it differs from the latest one.
Log(b) ==
    /\ versions # <<>> => versions[Len(versions)] # b
    /\ versions' = Append(versions, b)

Next == \E b \in Body : Log(b)

Spec == Init /\ [][Next]_versions
=============================================================================
