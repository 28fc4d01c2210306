----------------------------- MODULE MCRetrieval -----------------------------
(* Instances of Retrieval for TLC.                                         *)
EXTENDS Retrieval, TLC

\* The documents are interchangeable, and so are the record types.
Symmetry == Permutations(Document) \cup Permutations(RecordType)
=============================================================================
