--------------------------- MODULE MCDocumentStore ---------------------------
(* Instances of DocumentStore for TLC.                                     *)
EXTENDS DocumentStore

\* Two texts of one permit, the page with another permit number on it, and a
\* page that is no longer a readable file.
Bodies == {"first", "second", "renumbered", "unreadable"}

ReadableBodies == Bodies \ {"unreadable"}

RecordOf ==
    [b \in Bodies |-> [type |-> "permit",
                       key |-> IF b = "renumbered" THEN "B" ELSE "A"]]
=============================================================================
