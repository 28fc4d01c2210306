------------------------ MODULE MCCanonicalProjection ------------------------
(* Instances of CanonicalProjection for TLC.                               *)
EXTENDS CanonicalProjection

Page(t, k, n) == [type |-> t, key |-> k, text |-> n]

\* Two texts of one permit, a second permit number on it, the page as a zoning
\* case, and that case as a scan without text, in which no number is found.
Pages ==
    {Page("permit", "A", "first"), Page("permit", "A", "second"),
     Page("permit", "B", "first"), Page("zoning", "A", "first"),
     Page("zoning", "unnumbered", "")}
=============================================================================
