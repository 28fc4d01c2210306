----------------------------- MODULE ResearchLog -----------------------------
(***************************************************************************)
(* What a research notebook promises: per notebook an append-only record   *)
(* whose entries cite stored document versions, each of a document that    *)
(* was saved in the notebook or highlighted in it before.  Notebook        *)
(* implements this specification.                                          *)
(***************************************************************************)
EXTENDS Naturals, Sequences

CONSTANTS
    Notebook,   \* rows of research.notebooks
    Document    \* rows of civic.documents

VARIABLES
    stored,     \* by document, how many versions civic.document_versions has
    kept,       \* by notebook, the documents saved in it
    log         \* by notebook, the entries: [kind, versions]

logVars == <<stored, kept, log>>

Generated == {"summary", "timeline"}

Init ==
    /\ stored \in [Document -> Nat \ {0}]
    /\ kept = [n \in Notebook |-> {}]
    /\ log = [n \in Notebook |-> <<>>]

Cited(n) == UNION {log[n][i].versions : i \in 1..Len(log[n])}

Store(d) ==
    /\ stored' = [stored EXCEPT ![d] = @ + 1]
    /\ UNCHANGED <<kept, log>>

Keep(n, d) ==
    /\ kept' = [kept EXCEPT ![n] = @ \cup {d}]
    /\ UNCHANGED <<stored, log>>

\* A highlight may open up any stored version, a generated entry none that the
\* notebook does not know; a timeline has one event per document.
Append1(n, kind, versions) ==
    /\ \A v \in versions : v[2] \in 1..stored[v[1]]
    /\ kind = "note" <=> versions = {}
    /\ kind \in Generated =>
         \A v \in versions : v[1] \in kept[n] \/ v \in Cited(n)
    /\ kind = "timeline" =>
         \A v, w \in versions : v[1] = w[1] => v = w
    /\ log' = [log EXCEPT ![n] =
                 Append(@, [kind |-> kind, versions |-> versions])]
    /\ UNCHANGED <<stored, kept>>

\* The entry of notebook n that is new in this step, whatever it cites.
AppendStep(n) ==
    /\ Len(log'[n]) = Len(log[n]) + 1
    /\ LET new == log'[n][Len(log'[n])] IN Append1(n, new.kind, new.versions)

Next ==
    \/ \E d \in Document : Store(d) \/ \E n \in Notebook : Keep(n, d)
    \/ \E n \in Notebook : AppendStep(n)

Spec == Init /\ [][Next]_logVars
=============================================================================
