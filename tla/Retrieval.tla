------------------------------ MODULE Retrieval ------------------------------
(***************************************************************************)
(* Hybrid search and the grounded assistant that answers from what it      *)
(* finds.  A search reads PostgreSQL, asks Qdrant for candidates, and      *)
(* reads PostgreSQL again to recheck them; scans and edits go on between   *)
(* the three.  The assistant asks a language model in a fourth step.       *)
(*                                                                         *)
(* Which texts match a query and how they rank is left open: a read may    *)
(* return any ranking of rows that pass the filter.                        *)
(***************************************************************************)
EXTENDS Integers, Sequences, SequencesExt, FiniteSets

CONSTANTS
    Document,   \* civic.documents of the tenant
    Foreign,    \* documents of other tenants
    RecordType, \* record_type of a canonical record
    Raw,        \* in the place of a record type: the document itself
    Limit,      \* results a search may return
    Scale,      \* the unit of scores, a multiple of the denominators below
    MaxClaims, MinCitations,    \* AssistantPolicy
    MaxChanges  \* bound on what happens to the documents

ASSUME RetrievalAssumption ==
    /\ IsFiniteSet(Document) /\ IsFiniteSet(Foreign) /\ IsFiniteSet(RecordType)
    /\ Document \cap Foreign = {}
    /\ Raw \notin RecordType
    /\ Limit \in Nat \ {0} /\ MaxClaims \in Nat \ {0} /\ MinCitations \in Nat \ {0}
    /\ MaxChanges \in Nat /\ Scale \in Nat

\* No score is rounded: a ranking of keywords is no longer than Limit, one of
\* candidates no longer than there are documents.
ASSUME ScaleAssumption ==
    \A rank \in 1..Limit * 3 :
        rank <= Limit \/ rank <= Cardinality(Document) => Scale % (60 + rank) = 0

VARIABLES
    latest,     \* civic.document_versions: the last version_number by document
    record,     \* canonical_records: the version that the current one of a
                \* document and type was made from, 0 if there is none
    matching,   \* the rows that pass the filter of the search: <<document, type>>
    changes,    \* changes so far
    pc,         \* where the search or the answer is
    request,    \* [mode, view, newest, configured, assistant]
    keyword,    \* keyword_results
    candidates, \* semantic_candidates
    available,  \* semantic_available
    results,    \* of the search
    answer,     \* of the assistant
    seen        \* the rows that passed the filter at some time of the search,
                \* and from which version on they did: <<document, type, version>>

tables == <<latest, record, matching, changes>>
search == <<keyword, candidates, available, results>>
vars == <<tables, pc, request, search, answer, seen>>

ModeOf == {"keyword", "semantic", "hybrid"}
Item == Document \X (RecordType \cup {Raw})
Hit == [document : Document, version : Nat \ {0}, record : RecordType \cup {Raw}]
Request == [mode : ModeOf, view : {"raw", "canonical"}, newest : BOOLEAN,
            configured : BOOLEAN, assistant : BOOLEAN]
NoAnswer == [status |-> "none", claims |-> <<>>, citations |-> {}]

TypeOK ==
    /\ latest \in [Document -> Nat \ {0}]
    /\ record \in [Document -> [RecordType -> Nat]]
    /\ matching \subseteq Item
    /\ changes \in 0..MaxChanges
    /\ pc \in {"idle", "keyword", "candidates", "recheck", "fusing", "drafting",
               "done", "unavailable"}
    /\ request \in Request
    /\ keyword \in Seq(Hit) /\ results \in Seq(Hit)
    /\ candidates \in Seq(Document \cup Foreign)
    /\ available \in BOOLEAN
    /\ answer.status \in {"none", "answered", "insufficient_evidence"}
    /\ seen \subseteq Item \X (Nat \ {0})

-----------------------------------------------------------------------------
(* PostgreSQL.                                                             *)

\* The version that a row is read with: that of the current canonical version,
\* or the document's latest.
VersionOf(item) ==
    IF item[2] = Raw THEN latest[item[1]] ELSE record[item[1]][item[2]]

\* Mutant: LEFT JOINs, which keep a row that has no current version.
ExistsAnyway(item) == TRUE

Exists(item) == VersionOf(item) > 0

\* The rows that pass the filter now, with their versions.
Passing == {<<i, VersionOf(i)>> : i \in {j \in matching : Exists(j)}}

HitOf(item) ==
    [document |-> item[1], version |-> VersionOf(item), record |-> item[2]]

\* The rows that a search in this view ranks.
Searched(view) ==
    {i \in matching : Exists(i) /\ (i[2] = Raw <=> view = "raw")}

Init ==
    /\ latest = [d \in Document |-> 1]
    /\ record \in [Document -> {f \in [RecordType -> {0, 1}] :
                                 \E t \in RecordType : \A u \in RecordType :
                                     f[u] = 1 <=> u = t}]
    /\ matching = Item
    /\ changes = 0
    /\ pc = "idle"
    /\ request = [mode |-> "keyword", view |-> "raw", newest |-> FALSE,
                  configured |-> FALSE, assistant |-> FALSE]
    /\ keyword = <<>> /\ candidates = <<>> /\ available = FALSE /\ results = <<>>
    /\ answer = NoAnswer
    /\ seen = {}

Change ==
    /\ changes < MaxChanges
    /\ changes' = changes + 1
    /\ UNCHANGED <<pc, request, search, answer>>

Noted == seen' = IF pc = "idle" THEN {} ELSE seen \cup Passing'

\* A scan stores a version, and with it the canonical record of the type that the
\* text is classified as; one of another type stays as it is.
NewVersion(d, t) ==
    /\ Change
    /\ latest' = [latest EXCEPT ![d] = @ + 1]
    /\ record' = [record EXCEPT ![d][t] = latest'[d]]
    /\ UNCHANGED matching
    /\ Noted

\* The metadata of a row changes so that it passes the filter, or no longer.
Retag(item) ==
    /\ Change
    /\ matching' = (matching \ {item}) \cup ({item} \ matching)
    /\ UNCHANGED <<latest, record>>
    /\ Noted

-----------------------------------------------------------------------------
(* HybridSearchService.search                                              *)

Semantic(q) == q.configured /\ q.view = "raw"

\* GET /v1/search, or the retrieval of the assistant, whose filters leave
\* raw_documents and newest_first at FALSE.
Begin(q) ==
    /\ pc = "idle"
    /\ q.assistant => q.mode = "hybrid" /\ q.view = "canonical" /\ ~ q.newest
    /\ request' = q
    /\ available' = Semantic(q)
    /\ pc' = IF q.mode \in {"keyword", "hybrid"} THEN "keyword"
             ELSE IF Semantic(q) THEN "candidates" ELSE "unavailable"
    /\ seen' = Passing
    /\ UNCHANGED <<tables, keyword, candidates, results, answer>>

\* keyword_search
Keyword(ranking) ==
    /\ pc = "keyword"
    /\ Len(ranking) <= Limit
    /\ keyword' = [i \in 1..Len(ranking) |-> HitOf(ranking[i])]
    /\ pc' = IF request.mode = "hybrid" /\ Semantic(request)
             THEN "candidates" ELSE "fusing"
    /\ UNCHANGED <<tables, request, candidates, available, results, answer, seen>>

\* The embedding of the query and the answer of Qdrant, whose points may be
\* behind PostgreSQL and whose filter knows fewer conditions than PostgreSQL's.
Candidates(points) ==
    /\ pc = "candidates"
    /\ Len(points) <= Limit * 3
    /\ candidates' = points
    /\ pc' = "recheck"
    /\ UNCHANGED <<tables, request, keyword, available, results, answer, seen>>

\* SemanticSearchError
NoCandidates ==
    /\ pc = "candidates"
    /\ available' = FALSE
    /\ pc' = IF request.mode = "semantic" THEN "unavailable" ELSE "fusing"
    /\ UNCHANGED <<tables, request, keyword, candidates, results, answer, seen>>

\* Mutant: documents_by_ids without the conditions of the filter.
RecheckedTenant(points) ==
    LET mine == SelectSeq(points, LAMBDA d : d \in Document)
    IN  [i \in 1..Len(mine) |-> HitOf(<<mine[i], Raw>>)]

\* documents_by_ids: the candidates that are the tenant's and pass the filter by
\* now, in the order of the candidates.
Rechecked(points) ==
    LET kept[i \in 0..Len(points)] ==
            IF i = 0 THEN <<>>
            ELSE IF <<points[i], Raw>> \in matching
            THEN Append(kept[i - 1], HitOf(<<points[i], Raw>>)) ELSE kept[i - 1]
    IN  kept[Len(points)]

\* 1 / (60 + rank)
Reciprocal(rank) == Scale \div (60 + rank)

\* Mutant: = for +=.
AccumulatedLast(score, part) == part

Accumulated(score, part) == score + part

\* Where the dictionaries have a document, 0 if nowhere.
EntryOf(f, d) ==
    LET places == {k \in DOMAIN f : f[k].hit.document = d}
    IN  IF places = {} THEN 0 ELSE CHOOSE k \in places : TRUE

\* The next hit of a ranking is added to fused_scores and hits.  The later of two
\* keyword hits of a document replaces the first; a semantic hit replaces none.
Added(list, hit, rank, f) ==
    LET k == EntryOf(f, hit.document)
    IN  IF k = 0 THEN Append(f, [hit |-> hit, score |-> Reciprocal(rank)])
        ELSE [f EXCEPT ![k].score = Accumulated(@, Reciprocal(rank)),
                       ![k].hit = IF list = 1 THEN hit ELSE @]

\* One pass of _fuse over a ranking, as the dictionaries are filled.
Scored(list, ranking, fused) ==
    LET after[i \in 0..Len(ranking)] ==
            IF i = 0 THEN fused ELSE Added(list, ranking[i], i, after[i - 1])
    IN  after[Len(ranking)]

\* sorted(..., reverse=True): by falling score, equals in the order they came in
Before(f, i, j) ==
    \/ f[i].score > f[j].score
    \/ f[i].score = f[j].score /\ i < j
Sorted(f) ==
    LET place(i) == 1 + Cardinality({j \in DOMAIN f : Before(f, j, i)})
    IN  [p \in DOMAIN f |-> f[CHOOSE i \in DOMAIN f : place(i) = p]]

First(s, n) == SubSeq(s, 1, IF Len(s) < n THEN Len(s) ELSE n)

Fuse(ranked, rechecked) ==
    LET fused == First(Sorted(Scored(2, rechecked, Scored(1, ranked, <<>>))), Limit)
    IN  [i \in DOMAIN fused |-> fused[i].hit]

\* The orders that a response may have: by the dates of the documents, which are
\* left open, if the newest are to come first.
Ordered(fused) ==
    LET reordered(p) == [i \in DOMAIN fused |-> fused[p[i]]]
    IN  IF request.newest THEN {reordered(p) : p \in Bijection(DOMAIN fused, DOMAIN fused)}
        ELSE {fused}

Respond(rechecked) ==
    /\ \/ request.mode = "keyword" /\ results' = keyword
       \/ request.mode = "semantic" /\ results' = First(rechecked, Limit)
       \/ request.mode = "hybrid" /\ results' \in Ordered(Fuse(keyword, rechecked))
    /\ pc' = IF request.assistant THEN "drafting" ELSE "done"

Recheck ==
    /\ pc = "recheck"
    /\ Respond(Rechecked(candidates))
    /\ UNCHANGED <<tables, request, keyword, candidates, available, answer, seen>>

\* Nothing semantic is to come: the keyword results are all there is.
WithoutSemantic ==
    /\ pc = "fusing"
    /\ Respond(<<>>)
    /\ UNCHANGED <<tables, request, keyword, candidates, available, answer, seen>>

-----------------------------------------------------------------------------
(* GroundedAnswerService.answer: a claim is the sequence of the evidence     *)
(* numbers that the model gives for it.                                      *)

\* Mutant: the identifiers that the model repeats are counted.
SupportedTwice(claim, n) == Len(claim) >= MinCitations /\ ToSet(claim) \subseteq 1..n

\* At least so many different citations, and none that was not retrieved.
Supported(claim, n) ==
    Cardinality(ToSet(claim)) >= MinCitations /\ ToSet(claim) \subseteq 1..n

Insufficient == [NoAnswer EXCEPT !.status = "insufficient_evidence"]

\* _validate_claims rejects all the claims for one.
Validated(claims) ==
    IF \/ claims = <<>> \/ Len(claims) > MaxClaims
       \/ \E i \in DOMAIN claims : ~ Supported(claims[i], Len(results))
    THEN Insufficient
    ELSE [status |-> "answered",
          claims |-> [i \in DOMAIN claims |-> ToSet(claims[i])],
          citations |-> UNION {ToSet(claims[i]) : i \in DOMAIN claims}]

\* The model is asked only if there is evidence.
Draft(claims) ==
    /\ pc = "drafting"
    /\ answer' = IF results = <<>> THEN Insufficient ELSE Validated(claims)
    /\ pc' = "done"
    /\ UNCHANGED <<tables, request, search, seen>>

\* AnswerGenerationUnavailableError
NoDraft ==
    /\ pc = "drafting" /\ results # <<>>
    /\ pc' = "unavailable"
    /\ UNCHANGED <<tables, request, search, answer, seen>>

\* An exception that is nobody's: the database is gone, or a point of Qdrant has
\* no identifier or score that can be read, which the try around the request of
\* the candidates no longer covers.
Fail ==
    /\ pc \in {"keyword", "candidates", "recheck"}
    /\ pc' = "unavailable"
    /\ results' = <<>>
    /\ UNCHANGED <<tables, request, keyword, candidates, available, answer, seen>>

\* The response is sent.
Finish ==
    /\ pc \in {"done", "unavailable"}
    /\ pc' = "idle"
    /\ keyword' = <<>> /\ candidates' = <<>> /\ available' = FALSE /\ results' = <<>>
    /\ answer' = NoAnswer /\ seen' = {}
    /\ UNCHANGED <<tables, request>>

-----------------------------------------------------------------------------
Claim(n) == SeqOf(1..n + 1, MinCitations)

Next ==
    \/ \E d \in Document, t \in RecordType : NewVersion(d, t)
    \/ \E item \in Item : Retag(item)
    \/ \E q \in Request : Begin(q)
    \/ \E ranking \in SetToAllKPermutations(Searched(request.view)) : Keyword(ranking)
    \/ \E points \in SetToAllKPermutations(Document \cup Foreign) : Candidates(points)
    \/ NoCandidates \/ Recheck \/ WithoutSemantic
    \/ \E claims \in SeqOf(Claim(Len(results)), MaxClaims + 1) : Draft(claims)
    \/ NoDraft \/ Fail \/ Finish

Spec == Init /\ [][Next]_vars

-----------------------------------------------------------------------------
(* Properties.                                                             *)

\* docs/search.md:36, "without presenting stale or unfiltered semantic results":
\* every result passed the filter while the search ran, in the version that it is
\* shown with, however old the points of Qdrant are.
ResultsPassTheFilter ==
    \A i \in DOMAIN results :
        LET h == results[i]
        IN  <<<<h.document, h.record>>, h.version>> \in seen

\* By i, the sum of the reciprocal ranks of a document among the first i of a
\* ranking, and the sum over two rankings.
Sums(d, ranking) ==
    LET upto[i \in 0..Len(ranking)] ==
            IF i = 0 THEN 0
            ELSE upto[i - 1] + IF ranking[i].document = d THEN Scale \div (60 + i) ELSE 0
    IN  upto
ScoreOf(d, ranked, rechecked) ==
    Sums(d, ranked)[Len(ranked)] + Sums(d, rechecked)[Len(rechecked)]

\* What the response r to a hybrid search must be like.
RanksByScore(r, ranked, rechecked) ==
    LET found == {h.document : h \in ToSet(ranked) \cup ToSet(rechecked)}
        listed == {h.document : h \in ToSet(r)}
        score == [d \in found |-> ScoreOf(d, ranked, rechecked)]
    IN
    /\ Cardinality(listed) = Len(r)
    /\ Len(r) = Limit \/ listed = found
    /\ \A i, j \in DOMAIN r : i < j => score[r[i].document] >= score[r[j].document]
    /\ \A d \in found \ listed : \A e \in listed : score[d] <= score[e]

\* docs/search.md:36, "reciprocal-rank fusion": a hybrid response, unless it is
\* sorted by date afterwards, lists documents once, by falling sums of their
\* reciprocal ranks, and leaves out none that has a greater sum than one it lists.
FusionRanksByReciprocalRanks ==
    [][request.mode = "hybrid" /\ ~ request.newest /\ pc \in {"recheck", "fusing"}
       /\ pc' \in {"done", "drafting"}
       => RanksByScore(results', keyword,
            IF pc = "recheck" THEN Rechecked(candidates) ELSE <<>>)]_vars

\* docs/assistant.md:26: an answer has claims, each with enough different
\* citations, all of them of evidence that was retrieved; anything else has
\* neither claims nor citations.
AnswersAreGrounded ==
    IF answer.status = "answered"
    THEN /\ Len(answer.claims) \in 1..MaxClaims
         /\ \A i \in DOMAIN answer.claims :
              Cardinality(answer.claims[i]) >= MinCitations
         /\ answer.citations = UNION {answer.claims[i] : i \in DOMAIN answer.claims}
         /\ answer.citations \subseteq DOMAIN results
    ELSE answer.claims = <<>> /\ answer.citations = {}
=============================================================================
