------------------------------- MODULE Academy -------------------------------
(***************************************************************************)
(* The search index of the OptionsAcademy and what reads it: reindex runs  *)
(* of the content worker (content_worker/reindex.py, saalr_core/rag/       *)
(* index.py) replace the rows of one embedding model in a transaction each,*)
(* two of them perhaps at once and of different editions of the catalog,   *)
(* and the API searches and answers from what is committed                 *)
(* (saalr_api/content/router.py).                                          *)
(*                                                                         *)
(* An edition is the sequence of its modules' slugs, in course order. An   *)
(* index row is its slug and the run that wrote it. Which modules a query  *)
(* hits, and how near, is any choice. READ COMMITTED throughout.           *)
(***************************************************************************)
EXTENDS Collections, FiniteSets, Integers

CONSTANTS
    Editions,   \* the catalogs that are deployed, side by side during a release
    Reindexes,  \* runs of the content worker
    Limits,     \* how many results are asked for
    None

VARIABLES
    index,      \* content_embeddings, committed
    worker,     \* the reindex runs
    answer      \* the answer of the API (bound: one)

vars == <<index, worker, answer>>

Slugs == UNION {ToSet(e) : e \in Editions}
Chunk == [slug : Slugs, run : Reindexes \cup {None}]

\* reindex_catalog: one chunk per module.
Chunks(edition, run) == {[slug |-> s, run |-> run] : s \in ToSet(edition)}

Idle == [at |-> "idle", edition |-> <<>>, seen |-> {}, gone |-> {}]

NoAnswer == [mode |-> None, edition |-> <<>>, keyword |-> <<>>, semantic |-> <<>>,
             results |-> <<>>, excerpts |-> {}]

TypeOK ==
    /\ index \subseteq Chunk
    /\ \A w \in Reindexes :
          /\ worker[w].at \in {"idle", "delete", "embed", "inserted", "done", "failed"}
          /\ worker[w].edition \in Editions \cup {<<>>}
          /\ worker[w].gone \subseteq worker[w].seen
    /\ answer.excerpts \subseteq Chunk

\* Nothing is indexed yet, or an earlier run has indexed an edition.
Init ==
    /\ index \in {{}} \cup {Chunks(e, None) : e \in Editions}
    /\ worker = [w \in Reindexes |-> Idle]
    /\ answer = NoAnswer

-----------------------------------------------------------------------------
(* run_reindex                                                             *)

\* The DELETE sees what is committed when it starts ...
ReindexStart(w, e) ==
    /\ worker[w].at = "idle"
    /\ worker' = [worker EXCEPT ![w] = [at |-> "delete", edition |-> e, seen |-> index,
                                        gone |-> {}]]
    /\ UNCHANGED <<index, answer>>

\* ... waits for rows that another transaction has deleted, and takes those that are
\* still there.
ReindexDelete(w) ==
    /\ worker[w].at = "delete"
    /\ \A v \in Reindexes \ {w} :
          worker[v].at \in {"embed", "inserted"} => worker[v].gone \cap worker[w].seen = {}
    /\ worker' = [worker EXCEPT ![w].at = "embed", ![w].gone = worker[w].seen \cap index]
    /\ UNCHANGED <<index, answer>>

\* Mutant of Conflicts: no UNIQUE on module_slug, chunk_index and embedding_model.
ConflictsNever(w, rows) == FALSE

\* A row with one of these slugs is committed and not deleted by w itself.
Conflicts(w, rows) == \E x \in rows, y \in index \ worker[w].gone : x.slug = y.slug

\* Once the modules are embedded, the flush: it waits for transactions that have
\* inserted one of the slugs, or deleted a row that is in its way, and raises if
\* one is there.
ReindexInsert(w) ==
    LET rows == Chunks(worker[w].edition, w)
        InTheWay(v) == \/ worker[v].at = "inserted"
                          /\ ToSet(worker[v].edition) \cap ToSet(worker[w].edition) # {}
                       \/ worker[v].at \in {"embed", "inserted"}
                          /\ \E x \in rows, y \in worker[v].gone : x.slug = y.slug
    IN  /\ worker[w].at = "embed"
        /\ ~ \E v \in Reindexes \ {w} : InTheWay(v)
        /\ worker' = [worker EXCEPT ![w] = IF Conflicts(w, rows)
                                            THEN [Idle EXCEPT !.at = "failed"]
                                            ELSE [@ EXCEPT !.at = "inserted"]]
        /\ UNCHANGED <<index, answer>>

ReindexCommit(w) ==
    /\ worker[w].at = "inserted"
    /\ index' = (index \ worker[w].gone) \cup Chunks(worker[w].edition, w)
    /\ worker' = [worker EXCEPT ![w] = [Idle EXCEPT !.at = "done"]]
    /\ UNCHANGED answer

\* The embedding provider raises, a deadlock is broken, or the process dies.
ReindexFails(w) ==
    /\ worker[w].at \in {"delete", "embed", "inserted"}
    /\ worker' = [worker EXCEPT ![w] = [Idle EXCEPT !.at = "failed"]]
    /\ UNCHANGED <<index, answer>>

-----------------------------------------------------------------------------
(* GET /content/search and POST /content/ask                               *)

\* Catalog.search: the modules that a query hits, the best first.
KeywordHits(edition) == SetToAllKPermutations(ToSet(edition))

\* The nearest chunks of the index. None, too, without a provider, or when the
\* embedding or the database fails.
SemanticHits(limit) == {s \in SetToAllKPermutations(index) : Len(s) <= limit}

\* Ranks count from zero.
Rank(s, hits) == SelectInSeq(hits, LAMBDA h : h = s) - 1

\* 1/(60 + rank), as a multiple of 1/(60 * 61 * 62).
RankPoints(rank) == (60 * 61 * 62) \div (60 + rank)

reciprocal_rank_fusion(keyword, semantic) ==
    LET slugs == ToSet(keyword) \cup ToSet(semantic)
        Score(s) == (IF s \in ToSet(keyword) THEN RankPoints(Rank(s, keyword)) ELSE 0)
                    + (IF s \in ToSet(semantic) THEN RankPoints(Rank(s, semantic)) ELSE 0)
        FirstSeen(s) == Rank(s, keyword \o semantic)
        Leads(s, t) == \/ Score(s) > Score(t)
                       \/ Score(s) = Score(t) /\ FirstSeen(s) < FirstSeen(t)
    IN  [i \in 1 .. Cardinality(slugs) |->
            CHOOSE s \in slugs : Cardinality({t \in slugs : t = s \/ Leads(t, s)}) = i]

\* The order of the results; without semantic hits, whatever the mode, that of the
\* keyword search. Cut at the limit, then without the modules of other editions.
Results(edition, mode, limit, keyword, semantic) ==
    LET ordered == IF mode = "keyword" \/ semantic = <<>> THEN keyword
                   ELSE IF mode = "semantic" THEN semantic
                   ELSE reciprocal_rank_fusion(keyword, semantic)
        cut == SubSeq(ordered, 1, Min({limit, Len(ordered)}))
    IN  Among(cut, ToSet(edition))

Search(mode) ==
    /\ answer = NoAnswer
    /\ \E e \in Editions, limit \in Limits :
       \E keyword \in KeywordHits(e), chunks \in SemanticHits(limit) :
          LET semantic == [i \in DOMAIN chunks |-> chunks[i].slug]
          IN  answer' = [NoAnswer EXCEPT
                  !.mode = mode, !.edition = e, !.keyword = keyword, !.semantic = semantic,
                  !.results = Results(e, mode, limit, keyword, semantic)]
    /\ UNCHANGED <<index, worker>>

\* retrieve_context: the same search, with the text of the chunks.
Excerpts(k) == SemanticHits(k)

\* The citations: the modules of the excerpts, each once, as far as this edition has
\* them. An answer without excerpts is made without the model.
Ask ==
    /\ answer = NoAnswer
    /\ \E e \in Editions, k \in Limits : \E chunks \in Excerpts(k) :
          answer' = [NoAnswer EXCEPT
              !.mode = "ask", !.edition = e, !.excerpts = ToSet(chunks),
              !.results = Among([i \in DOMAIN chunks |-> chunks[i].slug], ToSet(e))]
    /\ UNCHANGED <<index, worker>>

Next ==
    \/ \E w \in Reindexes :
          \/ \E e \in Editions : ReindexStart(w, e)
          \/ ReindexDelete(w)
          \/ ReindexInsert(w)
          \/ ReindexCommit(w)
          \/ ReindexFails(w)
    \/ \E mode \in {"keyword", "semantic", "hybrid"} : Search(mode)
    \/ Ask

Spec == Init /\ [][Next]_vars

-----------------------------------------------------------------------------
(* Properties                                                              *)

\* As long as any two editions share a module, the index is one edition, whole,
\* whichever runs overlap: the unique index fails the second of two runs that both
\* found nothing to delete, or whose deletions missed the other's rows. So an answer
\* never mixes the excerpts of two editions.
OneEdition ==
    (\A d, e \in Editions : ToSet(d) \cap ToSet(e) # {})
        => /\ index = {} \/ \E e \in Editions, run \in Reindexes \cup {None} : index = Chunks(e, run)
           /\ \A x, y \in answer.excerpts : x.run = y.run

\* In a hybrid search what is shown above the best keyword hit, or instead of it, was
\* found by both searches: rows of another edition in the index never push it down,
\* and never leave a query that has keyword hits without a result.
BestHitStays ==
    answer.mode = "hybrid" /\ answer.keyword # <<>> =>
        LET best == answer.keyword[1]
            place == Rank(best, answer.results) + 1
            above == IF place = 0 THEN Len(answer.results) ELSE place - 1
        IN  /\ answer.results # <<>>
            /\ \A i \in 1 .. above :
                  answer.results[i] \in ToSet(answer.keyword) \cap ToSet(answer.semantic)

AcademyFits == OneEdition /\ BestHitStays

=============================================================================
