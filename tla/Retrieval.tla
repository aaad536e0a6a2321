----------------------------- MODULE Retrieval -----------------------------
(***************************************************************************)
(* From a question to its passages and back: the two searches, reciprocal  *)
(* rank fusion, the reranker's cut, and the citations read back out of an  *)
(* answer.                                                                 *)
(*                                                                         *)
(* A passage is the id of its chunk, a natural number: ties are broken by  *)
(* id.  A ranked list is a sequence of distinct passages, best first.      *)
(***************************************************************************)
EXTENDS Integers, Sequences, FiniteSets, FiniteSetsExt, SequencesExt

(***************************************************************************)
(* The searches read a corpus: its sources, [org, path, directory, lang],  *)
(* where a path is the ids from the root down to the source; its chunks,   *)
(* [source, words, models]; and the stopwords of each language.  A bot     *)
(* names sources and means every document at or below them.                *)
(***************************************************************************)
Allowed(corpus, org, ids) ==
    {s \in DOMAIN corpus.sources :
        /\ corpus.sources[s].org = org /\ ~ corpus.sources[s].directory
        /\ \E t \in ids \cap DOMAIN corpus.sources :
              /\ corpus.sources[t].org = org
              /\ IsPrefix(corpus.sources[t].path, corpus.sources[s].path)}

Within(corpus, sources) == {c \in DOMAIN corpus.chunks : corpus.chunks[c].source \in sources}

\* The ways to put n of the passages in an order.
Rankings(passages, n) ==
    {list \in [1..n -> passages] : \A i, j \in 1..n : i # j => list[i] # list[j]}

\* Nearest first in the index of one model.  The index is approximate: LIMIT k
\* over what is allowed may come out short.
dense_search(corpus, org, ids, model, k) ==
    LET found == {c \in Within(corpus, Allowed(corpus, org, ids)) : model \in corpus.chunks[c].models}
    IN  UNION {Rankings(found, n) : n \in 0..Min({k, Cardinality(found)})}

\* A word that any language of the allowed sources drops is no search term.
useful(corpus, sources, query) ==
    query \ UNION {corpus.stopwords[corpus.sources[s].lang] : s \in sources}

bm25_search(corpus, org, ids, query, k) ==
    LET sources == Allowed(corpus, org, ids)
        found   == {c \in Within(corpus, sources) :
                       corpus.chunks[c].words \cap useful(corpus, sources, query) # {}}
    IN  Rankings(found, Min({k, Cardinality(found)}))
-----------------------------------------------------------------------------
Passages(lists) == UNION {{l[i] : i \in DOMAIN l} : l \in {lists[j] : j \in DOMAIN lists}}

RankIn(list, p) == CHOOSE i \in DOMAIN list : list[i] = p

\* chunks[:top]
Head_(list, top) == SubSeq(list, 1, IF Len(list) < top THEN Len(list) ELSE top)

(***************************************************************************)
(* score(chunk) is the sum of 1 / (k + rank) over the lists that hold it.  *)
(* It is kept exact by multiplying it with every denominator that occurs.  *)
(***************************************************************************)
Denominators(lists, k) == {k + r : r \in UNION {DOMAIN lists[j] : j \in DOMAIN lists}}
Scale(lists, k) == ProductSet(Denominators(lists, k))
Score(lists, k, p) ==
    LET Share(j) == IF p \in {lists[j][i] : i \in DOMAIN lists[j]}
                    THEN Scale(lists, k) \div (k + RankIn(lists[j], p))
                    ELSE 0
    IN  MapThenSumSet(Share, DOMAIN lists)

\* The elements of a set, each behind those that are ahead of it.
InOrder(S, ahead) ==
    [i \in 1..Cardinality(S) |->
        CHOOSE x \in S : Cardinality({y \in S : <<y, x>> \in ahead}) = i - 1]

\* Higher score first, ties by chunk id.
Ahead(lists, k) ==
    LET score == [p \in Passages(lists) |-> Score(lists, k, p)]
    IN  {pq \in Passages(lists) \X Passages(lists) :
            \/ score[pq[1]] > score[pq[2]]
            \/ score[pq[1]] = score[pq[2]] /\ pq[1] < pq[2]}

reciprocal_rank_fusion(lists, k, limit) ==
    Head_(InOrder(Passages(lists), Ahead(lists, k)), limit)

(***************************************************************************)
(* The cross-encoder reorders the first `head` candidates in any way; the  *)
(* rest keep their place.  The order stands when the model is not          *)
(* installed or cannot be loaded, when there are fewer than two candidates *)
(* and when scoring raises.                                                *)
(***************************************************************************)
Unranked(list, top) == Head_(list, top)

Reordered(list) ==
    {[i \in DOMAIN list |-> list[f[i]]] : f \in {g \in [DOMAIN list -> DOMAIN list] :
        \A i, j \in DOMAIN list : i # j => g[i] # g[j]}}

rerank(list, head, top) ==
    {Unranked(list, top)}
        \cup {Head_(new \o SubSeq(list, Len(Head_(list, head)) + 1, Len(list)), top) :
                 new \in IF Len(list) < 2 THEN {} ELSE Reordered(Head_(list, head))}

\* Mutant of parse_citations: whatever is in brackets is a citation.
parse_brackets(cites, passages, widest) == SelectSeq(cites, LAMBDA c : c <= widest + passages)

(***************************************************************************)
(* The markers an answer cites, each once, in the order they first appear, *)
(* and none that numbers no passage of the prompt.  The pattern reads two  *)
(* digits: a marker above `widest` (99) is not seen at all.                *)
(***************************************************************************)
parse_citations(cites, passages, widest) ==
    LET first == {j \in DOMAIN cites : /\ cites[j] \in 1..passages /\ cites[j] <= widest
                                       /\ \A l \in 1..(j - 1) : cites[l] # cites[j]}
        places == InOrder(first, {jl \in first \X first : jl[1] < jl[2]})
    IN  [i \in DOMAIN places |-> cites[places[i]]]
=============================================================================
