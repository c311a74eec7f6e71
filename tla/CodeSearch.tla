----------------------------- MODULE CodeSearch -----------------------------
(***************************************************************************)
(* The retrieval pipeline behind search_code: the hybrid ranking of        *)
(* tools/bm25.py, the recall of neighbouring chunks in tools/recall.py,    *)
(* the final filter in tools/filter.py, and rag/ask.py, which joins them.  *)
(*                                                                         *)
(* A chunk is its position in the index.  Its score comes from BM25, paths *)
(* and the dependency graph; only the order of the scores matters here, so *)
(* they are any small naturals.  What a query mentions is the definitions  *)
(* it asks for, each at a line of a file.                                  *)
(***************************************************************************)
EXTENDS Integers, Sequences, FiniteSets, Numbers

CONSTANTS
  Chunks,   \* the index: a sequence of [file, start, end], a file's together and in order
  Queries,  \* the calls: a query (hybrid scores, what it asks for) and its RetrievalConfig
  None

VARIABLES
  stage,     \* how far retrieve_code is
  query,     \* the call it answers
  scores,    \* the score of every chunk, as search_with_scores returns it
  seeds,     \* seed_results
  recalled,  \* recalled_results
  final      \* final_results

vars == <<stage, query, scores, seeds, recalled, final>>

Indexes == DOMAIN Chunks

File(i) == Chunks[i].file

\* The chunks of a file that hold a line.
Covering(definition) ==
  {i \in Indexes : /\ File(i) = definition.file
                   /\ definition.line \in Chunks[i].start .. Chunks[i].end}

\* max(covering, key=score): the first of the best.
BestOf(S, score) == Least({i \in S : \A j \in S : score[j] <= score[i]})

\* sorted(..., reverse=True) keeps the order of the index among equal scores.
\* An order is the set of its pairs.
ByScore(score) ==
  {pair \in Indexes \X Indexes :
     \/ score[pair[1]] > score[pair[2]]
     \/ score[pair[1]] = score[pair[2]] /\ pair[1] < pair[2]}

Before(S, order, i) == {j \in S : <<j, i>> \in order}

\* A set in an order: the p-th element has p - 1 before it.
Sorted(S, order) ==
  [p \in 1 .. Cardinality(S) |-> CHOOSE i \in S : Cardinality(Before(S, order, i)) = p - 1]

\* The chunks that are the first of their file.
Leads(S, order) == {i \in S : \A j \in Before(S, order, i) : File(j) # File(i)}

\* diversify_by_file and diversify_final_results: the best chunk of every
\* file, then the rest, k in all.
Diverse(S, order) ==
  LET leads == Leads(S, order)
  IN {pair \in S \X S :
        \/ pair[1] \in leads /\ pair[2] \notin leads
        \/ (pair[1] \in leads <=> pair[2] \in leads) /\ pair \in order}

FirstOf(list, k) == SubSeq(list, 1, Lesser(k, Len(list)))

Diversified(S, order, k) == FirstOf(Sorted(S, Diverse(S, order)), k)

\* _promote_explicit_definitions: a definition the query asks to locate ranks
\* above everything else.
Promoted(score, asked) ==
  LET best == {BestOf(Covering(d), score) : d \in {e \in asked : Covering(e) # {}}}
      top  == Greatest({score[i] : i \in Indexes})
  IN [i \in Indexes |-> IF i \in best THEN top + 1 + score[i] ELSE score[i]]

\* _align_qualified_method_chunks: in each file that was selected, the chunk
\* of the first Class.method the query mentions takes the place, and the
\* score, of the chunk that was selected first; if it was selected too, the
\* two trade places.
TargetIn(file, mentions, score) ==
  LET found == {n \in DOMAIN mentions : mentions[n].file = file /\ Covering(mentions[n]) # {}}
  IN IF found = {} THEN None ELSE BestOf(Covering(mentions[Least(found)]), score)

LeadIn(selected, file) == selected[Least({p \in DOMAIN selected : File(selected[p]) = file})]

Aligned(selected, mentions, score) ==
  [p \in DOMAIN selected |->
     LET lead   == LeadIn(selected, File(selected[p]))
         target == TargetIn(File(selected[p]), mentions, score)
     IN IF target # None /\ selected[p] = lead THEN target
        ELSE IF selected[p] = target THEN lead ELSE selected[p]]

Adjusted(selected, mentions, score) ==
  [i \in Indexes |->
     IF /\ TargetIn(File(i), mentions, score) = i
        /\ \E p \in DOMAIN selected : File(selected[p]) = File(i)
     THEN score[LeadIn(selected, File(i))]
     ELSE score[i]]

-----------------------------------------------------------------------------
\* expand_with_neighbor_chunks: each seed with the chunks around it in its
\* file, until the bound is reached; a chunk met again as a seed is upgraded
\* where it stands.
AddOrUpgrade(rows, i, isSeed) ==
  IF \E p \in DOMAIN rows : rows[p].chunk = i
  THEN [p \in DOMAIN rows |->
          IF rows[p].chunk = i THEN [chunk |-> i, seed |-> rows[p].seed \/ isSeed] ELSE rows[p]]
  ELSE Append(rows, [chunk |-> i, seed |-> isSeed])

IsNear(i, seed) == i \in Indexes /\ File(i) = File(seed)

\* The rows after each place around a seed.
Around(rows, seed, window) ==
  LET added[n \in 0 .. 2 * window + 1] ==
        IF n = 0 THEN rows
        ELSE LET i == seed - window + n - 1
             IN IF IsNear(i, seed) THEN AddOrUpgrade(added[n - 1], i, i = seed) ELSE added[n - 1]
  IN added

\* The bound max_results is None or 0 when there is none.
IsFull(rows, bound) == bound \notin {None, 0} /\ Len(rows) >= bound

Cut(rows, bound) == IF bound \in {None, 0} THEN rows ELSE FirstOf(rows, bound)

\* The rows after each seed.
Expanded(found, window, bound) ==
  LET expanded[n \in 0 .. Len(found)] ==
        IF n = 0 THEN <<>>
        ELSE LET rows == expanded[n - 1]
             IN IF IsFull(rows, bound) THEN rows ELSE Around(rows, found[n], window)[2 * window + 1]
  IN expanded

Recalled(found, window, bound) ==
  Cut(IF window <= 0 THEN [p \in DOMAIN found |-> [chunk |-> found[p], seed |-> TRUE]]
                     ELSE Expanded(found, window, bound)[Len(found)],
      bound)

\* resolve_max_recall_results, whose default keeps at least 20 results.
X_MaxRecallResults(k, window, bound) == IF bound = None THEN k ELSE bound
MaxRecallResults(k, window, bound) ==
  IF bound = None THEN Larger(20, k * (2 * Larger(window, 0) + 1))
  ELSE IF bound > 0 THEN bound ELSE None

\* filter_recalled_results: by score, found before neighbours, then in the
\* order of recall.
ByRecall(rows, score) ==
  LET IsBefore(p, q) ==
        \/ score[rows[p].chunk] > score[rows[q].chunk]
        \/ /\ score[rows[p].chunk] = score[rows[q].chunk]
           /\ \/ rows[p].seed /\ ~ rows[q].seed
              \/ rows[p].seed = rows[q].seed /\ p < q
  IN {<<rows[pq[1]].chunk, rows[pq[2]].chunk>> :
        pq \in {places \in (DOMAIN rows) \X (DOMAIN rows) : IsBefore(places[1], places[2])}}

Kept(rows, score, minScore) ==
  {rows[p].chunk : p \in {q \in DOMAIN rows : minScore = None \/ score[rows[q].chunk] >= minScore}}

Filtered(rows, score, finalK, minScore) ==
  LET order == ByRecall(rows, score)
      kept  == Kept(rows, score, minScore)
  IN IF finalK = None THEN Sorted(kept, order) ELSE Diversified(kept, order, finalK)

-----------------------------------------------------------------------------
\* candidate_k or top_k: 0 is as good as none.
CandidateK == IF query.candidateK \in {None, 0} THEN query.topK ELSE query.candidateK
FinalK == IF query.finalK = None THEN query.topK ELSE query.finalK

Init ==
  /\ stage = "rank" /\ query \in Queries
  /\ scores = query.scores /\ seeds = <<>> /\ recalled = <<>> /\ final = <<>>

\* search_with_scores up to diversify_by_file.
Rank ==
  /\ stage = "rank"
  /\ scores' = Promoted(scores, query.asked)
  /\ seeds' = Diversified(Indexes, ByScore(scores'), CandidateK)
  /\ stage' = "align"
  /\ UNCHANGED <<query, recalled, final>>

Align ==
  /\ stage = "align"
  /\ seeds' = Aligned(seeds, query.mentions, scores)
  /\ scores' = Adjusted(seeds, query.mentions, scores)
  /\ stage' = "recall"
  /\ UNCHANGED <<query, recalled, final>>

Recall ==
  /\ stage = "recall"
  /\ recalled' = Recalled(seeds, query.window, MaxRecallResults(CandidateK, query.window, query.maxRecall))
  /\ stage' = "filter"
  /\ UNCHANGED <<query, scores, seeds, final>>

Filter ==
  /\ stage = "filter"
  /\ final' = IF query.noFilter THEN [p \in DOMAIN recalled |-> recalled[p].chunk]
              ELSE Filtered(recalled, scores, IF FinalK = 0 THEN None ELSE FinalK, query.minScore)
  /\ stage' = "done"
  /\ UNCHANGED <<query, scores, seeds, recalled>>

Next == Rank \/ Align \/ Recall \/ Filter

Spec == Init /\ [][Next]_vars

-----------------------------------------------------------------------------
InSeq(i, list) == \E p \in DOMAIN list : list[p] = i

(***************************************************************************)
(* Expanding a hit by its neighbours and filtering again loses nothing: no *)
(* chunk is returned twice, and, unless the caller bounded the recall or   *)
(* set a least score, the scores returned are those of the best FinalK     *)
(* chunks of the whole index, taken one per file first (bm25.py:480,       *)
(* recall.py:14, filter.py:11).                                            *)
(***************************************************************************)
BestAreReturned ==
  stage = "done" =>
    /\ \A p, q \in DOMAIN final : final[p] = final[q] => p = q
    /\ (/\ query.mentions = <<>> /\ ~query.noFilter
        /\ query.maxRecall = None /\ query.minScore = None
        /\ FinalK \in 1 .. CandidateK) =>
         LET best == Diversified(Indexes, ByScore(scores), FinalK)
         IN [p \in DOMAIN final |-> scores[final[p]]] = [p \in DOMAIN best |-> scores[best[p]]]

(***************************************************************************)
(* A method the query names as Class.method and whose file was found is in *)
(* the answer: the chunk with its definition survives the swap with the    *)
(* chunk that ranked there, the recall and the second ranking              *)
(* (bm25.py:167), whenever the answer keeps as many results as the search. *)
(* Only a chunk that such a swap displaced in another file can take its    *)
(* place: the swap leaves it its score, and its new neighbour recalls it.  *)
(***************************************************************************)
MentionedMethodIsReturned ==
  stage = "done" /\ query.maxRecall = None /\ query.minScore = None /\ FinalK = CandidateK =>
    LET ranked == Promoted(query.scores, query.asked)
        Target(file) == TargetIn(file, query.mentions, ranked)
    IN \A p \in DOMAIN seeds :
         \/ Target(File(seeds[p])) = None
         \/ InSeq(Target(File(seeds[p])), final)
         \/ \E q \in DOMAIN final : /\ File(final[q]) # File(seeds[p])
                                    /\ Target(File(final[q])) # None
                                    /\ ~ InSeq(final[q], seeds)

\* The answer of search_code has the best chunks and the methods asked for
\* (ask.py:47).
SearchKeepsTheBest == BestAreReturned /\ MentionedMethodIsReturned
=============================================================================
