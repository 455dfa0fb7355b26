---------------------------- MODULE EvidencePool ----------------------------
(* How one question gets its evidence: the rewriter makes search channels of it, *)
(* each channel joins a dense and a lexical ranking, the channels are fused and  *)
(* reranked, and for chat turns an evaluator may ask for more, round after round *)
(* (corrective retrieval), before the pool is cited or found too weak.  The      *)
(* corpus changes underneath.                                                    *)
EXTENDS Integers, Sequences, FiniteSets, Functions

CONSTANTS
  Chunks,      \* chunk ids of one tenant
  Documents,   \* the chunks of each document: a partition of Chunks
  TopK,        \* chat_top_k
  Candidates,  \* candidate_limit: most hits a store returns
  MaxPerDoc,   \* rag_max_chunks_per_document
  Vote,        \* rank -> reciprocal rank, scaled to a whole number
  Relevance,   \* relevance scores a reranker may give
  Threshold,   \* chat_confidence_threshold, in quarters of a score
  Variants,    \* query_rewrite_llm_variants
  MaxRounds,   \* crag_max_rounds
  SubQueries,  \* most suggested queries of one evaluation; the code keeps three
  Complaints,  \* sets of missing aspects an evaluator may report
  MaxRetries,  \* embedding_max_retries
  MaxChanges,  \* bound: documents withdrawn or published around the question
  NoComplaint

ASSUME EvidenceAssumption ==
  /\ IsFiniteSet(Chunks) /\ UNION Documents = Chunks
  /\ \A D, E \in Documents : D # E => D \cap E = {}
  /\ TopK \in Nat \ {0} /\ Candidates \in Nat /\ MaxPerDoc \in Nat \ {0}
  /\ Relevance \subseteq Nat /\ Threshold \in Nat
  /\ Variants \in Nat /\ MaxRounds \in Nat \ {0} /\ SubQueries \in Nat
  /\ MaxRetries \in Nat /\ MaxChanges \in Nat
  /\ NoComplaint \notin Complaints

VARIABLES
  rows,     \* chunks whose row is there and whose document is completed
  vectors,  \* chunks the vector store has an entry for
  crag,     \* whether the question runs the corrective loop: chat, with crag_enabled
  pc,       \* where the request is
  left,     \* channels, or suggested queries, still to be searched; while fusing, the
            \* channels that have joined the first one
  tries,    \* calls of the embedding gateway that failed for this query
  channels, \* per_channel: the hits of each channel so far
  fused,    \* the ranking the channels are merged into
  evidence, \* current_retrievals: chunks with their scores
  fresh,    \* new_retrievals of this round
  seen,     \* seen_chunk_ids
  last,     \* last_missing
  rounds,   \* the rounds the trace panel shows
  changes,  \* how often the corpus has changed
  live,     \* history: chunks that were servable at some time since the question
  first     \* history: the evidence the first retrieval gave

corpus == <<rows, vectors, changes>>
poolVars == <<rows, vectors, crag, pc, left, tries, channels, fused, evidence, fresh,
          seen, last, rounds, changes, live, first>>

Outcomes == {"declined", "answered", "failed"}

-----------------------------------------------------------------------------
(* Rankings *)

Hits == [chunk : Chunks, score : Relevance]

Doc(c) == CHOOSE D \in Documents : c \in D

ChunksOf(hits) == {hits[i].chunk : i \in DOMAIN hits}

Take(s, n) == SubSeq(s, 1, IF Len(s) < n THEN Len(s) ELSE n)

\* What a store may return of those it could: any ranking of some of them.
Found(candidates) ==
  UNION {{s \in [1..n -> candidates] : IsInjective(s)} : n \in 0..Candidates}

\* What one list adds to the fused score of a chunk.
VoteIn(s, c) == IF c \in Range(s) THEN Vote[CHOOSE i \in DOMAIN s : s[i] = c] ELSE 0

\* Mutant: the second list's vote replaces the first one's.
LastVote(s, t, c) == IF c \in Range(t) THEN VoteIn(t, c) ELSE VoteIn(s, c)

FusedScore(s, t, c) == VoteIn(s, c) + VoteIn(t, c)

\* What is left of a list at some of its places, as the one-element set of it.
Picked(s, places) ==
  {[i \in 1..Cardinality(places) |-> s[p[i]]] :
     p \in {q \in [1..Cardinality(places) -> places] :
             \A i, j \in 1..Cardinality(places) : i < j => q[i] < q[j]}}

\* At most MaxPerDoc chunks of one document, the best ranked.
Diverse(s) ==
  Picked(s, {i \in DOMAIN s :
               Cardinality({j \in 1..(i - 1) : Doc(s[j]) = Doc(s[i])}) < MaxPerDoc})

\* Reciprocal rank fusion of two lists; chunks of one score come in any order,
\* as their own scores, which are not modelled, decide.
FuseRankedHits(s, t, n) ==
  LET union == Range(s) \cup Range(t)
      sorted == {u \in [1..Cardinality(union) -> union] :
                   /\ IsInjective(u)
                   /\ \A i, j \in DOMAIN u :
                        i < j => FusedScore(s, t, u[i]) >= FusedScore(s, t, u[j])}
  IN  UNION {{Take(d, n) : d \in Diverse(u)} : u \in sorted}

\* The second pass: every hit gets a score, the best TopK are returned in order.
\* A hit the upstream left out gets the lowest score, a failing upstream is
\* replaced by the heuristic.
Reranked(hits) ==
  LET n == IF Cardinality(hits) < TopK THEN Cardinality(hits) ELSE TopK
  IN  {s \in [1..n -> [chunk : hits, score : Relevance]] :
         \A i, j \in 1..n :
           i < j => s[i].chunk # s[j].chunk /\ s[i].score >= s[j].score}

\* Mutant: the ids the vector store returns are taken as they are.
Unjoined == vectors

\* Both stores drop an id that has no servable row any more.
RetrieveDense == vectors \cap rows
RetrieveLexical == rows

RetrieveHybrid ==
  UNION {FuseRankedHits(s, t, TopK) : s \in Found(RetrieveDense), t \in Found(RetrieveLexical)}

\* Mutant: the new hits are appended behind the old ones.
Unsorted(hits) == {hits}

\* The stable sort by descending score, as the one-element set of its result.
SortByScore(hits) ==
  {[i \in DOMAIN hits |-> hits[p[i]]] :
     p \in {q \in [DOMAIN hits -> DOMAIN hits] :
             \A i, j \in DOMAIN hits :
               i < j => \/ hits[q[i]].score > hits[q[j]].score
                        \/ hits[q[i]].score = hits[q[j]].score /\ q[i] < q[j]}}

-----------------------------------------------------------------------------
(* The first retrieval *)

PoolInit ==
  /\ rows \in {UNION S : S \in SUBSET Documents}
  /\ vectors \in {rows, Chunks}
  /\ crag \in BOOLEAN
  /\ pc = "rewrite" /\ left = 0 /\ tries = 0
  /\ channels = <<>> /\ fused = <<>> /\ evidence = <<>> /\ fresh = <<>>
  /\ seen = {} /\ last = NoComplaint /\ rounds = <<>>
  /\ changes = 0 /\ live = rows /\ first = <<>>

\* The aliases always give one query; paraphrases and a hypothetical document are
\* added when the model returns them, and left out when the call fails.
Rewrite ==
  /\ pc = "rewrite"
  /\ \E paraphrases \in 0..Variants, hyde \in {0, 1} :
       left' = 1 + paraphrases + hyde
  /\ pc' = "search"
  /\ UNCHANGED <<corpus, crag, tries, channels, fused, evidence, fresh, seen, last,
                 rounds, live, first>>

\* One channel: embed the query, ask both stores, load the rows, fuse.
Search ==
  /\ pc = "search"
  /\ \E hits \in RetrieveHybrid : channels' = Append(channels, hits)
  /\ left' = left - 1 /\ tries' = 0
  /\ IF left' > 0 THEN pc' = pc /\ fused' = fused
     ELSE pc' = "fuse" /\ fused' = channels'[1]
  /\ UNCHANGED <<corpus, crag, evidence, fresh, seen, last, rounds, live, first>>

\* Mutant: one call too many.
RetriedOnceMore ==
  /\ pc \in {"search", "requery"}
  /\ tries <= MaxRetries
  /\ tries' = tries + 1
  /\ UNCHANGED <<corpus, crag, pc, left, channels, fused, evidence, fresh, seen, last,
                 rounds, live, first>>

\* The embedding gateway fails with a status that may pass, or the connection does.
EmbeddingRetried ==
  /\ pc \in {"search", "requery"}
  /\ tries < MaxRetries
  /\ tries' = tries + 1
  /\ UNCHANGED <<corpus, crag, pc, left, channels, fused, evidence, fresh, seen, last,
                 rounds, live, first>>

\* It fails for good, or a store does: outside the corrective loop nothing
\* catches that.
SearchFails ==
  /\ pc \in {"search", "vector", "lexical"}
  /\ pc' = "failed"
  /\ UNCHANGED <<corpus, crag, left, tries, channels, fused, evidence, fresh, seen,
                 last, rounds, live, first>>

\* The next channel is merged into the ranking so far.
FuseNext ==
  /\ pc = "fuse"
  /\ left + 1 < Len(channels)
  /\ \E s \in FuseRankedHits(fused, channels[left + 2], 2 * TopK) : fused' = s
  /\ left' = left + 1
  /\ UNCHANGED <<corpus, crag, pc, tries, channels, evidence, fresh, seen, last,
                 rounds, live, first>>

\* The evidence of the first retrieval: it opens the corrective loop if there is one.
Collect(hits, otherwise) ==
  /\ evidence' = hits /\ first' = hits
  /\ seen' = ChunksOf(hits)
  /\ channels' = <<>> /\ fused' = <<>> /\ left' = 0
  /\ pc' = IF hits = <<>> THEN otherwise ELSE IF crag THEN "evaluate" ELSE "decide"
  /\ UNCHANGED <<corpus, crag, tries, fresh, last, rounds, live>>

Rerank ==
  /\ pc = "fuse"
  /\ left + 1 = Len(channels)
  /\ \E hits \in Reranked(Range(fused)) : Collect(hits, "vector")

\* Nothing found: the dense store alone is asked, then the lexical one.
VectorSearch ==
  /\ pc = "vector"
  /\ \E ids \in SUBSET RetrieveDense : \E hits \in Reranked(ids) : Collect(hits, "lexical")

LexicalSearch ==
  /\ pc = "lexical"
  /\ \E ids \in SUBSET RetrieveLexical : \E hits \in Reranked(ids) : Collect(hits, "declined")

-----------------------------------------------------------------------------
(* The corrective loop *)

Round(missing, triggered, added) ==
  [missing |-> missing, triggered |-> triggered, added |-> added]

\* Enough evidence, an evaluator whose model failed, or no idea what to look for.
Sufficient ==
  /\ pc = "evaluate"
  /\ \E missing \in Complaints : rounds' = Append(rounds, Round(missing, FALSE, 0))
  /\ pc' = "decide"
  /\ UNCHANGED <<corpus, crag, left, tries, channels, fused, evidence, fresh, seen, last,
                 live, first>>

EvaluatorRaises ==
  /\ pc = "evaluate"
  /\ pc' = "decide"
  /\ UNCHANGED <<corpus, crag, left, tries, channels, fused, evidence, fresh, seen, last,
                 rounds, live, first>>

\* The evaluator repeats the complaint of the round before.
SameComplaint ==
  /\ pc = "evaluate" /\ SubQueries > 0
  /\ last # NoComplaint
  /\ rounds' = Append(rounds, Round(last, FALSE, 0))
  /\ pc' = "decide"
  /\ UNCHANGED <<corpus, crag, left, tries, channels, fused, evidence, fresh, seen, last,
                 live, first>>

Insufficient ==
  /\ pc = "evaluate"
  /\ \E missing \in Complaints \ {last} : last' = missing
  /\ \E n \in 1..SubQueries : left' = n
  /\ fresh' = <<>>
  /\ pc' = "requery"
  /\ UNCHANGED <<corpus, crag, tries, channels, fused, evidence, seen, rounds, live, first>>

\* Mutant: what a suggested query finds is compared with the evidence only.
ForgetsFound ==
  /\ pc = "requery" /\ left > 0
  /\ \E ids \in SUBSET (RetrieveDense \cup RetrieveLexical) : \E hits \in Reranked(ids) :
       \E news \in Picked(hits, {i \in DOMAIN hits : hits[i].chunk \notin ChunksOf(evidence)}) :
         /\ fresh' = fresh \o news
         /\ seen' = seen \cup ChunksOf(news)
  /\ left' = left - 1 /\ tries' = 0
  /\ UNCHANGED <<corpus, crag, pc, channels, fused, evidence, last, rounds, live, first>>

\* One suggested query is searched; chunks the loop has seen before are left out.
Requery ==
  /\ pc = "requery" /\ left > 0
  /\ \E ids \in SUBSET (RetrieveDense \cup RetrieveLexical) : \E hits \in Reranked(ids) :
       \E news \in Picked(hits, {i \in DOMAIN hits : hits[i].chunk \notin seen}) :
         /\ fresh' = fresh \o news
         /\ seen' = seen \cup ChunksOf(news)
  /\ left' = left - 1 /\ tries' = 0
  /\ UNCHANGED <<corpus, crag, pc, channels, fused, evidence, last, rounds, live, first>>

\* The search of one suggested query raises: the loop goes on with the next one.
RequeryFails ==
  /\ pc = "requery" /\ left > 0
  /\ left' = left - 1 /\ tries' = 0
  /\ UNCHANGED <<corpus, crag, pc, channels, fused, evidence, fresh, seen, last, rounds,
                 live, first>>

\* Mutant: a round that found nothing is followed by another one.
GoesOn ==
  /\ pc = "requery" /\ left = 0 /\ fresh = <<>>
  /\ rounds' = Append(rounds, Round(last, TRUE, 0))
  /\ pc' = IF Len(rounds') = MaxRounds THEN "decide" ELSE "evaluate"
  /\ UNCHANGED <<corpus, crag, left, tries, channels, fused, evidence, fresh, seen, last,
                 live, first>>

NothingNew ==
  /\ pc = "requery" /\ left = 0 /\ fresh = <<>>
  /\ rounds' = Append(rounds, Round(last, TRUE, 0))
  /\ pc' = "decide"
  /\ UNCHANGED <<corpus, crag, left, tries, channels, fused, evidence, fresh, seen, last,
                 live, first>>

Cap(added) == IF TopK + added > 2 * TopK THEN TopK + added ELSE 2 * TopK

Merge ==
  /\ pc = "requery" /\ left = 0 /\ fresh # <<>>
  /\ \E sorted \in SortByScore(evidence \o fresh) : evidence' = Take(sorted, Cap(Len(fresh)))
  /\ rounds' = Append(rounds, Round(last, TRUE, Len(fresh)))
  /\ fresh' = <<>>
  /\ pc' = IF Len(rounds') = MaxRounds THEN "decide" ELSE "evaluate"
  /\ UNCHANGED <<corpus, crag, left, tries, channels, fused, seen, last, live, first>>

-----------------------------------------------------------------------------
(* The decision, and the corpus *)

\* Score of the first citation, raised by a quarter for a second document and by
\* another one for a third.
Confidence ==
  LET docs == Cardinality({Doc(c) : c \in ChunksOf(evidence)})
  IN  evidence[1].score * (4 + (IF docs > 3 THEN 3 ELSE docs) - 1)

Decide ==
  /\ pc = "decide"
  /\ pc' = IF Confidence >= Threshold THEN "answered" ELSE "declined"
  /\ UNCHANGED <<corpus, crag, left, tries, channels, fused, evidence, fresh, seen, last,
                 rounds, live, first>>

\* A document is deleted or taken out of service; its vectors may stay.
Withdraw(D) ==
  /\ D \subseteq rows /\ changes < MaxChanges
  /\ rows' = rows \ D
  /\ vectors' \in {vectors, vectors \ D}
  /\ changes' = changes + 1
  /\ UNCHANGED <<crag, pc, left, tries, channels, fused, evidence, fresh, seen, last,
                 rounds, live, first>>

Publish(D) ==
  /\ D \cap rows = {} /\ changes < MaxChanges
  /\ rows' = rows \cup D /\ vectors' = vectors \cup D
  /\ live' = live \cup D
  /\ changes' = changes + 1
  /\ UNCHANGED <<crag, pc, left, tries, channels, fused, evidence, fresh, seen, last,
                 rounds, first>>

Retrieval ==
  \/ Rewrite \/ Search \/ EmbeddingRetried \/ SearchFails \/ FuseNext \/ Rerank
  \/ VectorSearch \/ LexicalSearch

Corrective ==
  \/ Sufficient \/ EvaluatorRaises \/ SameComplaint \/ Insufficient
  \/ Requery \/ RequeryFails \/ NothingNew \/ Merge

CorpusChanges == pc \notin Outcomes /\ \E D \in Documents : Withdraw(D) \/ Publish(D)

PoolNext == Retrieval \/ Corrective \/ Decide \/ CorpusChanges

PoolSpec == PoolInit /\ [][PoolNext]_poolVars

-----------------------------------------------------------------------------
(* Properties *)

RoundType == [missing : Complaints \cup {NoComplaint}, triggered : BOOLEAN, added : Nat]

PoolTypeOK ==
  /\ rows \subseteq Chunks /\ vectors \subseteq Chunks /\ live \subseteq Chunks
  /\ crag \in BOOLEAN
  /\ pc \in {"rewrite", "search", "fuse", "vector", "lexical", "evaluate", "requery", "decide"}
             \cup Outcomes
  /\ left \in Nat /\ tries \in 0..MaxRetries /\ changes \in 0..MaxChanges
  /\ channels \in Seq(Seq(Chunks)) /\ fused \in Seq(Chunks)
  /\ evidence \in Seq(Hits) /\ fresh \in Seq(Hits) /\ first \in Seq(Hits)
  /\ seen \subseteq Chunks /\ last \in Complaints \cup {NoComplaint}
  /\ rounds \in Seq(RoundType)

\* Hazard: an id the vector store returns outlives its row, and the corpus changes
\* between the rounds.  A chunk that was never servable while the question was
\* answered is never evidence (the row joins of the three retrievers).
LiveWhenCited == ChunksOf(evidence) \subseteq live

\* Hazard: two suggested queries find one chunk, or a later round finds it again.
\* No chunk is evidence twice, and what the rounds report as added is what the
\* loop has found beyond the first retrieval (seen_chunk_ids in _run_crag_loop).
TraceAddsUp ==
  LET added[i \in 0..Len(rounds)] == IF i = 0 THEN 0 ELSE added[i - 1] + rounds[i].added
  IN  /\ Cardinality(ChunksOf(evidence)) = Len(evidence)
      /\ ChunksOf(evidence) \subseteq seen
      /\ Cardinality(seen) = Len(first) + added[Len(rounds)] + Len(fresh)

\* Hazard: an evaluator that never tires.  Every round but the last one found
\* something, no complaint is searched for twice running, and there are no more
\* rounds than the setting allows (the two anti-loop guards).
RoundsMakeProgress ==
  /\ Len(rounds) <= MaxRounds
  /\ \A i \in 1..(Len(rounds) - 1) :
       /\ rounds[i].triggered /\ rounds[i].added > 0
       /\ rounds[i + 1].triggered => rounds[i + 1].missing # rounds[i].missing

\* Hazard: the rounds mix scores of several searches.  A question is not declined
\* while some chunk of its evidence is strong enough on its own: the first
\* citation, whose score decides, is the best one (the sort in _run_crag_loop).
StrongChunkAnswers ==
  pc = "declined" =>
    \A i \in DOMAIN evidence : evidence[i].score * 4 < Threshold

\* A chunk two lists hold outranks every chunk that one of them holds: so it is with
\* rag_rrf_k 60 for every top_k up to 43, and no longer with rag_rrf_k 0.
VotesOutrank ==
  /\ \A i \in 1..(2 * TopK) : Vote[i] \in Nat
  /\ \A i, j \in 1..(2 * TopK) : i < j => Vote[i] > Vote[j]
  /\ \A i \in 1..(2 * TopK), j \in 1..TopK : Vote[i] + Vote[j] > Vote[1]

Before(s, c, d) ==
  /\ c \in Range(s)
  /\ d \in Range(s) =>
       \E i, j \in DOMAIN s : s[i] = c /\ s[j] = d /\ i < j

\* Hazard: ranks of a merged list are ranked again, and lists are cut between the
\* merges, by length and by document.  A chunk that every channel ranks before
\* another one is before it when all are fused, and is not lost on the way.
UnanimousOrder ==
  (pc = "fuse" /\ left + 1 = Len(channels)) =>
    \A c, d \in Chunks :
      (c # d /\ \A i \in DOMAIN channels : Before(channels[i], c, d)) => Before(fused, c, d)

=============================================================================
