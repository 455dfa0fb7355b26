------------------------------ MODULE RagProofs ------------------------------
(* Theorems about the evidence of an answer (EvidencePool: retrieval, fusion and *)
(* corrective rounds) and about the runs that measure answers (EvalRuns).  They  *)
(* hold for every corpus, top_k and number of channels, rounds and suggested     *)
(* queries, and for any number of questions, requests and runs.                  *)
EXTENDS EvidencePool, EvalRuns, Sums, SequenceTheorems

-----------------------------------------------------------------------------
(* EvidencePool: what the operators on rankings return *)

Sorted(hits) ==
  \A i, j \in DOMAIN hits : i < j => hits[i].score >= hits[j].score

LEMMA DomainOfSeq ==
  ASSUME NEW S, NEW s \in Seq(S)
  PROVE  /\ DOMAIN s = 1..Len(s) /\ Len(s) \in Nat
         /\ IsFiniteSet(DOMAIN s)
         /\ \A i \in DOMAIN s : s[i] \in S
<1>1. DOMAIN s = 1..Len(s) /\ Len(s) \in Nat /\ \A i \in DOMAIN s : s[i] \in S
  OBVIOUS
<1>2. IsFiniteSet(1..Len(s))
  BY <1>1, FS_Interval
<1> QED
  BY <1>1, <1>2

LEMMA FoundRanks ==
  ASSUME NEW C \in SUBSET Chunks, NEW s \in Found(C)
  PROVE  s \in Seq(Chunks) /\ Range(s) \subseteq C
<1>1. PICK n \in 0..Candidates : s \in [1..n -> C]
  BY DEF Found
<1>2. n \in Nat
  BY EvidenceAssumption, <1>1
<1>3. s \in Seq(C)
  BY <1>1, <1>2
<1> QED
  BY <1>1, <1>2, <1>3 DEF Range

LEMMA PickedKeeps ==
  ASSUME NEW S, NEW s \in Seq(S), NEW P \in SUBSET (DOMAIN s), NEW r \in Picked(s, P)
  PROVE  /\ r \in Seq(S)
         /\ \A i \in DOMAIN r : \E j \in P : r[i] = s[j]
<1>1. Cardinality(P) \in Nat
  BY DomainOfSeq, FS_Subset, FS_CardinalityType
<1>2. PICK p \in [1..Cardinality(P) -> P] : r = [i \in 1..Cardinality(P) |-> s[p[i]]]
  BY DEF Picked
<1>3. \A i \in 1..Cardinality(P) : p[i] \in P /\ s[p[i]] \in S
  BY <1>2, DomainOfSeq
<1>4. r \in [1..Cardinality(P) -> S]
  BY <1>2, <1>3
<1>5. r \in Seq(S)
  BY <1>1, <1>4
<1>6. \A i \in DOMAIN r : r[i] = s[p[i]]
  BY <1>2
<1>7. DOMAIN r = 1..Cardinality(P)
  BY <1>2
<1> QED
  BY <1>3, <1>5, <1>6, <1>7

LEMMA TakeKeeps ==
  ASSUME NEW S, NEW s \in Seq(S), NEW n \in Nat
  PROVE  /\ Take(s, n) \in Seq(S)
         /\ DOMAIN Take(s, n) \subseteq DOMAIN s
         /\ \A i \in DOMAIN Take(s, n) : Take(s, n)[i] = s[i]
<1> DEFINE m == IF Len(s) < n THEN Len(s) ELSE n
<1>1. m \in Nat /\ m <= Len(s) /\ Len(s) \in Nat
  OBVIOUS
<1>2. Take(s, n) = SubSeq(s, 1, m)
  BY DEF Take
<1> HIDE DEF m
<1>3. SubSeq(s, 1, m) \in Seq(S) /\ Len(SubSeq(s, 1, m)) = m
  BY <1>1, SubSeqProperties
<1>4. \A i \in 1..m : SubSeq(s, 1, m)[i] = s[i]
  BY <1>1
<1>5. DOMAIN SubSeq(s, 1, m) = 1..m /\ 1..m \subseteq DOMAIN s
  BY <1>1, <1>3
<1> QED
  BY <1>2, <1>3, <1>4, <1>5

LEMMA FusedRanks ==
  ASSUME NEW s \in Seq(Chunks), NEW t \in Seq(Chunks), NEW n \in Nat,
         NEW r \in FuseRankedHits(s, t, n)
  PROVE  r \in Seq(Chunks) /\ Range(r) \subseteq Range(s) \cup Range(t)
<1> DEFINE U == Range(s) \cup Range(t)
<1>1. U \subseteq Chunks
  BY DomainOfSeq DEF Range
<1>2. Cardinality(U) \in Nat
  BY <1>1, EvidenceAssumption, FS_Subset, FS_CardinalityType
<1>a. PICK u \in [1..Cardinality(U) -> U] : \E d \in Diverse(u) : r = Take(d, n)
  BY DEF FuseRankedHits
<1>3. PICK d \in Diverse(u) : r = Take(d, n)
  BY <1>a
<1> HIDE DEF U
<1>4. u \in Seq(U)
  BY <1>2, <1>a
<1> DEFINE P == {i \in DOMAIN u :
                   Cardinality({j \in 1..(i - 1) : Doc(u[j]) = Doc(u[i])}) < MaxPerDoc}
<1>5. P \in SUBSET (DOMAIN u) /\ d \in Picked(u, P)
  BY <1>3 DEF Diverse
<1> HIDE DEF P
<1>6. d \in Seq(U)
  BY <1>4, <1>5, PickedKeeps
<1>7. Take(d, n) \in Seq(U)
  BY <1>6, TakeKeeps
<1>8. r \in Seq(U) /\ r \in Seq(Chunks)
  BY <1>1, <1>3, <1>7, SeqMonotonic
<1>9. Range(r) \subseteq U
  BY <1>8, DomainOfSeq DEF Range
<1> QED
  BY <1>8, <1>9 DEF U

LEMMA RerankedHits ==
  ASSUME NEW C \in SUBSET Chunks, NEW r \in Reranked(C)
  PROVE  r \in Seq(Hits) /\ ChunksOf(r) \subseteq C /\ Sorted(r)
<1> DEFINE n == IF Cardinality(C) < TopK THEN Cardinality(C) ELSE TopK
<1>1. Cardinality(C) \in Nat
  BY EvidenceAssumption, FS_Subset, FS_CardinalityType
<1>2. n \in Nat
  BY <1>1, EvidenceAssumption
<1>3. /\ r \in [1..n -> [chunk : C, score : Relevance]]
      /\ \A i, j \in 1..n : i < j => r[i].score >= r[j].score
  BY DEF Reranked
<1> HIDE DEF n
<1>4. DOMAIN r = 1..n /\ \A i \in 1..n : r[i].chunk \in C /\ r[i] \in Hits
  BY <1>3 DEF Hits
<1>5. r \in [1..n -> Hits]
  BY <1>3, <1>4
<1>6. r \in Seq(Hits)
  BY <1>2, <1>5
<1>7. ChunksOf(r) \subseteq C
  BY <1>4 DEF ChunksOf
<1> QED
  BY <1>3, <1>4, <1>6, <1>7 DEF Sorted

LEMMA SortedHits ==
  ASSUME NEW h \in Seq(Hits), NEW r \in SortByScore(h)
  PROVE  /\ r \in Seq(Hits) /\ Len(r) = Len(h)
         /\ ChunksOf(r) \subseteq ChunksOf(h) /\ Sorted(r)
<1>1. PICK q \in [DOMAIN h -> DOMAIN h] :
        /\ r = [i \in DOMAIN h |-> h[q[i]]]
        /\ \A i, j \in DOMAIN h :
             i < j => \/ h[q[i]].score > h[q[j]].score
                      \/ h[q[i]].score = h[q[j]].score /\ q[i] < q[j]
  BY DEF SortByScore
<1>2. DOMAIN h = 1..Len(h) /\ Len(h) \in Nat /\ \A i \in DOMAIN h : h[i] \in Hits
  BY DomainOfSeq
<1>3. \A i \in DOMAIN h : q[i] \in DOMAIN h
  BY <1>1
<1>4. DOMAIN r = DOMAIN h /\ \A i \in DOMAIN h : r[i] = h[q[i]]
  BY <1>1
<1>5. r \in [1..Len(h) -> Hits]
  BY <1>1, <1>2, <1>3
<1>6. r \in Seq(Hits) /\ Len(r) = Len(h)
  BY <1>2, <1>5
<1>7. ChunksOf(r) \subseteq ChunksOf(h)
  BY <1>3, <1>4 DEF ChunksOf
<1>8. \A i \in DOMAIN h : h[i].score \in Nat
  BY <1>2, EvidenceAssumption DEF Hits
<1>9. Sorted(r)
  BY <1>1, <1>3, <1>4, <1>8 DEF Sorted
<1> QED
  BY <1>6, <1>7, <1>9

-----------------------------------------------------------------------------
(* EvidencePool: types *)

Types == PoolTypeOK /\ (pc = "search" => left > 0)

LEMMA CollectTypes ==
  ASSUME PoolTypeOK, NEW C \in SUBSET Chunks, NEW hits \in Reranked(C),
         NEW otherwise \in {"vector", "lexical", "declined"}, Collect(hits, otherwise)
  PROVE  Types'
<1>1. hits \in Seq(Hits) /\ ChunksOf(hits) \subseteq Chunks
  BY RerankedHits
<1>2. fused' \in Seq(Chunks) /\ channels' \in Seq(Seq(Chunks))
  BY DEF Collect
<1>3. pc' \in {"vector", "lexical", "evaluate", "decide", "declined"}
  BY DEF Collect
<1> QED
  BY <1>1, <1>2, <1>3 DEF PoolTypeOK, Types, Collect, corpus, Outcomes

LEMMA RetrievalTypes == ASSUME Types, Retrieval PROVE Types'
<1> USE DEF Types, PoolTypeOK, corpus, Outcomes
<1>1. CASE Rewrite
  <2>1. PICK paraphrases \in 0..Variants, hyde \in {0, 1} : left' = 1 + paraphrases + hyde
    BY <1>1 DEF Rewrite
  <2>2. left' \in Nat /\ left' > 0
    BY <2>1, EvidenceAssumption
  <2> QED
    BY <1>1, <2>2 DEF Rewrite
<1>2. CASE Search
  <2>1. PICK hits \in RetrieveHybrid : channels' = Append(channels, hits)
    BY <1>2 DEF Search
  <2>2. PICK s \in Found(RetrieveDense), t \in Found(RetrieveLexical) :
          hits \in FuseRankedHits(s, t, TopK)
    BY <2>1 DEF RetrieveHybrid
  <2>a. RetrieveDense \in SUBSET Chunks /\ RetrieveLexical \in SUBSET Chunks
    BY DEF RetrieveDense, RetrieveLexical
  <2>b. s \in Seq(Chunks) /\ t \in Seq(Chunks)
    BY <2>a, FoundRanks
  <2>3. hits \in Seq(Chunks)
    BY <2>2, <2>b, FusedRanks, EvidenceAssumption
  <2>4. channels' \in Seq(Seq(Chunks)) /\ Len(channels') > 0
    BY <2>1, <2>3
  <2>5. channels'[1] \in Seq(Chunks)
    BY <2>4
  <2>6. left' \in Nat /\ (left' > 0 \/ pc' # "search") /\ pc' \in {"search", "fuse"}
    BY <1>2 DEF Search
  <2>7. fused' \in Seq(Chunks)
    BY <1>2, <2>5 DEF Search
  <2>8. tries' \in 0..MaxRetries
    BY <1>2, EvidenceAssumption DEF Search
  <2> QED
    BY <1>2, <2>4, <2>6, <2>7, <2>8 DEF Search
<1>3. CASE EmbeddingRetried
  BY <1>3, EvidenceAssumption DEF EmbeddingRetried
<1>4. CASE SearchFails
  BY <1>4 DEF SearchFails
<1>5. CASE FuseNext
  <2>1. PICK s \in FuseRankedHits(fused, channels[left + 2], 2 * TopK) : fused' = s
    BY <1>5 DEF FuseNext
  <2>2. channels[left + 2] \in Seq(Chunks)
    BY <1>5 DEF FuseNext
  <2>3. fused' \in Seq(Chunks)
    BY <2>1, <2>2, FusedRanks, EvidenceAssumption
  <2> QED
    BY <1>5, <2>3 DEF FuseNext
<1>6. CASE Rerank
  <2>1. Range(fused) \in SUBSET Chunks
    BY DomainOfSeq DEF Range
  <2>2. PICK hits \in Reranked(Range(fused)) : Collect(hits, "vector")
    BY <1>6 DEF Rerank
  <2> QED
    BY <2>1, <2>2, CollectTypes
<1>7. CASE VectorSearch
  <2>1. PICK ids \in SUBSET RetrieveDense : \E hits \in Reranked(ids) : Collect(hits, "lexical")
    BY <1>7 DEF VectorSearch
  <2>2. ids \in SUBSET Chunks
    BY DEF RetrieveDense
  <2>3. PICK hits \in Reranked(ids) : Collect(hits, "lexical")
    BY <2>1
  <2> QED
    BY <2>2, <2>3, CollectTypes
<1>8. CASE LexicalSearch
  <2>1. PICK ids \in SUBSET RetrieveLexical : \E hits \in Reranked(ids) : Collect(hits, "declined")
    BY <1>8 DEF LexicalSearch
  <2>2. ids \in SUBSET Chunks
    BY DEF RetrieveLexical
  <2>3. PICK hits \in Reranked(ids) : Collect(hits, "declined")
    BY <2>1
  <2> QED
    BY <2>2, <2>3, CollectTypes
<1> QED
  BY <1>1, <1>2, <1>3, <1>4, <1>5, <1>6, <1>7, <1>8 DEF Retrieval

LEMMA RequeryTypes == ASSUME PoolTypeOK, Requery PROVE Types'
<1>1. PICK ids \in SUBSET (RetrieveDense \cup RetrieveLexical) :
        \E hits \in Reranked(ids) :
          \E news \in Picked(hits, {i \in DOMAIN hits : hits[i].chunk \notin seen}) :
            /\ fresh' = fresh \o news
            /\ seen' = seen \cup ChunksOf(news)
  BY DEF Requery
<1>2. ids \in SUBSET Chunks
  BY DEF PoolTypeOK, RetrieveDense, RetrieveLexical
<1>3. PICK hits \in Reranked(ids) :
          \E news \in Picked(hits, {i \in DOMAIN hits : hits[i].chunk \notin seen}) :
            /\ fresh' = fresh \o news
            /\ seen' = seen \cup ChunksOf(news)
  BY <1>1
<1> DEFINE P == {i \in DOMAIN hits : hits[i].chunk \notin seen}
<1>4. PICK news \in Picked(hits, P) :
            /\ fresh' = fresh \o news
            /\ seen' = seen \cup ChunksOf(news)
  BY <1>3
<1>5. P \in SUBSET (DOMAIN hits)
  OBVIOUS
<1> HIDE DEF P
<1>6. hits \in Seq(Hits)
  BY <1>2, RerankedHits
<1>7. news \in Seq(Hits)
  BY <1>4, <1>5, <1>6, PickedKeeps
<1>8. ChunksOf(news) \subseteq Chunks
  <2>1. \A i \in DOMAIN news : news[i] \in Hits
    BY <1>7, DomainOfSeq
  <2> QED
    BY <2>1 DEF ChunksOf, Hits
<1>9. fresh' \in Seq(Hits) /\ seen' \subseteq Chunks
  BY <1>4, <1>7, <1>8 DEF PoolTypeOK
<1> QED
  BY <1>9, EvidenceAssumption DEF Requery, Types, PoolTypeOK, corpus, Outcomes

LEMMA MergeTypes == ASSUME PoolTypeOK, Merge PROVE Types'
<1>1. PICK sorted \in SortByScore(evidence \o fresh) :
        evidence' = Take(sorted, Cap(Len(fresh)))
  BY DEF Merge
<1>2. evidence \o fresh \in Seq(Hits) /\ Len(fresh) \in Nat
  BY DEF PoolTypeOK
<1>3. Cap(Len(fresh)) \in Nat
  BY <1>2, EvidenceAssumption DEF Cap
<1>4. evidence' \in Seq(Hits)
  BY <1>1, <1>2, <1>3, SortedHits, TakeKeeps
<1>5. Round(last, TRUE, Len(fresh)) \in RoundType
  BY <1>2 DEF PoolTypeOK, Round, RoundType
<1>a. PICK r \in RoundType : rounds' = Append(rounds, r)
  BY <1>5 DEF Merge
<1>6. rounds' \in Seq(RoundType)
  BY <1>a DEF PoolTypeOK
<1>7. fresh' \in Seq(Hits) /\ pc' \in {"decide", "evaluate"}
  BY DEF Merge
<1> QED
  BY <1>4, <1>6, <1>7 DEF Merge, Types, PoolTypeOK, corpus

LEMMA CorrectiveTypes == ASSUME Types, Corrective PROVE Types'
<1> USE DEF Types, PoolTypeOK, corpus, Outcomes
<1>1. CASE Sufficient
  <2>1. PICK missing \in Complaints : rounds' = Append(rounds, Round(missing, FALSE, 0))
    BY <1>1 DEF Sufficient
  <2>2. Round(missing, FALSE, 0) \in RoundType
    BY DEF Round, RoundType
  <2>a. PICK r \in RoundType : rounds' = Append(rounds, r)
    BY <2>1, <2>2
  <2>3. rounds' \in Seq(RoundType)
    BY <2>a
  <2> QED
    BY <1>1, <2>3 DEF Sufficient
<1>2. CASE EvaluatorRaises
  BY <1>2 DEF EvaluatorRaises
<1>3. CASE SameComplaint
  <2>1. Round(last, FALSE, 0) \in RoundType
    BY DEF Round, RoundType
  <2>a. PICK r \in RoundType : rounds' = Append(rounds, r)
    BY <1>3, <2>1 DEF SameComplaint
  <2>2. rounds' \in Seq(RoundType)
    BY <2>a
  <2> QED
    BY <1>3, <2>2 DEF SameComplaint
<1>4. CASE Insufficient
  <2>1. PICK n \in 1..SubQueries : left' = n
    BY <1>4 DEF Insufficient
  <2>2. left' \in Nat
    BY <2>1, EvidenceAssumption
  <2>3. last' \in Complaints /\ fresh' \in Seq(Hits)
    BY <1>4 DEF Insufficient
  <2> QED
    BY <1>4, <2>2, <2>3 DEF Insufficient
<1>5. CASE Requery
  BY <1>5, RequeryTypes
<1>6. CASE RequeryFails
  BY <1>6, EvidenceAssumption DEF RequeryFails
<1>7. CASE NothingNew
  <2>1. Round(last, TRUE, 0) \in RoundType
    BY DEF Round, RoundType
  <2>a. PICK r \in RoundType : rounds' = Append(rounds, r)
    BY <1>7, <2>1 DEF NothingNew
  <2>2. rounds' \in Seq(RoundType)
    BY <2>a
  <2> QED
    BY <1>7, <2>2 DEF NothingNew
<1>8. CASE Merge
  BY <1>8, MergeTypes
<1> QED
  BY <1>1, <1>2, <1>3, <1>4, <1>5, <1>6, <1>7, <1>8 DEF Corrective

LEMMA CorpusTypes == ASSUME Types, CorpusChanges PROVE Types'
<1> USE EvidenceAssumption DEF Types, PoolTypeOK, corpus, Outcomes
<1>1. PICK D \in Documents : Withdraw(D) \/ Publish(D)
  BY DEF CorpusChanges
<1>2. D \subseteq Chunks
  OBVIOUS
<1>3. CASE Withdraw(D)
  BY <1>3 DEF Withdraw
<1>4. CASE Publish(D)
  BY <1>2, <1>4 DEF Publish
<1> QED
  BY <1>1, <1>3, <1>4

LEMMA InitTypes == PoolInit => Types
  BY EvidenceAssumption DEF PoolInit, Types, PoolTypeOK

LEMMA NextTypes == Types /\ [PoolNext]_poolVars => Types'
<1> SUFFICES ASSUME Types, [PoolNext]_poolVars PROVE Types'
  OBVIOUS
<1>1. CASE Decide
  BY <1>1 DEF Decide, Types, PoolTypeOK, corpus, Outcomes
<1>2. CASE UNCHANGED poolVars
  BY <1>2 DEF poolVars, Types, PoolTypeOK
<1> QED
  BY <1>1, <1>2, RetrievalTypes, CorrectiveTypes, CorpusTypes DEF PoolNext

\* The type invariant, for every value of the constants.
THEOREM EvidenceTypes == PoolSpec => []PoolTypeOK
<1>1. Types => PoolTypeOK
  BY DEF Types
<1> QED
  BY <1>1, InitTypes, NextTypes, PTL DEF PoolSpec

-----------------------------------------------------------------------------
(* EvidencePool: what is cited was servable *)

LiveInv ==
  /\ rows \subseteq live
  /\ \A i \in DOMAIN channels : Range(channels[i]) \subseteq live
  /\ Range(fused) \subseteq live
  /\ ChunksOf(evidence) \subseteq live /\ ChunksOf(fresh) \subseteq live

LEMMA CollectLive ==
  ASSUME LiveInv, NEW C \in SUBSET Chunks, C \subseteq live,
         NEW hits \in Reranked(C), NEW otherwise, Collect(hits, otherwise)
  PROVE  LiveInv'
<1>1. ChunksOf(hits) \subseteq live
  BY RerankedHits
<1> QED
  BY <1>1 DEF LiveInv, Collect, corpus, Range, ChunksOf

LEMMA SearchLive == ASSUME Types, LiveInv, Search PROVE LiveInv'
<1>1. PICK hits \in RetrieveHybrid : channels' = Append(channels, hits)
  BY DEF Search
<1>2. PICK s \in Found(RetrieveDense), t \in Found(RetrieveLexical) :
        hits \in FuseRankedHits(s, t, TopK)
  BY <1>1 DEF RetrieveHybrid
<1>3. RetrieveDense \in SUBSET Chunks /\ RetrieveLexical \in SUBSET Chunks
  BY DEF RetrieveDense, RetrieveLexical, Types, PoolTypeOK
<1>4. /\ s \in Seq(Chunks) /\ Range(s) \subseteq RetrieveDense
      /\ t \in Seq(Chunks) /\ Range(t) \subseteq RetrieveLexical
  BY <1>3, FoundRanks
<1>5. Range(hits) \subseteq Range(s) \cup Range(t) /\ hits \in Seq(Chunks)
  BY <1>2, <1>4, FusedRanks, EvidenceAssumption
<1>6. Range(hits) \subseteq live
  BY <1>4, <1>5 DEF LiveInv, RetrieveDense, RetrieveLexical
<1>7. /\ DOMAIN channels' = 1..(Len(channels) + 1)
      /\ \A i \in 1..Len(channels) : channels'[i] = channels[i]
      /\ channels'[Len(channels) + 1] = hits
  BY <1>1, <1>5 DEF Types, PoolTypeOK
<1>8. \A i \in DOMAIN channels' : Range(channels'[i]) \subseteq live
  BY <1>6, <1>7 DEF LiveInv, Types, PoolTypeOK
<1>9. Range(fused') \subseteq live
  <2>1. fused' = fused \/ fused' = channels'[1]
    BY DEF Search
  <2>2. 1 \in DOMAIN channels'
    BY <1>7 DEF Types, PoolTypeOK
  <2> QED
    BY <1>8, <2>1, <2>2 DEF LiveInv
<1> QED
  BY <1>8, <1>9 DEF LiveInv, Search, corpus

LEMMA RetrievalLive == ASSUME Types, LiveInv, Retrieval PROVE LiveInv'
<1>1. CASE Rewrite
  BY <1>1 DEF Rewrite, LiveInv, corpus
<1>2. CASE Search
  BY <1>2, SearchLive
<1>3. CASE EmbeddingRetried
  BY <1>3 DEF EmbeddingRetried, LiveInv, corpus
<1>4. CASE SearchFails
  BY <1>4 DEF SearchFails, LiveInv, corpus
<1>5. CASE FuseNext
  <2>1. PICK s \in FuseRankedHits(fused, channels[left + 2], 2 * TopK) : fused' = s
    BY <1>5 DEF FuseNext
  <2>2. channels[left + 2] \in Seq(Chunks) /\ left + 2 \in DOMAIN channels
    BY <1>5 DEF FuseNext, Types, PoolTypeOK
  <2>3. Range(fused') \subseteq Range(fused) \cup Range(channels[left + 2])
    BY <2>1, <2>2, FusedRanks, EvidenceAssumption DEF Types, PoolTypeOK
  <2>4. Range(fused') \subseteq live
    BY <2>2, <2>3 DEF LiveInv
  <2> QED
    BY <1>5, <2>4 DEF FuseNext, LiveInv, corpus
<1>6. CASE Rerank
  <2>1. Range(fused) \in SUBSET Chunks
    BY DomainOfSeq DEF Range, Types, PoolTypeOK
  <2>2. PICK hits \in Reranked(Range(fused)) : Collect(hits, "vector")
    BY <1>6 DEF Rerank
  <2>3. Range(fused) \subseteq live
    BY DEF LiveInv
  <2> QED
    BY <2>1, <2>2, <2>3, CollectLive
<1>7. CASE VectorSearch
  <2>1. PICK ids \in SUBSET RetrieveDense : \E hits \in Reranked(ids) : Collect(hits, "lexical")
    BY <1>7 DEF VectorSearch
  <2>2. ids \in SUBSET Chunks /\ ids \subseteq live
    BY DEF RetrieveDense, LiveInv, Types, PoolTypeOK
  <2>3. PICK hits \in Reranked(ids) : Collect(hits, "lexical")
    BY <2>1
  <2> QED
    BY <2>2, <2>3, CollectLive
<1>8. CASE LexicalSearch
  <2>1. PICK ids \in SUBSET RetrieveLexical : \E hits \in Reranked(ids) : Collect(hits, "declined")
    BY <1>8 DEF LexicalSearch
  <2>2. ids \in SUBSET Chunks /\ ids \subseteq live
    BY DEF RetrieveLexical, LiveInv, Types, PoolTypeOK
  <2>3. PICK hits \in Reranked(ids) : Collect(hits, "declined")
    BY <2>1
  <2> QED
    BY <2>2, <2>3, CollectLive
<1> QED
  BY <1>1, <1>2, <1>3, <1>4, <1>5, <1>6, <1>7, <1>8 DEF Retrieval

\* The chunks of two lists one behind the other.
LEMMA JoinedChunks ==
  ASSUME NEW g \in Seq(Hits), NEW h \in Seq(Hits)
  PROVE  ChunksOf(g \o h) \subseteq ChunksOf(g) \cup ChunksOf(h)
<1> SUFFICES ASSUME NEW i \in DOMAIN (g \o h)
             PROVE  (g \o h)[i].chunk \in ChunksOf(g) \cup ChunksOf(h)
  BY DEF ChunksOf
<1>1. i \in 1..(Len(g) + Len(h)) /\ Len(g) \in Nat /\ Len(h) \in Nat
  OBVIOUS
<1>2. CASE i <= Len(g)
  <2>1. (g \o h)[i] = g[i] /\ i \in DOMAIN g
    BY <1>1, <1>2
  <2> QED
    BY <2>1 DEF ChunksOf
<1>3. CASE i > Len(g)
  <2>1. (g \o h)[i] = h[i - Len(g)] /\ i - Len(g) \in DOMAIN h
    BY <1>1, <1>3
  <2> QED
    BY <2>1 DEF ChunksOf
<1> QED
  BY <1>1, <1>2, <1>3

LEMMA RequeryLive == ASSUME Types, LiveInv, Requery PROVE LiveInv'
<1>1. PICK ids \in SUBSET (RetrieveDense \cup RetrieveLexical) :
        \E hits \in Reranked(ids) :
          \E news \in Picked(hits, {i \in DOMAIN hits : hits[i].chunk \notin seen}) :
            fresh' = fresh \o news
  BY DEF Requery
<1>2. ids \in SUBSET Chunks /\ ids \subseteq live
  BY DEF Types, PoolTypeOK, LiveInv, RetrieveDense, RetrieveLexical
<1>3. PICK hits \in Reranked(ids) :
          \E news \in Picked(hits, {i \in DOMAIN hits : hits[i].chunk \notin seen}) :
            fresh' = fresh \o news
  BY <1>1
<1> DEFINE P == {i \in DOMAIN hits : hits[i].chunk \notin seen}
<1>4. PICK news \in Picked(hits, P) : fresh' = fresh \o news
  BY <1>3
<1>5. P \in SUBSET (DOMAIN hits)
  OBVIOUS
<1> HIDE DEF P
<1>6. hits \in Seq(Hits) /\ ChunksOf(hits) \subseteq live
  BY <1>2, RerankedHits
<1>7. news \in Seq(Hits) /\ \A i \in DOMAIN news : \E j \in P : news[i] = hits[j]
  BY <1>4, <1>5, <1>6, PickedKeeps
<1>8. ChunksOf(news) \subseteq ChunksOf(hits)
  BY <1>5, <1>7 DEF ChunksOf
<1>9. ChunksOf(fresh') \subseteq live
  BY <1>4, <1>6, <1>7, <1>8, JoinedChunks DEF LiveInv, Types, PoolTypeOK
<1> QED
  BY <1>9 DEF Requery, LiveInv, corpus

LEMMA MergeLive == ASSUME Types, LiveInv, Merge PROVE LiveInv'
<1>1. PICK sorted \in SortByScore(evidence \o fresh) :
        evidence' = Take(sorted, Cap(Len(fresh)))
  BY DEF Merge
<1>2. evidence \o fresh \in Seq(Hits) /\ Len(fresh) \in Nat
  BY DEF Types, PoolTypeOK
<1>3. Cap(Len(fresh)) \in Nat
  BY <1>2, EvidenceAssumption DEF Cap
<1>4. sorted \in Seq(Hits) /\ ChunksOf(sorted) \subseteq ChunksOf(evidence \o fresh)
  BY <1>1, <1>2, SortedHits
<1>5. ChunksOf(evidence') \subseteq ChunksOf(sorted)
  <2>1. /\ DOMAIN Take(sorted, Cap(Len(fresh))) \subseteq DOMAIN sorted
        /\ \A i \in DOMAIN Take(sorted, Cap(Len(fresh))) :
             Take(sorted, Cap(Len(fresh)))[i] = sorted[i]
    BY <1>3, <1>4, TakeKeeps
  <2> QED
    BY <1>1, <2>1 DEF ChunksOf
<1>6. ChunksOf(evidence') \subseteq live
  BY <1>4, <1>5, JoinedChunks DEF LiveInv, Types, PoolTypeOK
<1> QED
  BY <1>6 DEF Merge, LiveInv, corpus, ChunksOf

LEMMA CorrectiveLive == ASSUME Types, LiveInv, Corrective PROVE LiveInv'
<1>1. CASE Sufficient
  BY <1>1 DEF Sufficient, LiveInv, corpus
<1>2. CASE EvaluatorRaises
  BY <1>2 DEF EvaluatorRaises, LiveInv, corpus
<1>3. CASE SameComplaint
  BY <1>3 DEF SameComplaint, LiveInv, corpus
<1>4. CASE Insufficient
  BY <1>4 DEF Insufficient, LiveInv, corpus, ChunksOf
<1>5. CASE Requery
  BY <1>5, RequeryLive
<1>6. CASE RequeryFails
  BY <1>6 DEF RequeryFails, LiveInv, corpus
<1>7. CASE NothingNew
  BY <1>7 DEF NothingNew, LiveInv, corpus
<1>8. CASE Merge
  BY <1>8, MergeLive
<1> QED
  BY <1>1, <1>2, <1>3, <1>4, <1>5, <1>6, <1>7, <1>8 DEF Corrective

\* LiveWhenCited: whatever the stores return, between whatever changes of the
\* corpus, no chunk is evidence that was not servable since the question came.
THEOREM CitedWasLive == PoolSpec => []LiveWhenCited
<1>1. PoolInit => LiveInv
  BY DEF PoolInit, LiveInv, Range, ChunksOf
<1>2. Types /\ LiveInv /\ [PoolNext]_poolVars => LiveInv'
  <2> SUFFICES ASSUME Types, LiveInv, [PoolNext]_poolVars PROVE LiveInv'
    OBVIOUS
  <2>1. CASE Decide
    BY <2>1 DEF Decide, LiveInv, corpus
  <2>2. CASE CorpusChanges
    <3>1. PICK D \in Documents : Withdraw(D) \/ Publish(D)
      BY <2>2 DEF CorpusChanges
    <3> QED
      BY <3>1 DEF Withdraw, Publish, LiveInv
  <2>3. CASE UNCHANGED poolVars
    BY <2>3 DEF poolVars, LiveInv
  <2> QED
    BY <2>1, <2>2, <2>3, RetrievalLive, CorrectiveLive DEF PoolNext
<1>3. LiveInv => LiveWhenCited
  BY DEF LiveInv, LiveWhenCited
<1> QED
  BY <1>1, <1>2, <1>3, InitTypes, NextTypes, PTL DEF PoolSpec

-----------------------------------------------------------------------------
(* EvidencePool: the corrective loop gets on *)

InLoop == pc \in {"evaluate", "requery"}

\* While the loop runs, every round found something and the last complaint is the
\* one of the last round; a complaint being searched for is another one.
ProgressInv ==
  /\ RoundsMakeProgress
  /\ pc \in {"rewrite", "search", "fuse", "vector", "lexical"} => rounds = <<>>
  /\ InLoop => /\ Len(rounds) < MaxRounds
               /\ \A i \in 1..Len(rounds) : rounds[i].triggered /\ rounds[i].added > 0
  /\ pc = "evaluate" /\ Len(rounds) > 0 => last = rounds[Len(rounds)].missing
  /\ pc = "requery" /\ Len(rounds) > 0 => last # rounds[Len(rounds)].missing

LEMMA FieldsOfRound ==
  ASSUME NEW m \in Complaints \cup {NoComplaint}, NEW t \in BOOLEAN, NEW n \in Nat
  PROVE  /\ Round(m, t, n) \in RoundType
         /\ Round(m, t, n).missing = m
         /\ Round(m, t, n).triggered = t
         /\ Round(m, t, n).added = n
  BY DEF Round, RoundType

\* A round is appended after rounds that all found something.
LEMMA RoundEnds ==
  ASSUME PoolTypeOK, ProgressInv, InLoop, NEW r \in RoundType, rounds' = Append(rounds, r),
         Len(rounds) > 0 /\ r.triggered => r.missing # rounds[Len(rounds)].missing
  PROVE  /\ RoundsMakeProgress'
         /\ Len(rounds') = Len(rounds) + 1 /\ Len(rounds) \in Nat
         /\ rounds'[Len(rounds')] = r
         /\ \A i \in 1..Len(rounds) : rounds'[i].triggered /\ rounds'[i].added > 0
<1>1. /\ Len(rounds') = Len(rounds) + 1 /\ Len(rounds) \in Nat
      /\ \A i \in 1..Len(rounds) : rounds'[i] = rounds[i]
      /\ rounds'[Len(rounds) + 1] = r
  BY DEF PoolTypeOK
<1>2. /\ Len(rounds) < MaxRounds /\ MaxRounds \in Nat
      /\ \A i \in 1..Len(rounds) : rounds[i].triggered /\ rounds[i].added > 0
  BY EvidenceAssumption DEF ProgressInv
<1>3. \A i \in 1..Len(rounds) : rounds'[i].triggered /\ rounds'[i].added > 0
  BY <1>1, <1>2
<1>4. ASSUME NEW i \in 1..Len(rounds), rounds'[i + 1].triggered
      PROVE  rounds'[i + 1].missing # rounds'[i].missing
  <2>1. CASE i = Len(rounds)
    BY <1>1, <1>4, <2>1
  <2>2. CASE i < Len(rounds)
    <3>1. i \in 1..(Len(rounds) - 1) /\ i + 1 \in 1..Len(rounds)
      BY <1>1, <2>2
    <3>2. rounds[i + 1].triggered => rounds[i + 1].missing # rounds[i].missing
      BY <3>1 DEF ProgressInv, RoundsMakeProgress
    <3>3. rounds'[i + 1] = rounds[i + 1] /\ rounds'[i] = rounds[i]
      BY <1>1, <3>1
    <3> QED
      BY <1>4, <3>2, <3>3
  <2> QED
    BY <1>1, <2>1, <2>2
<1>5. Len(rounds') <= MaxRounds
  BY <1>1, <1>2
<1>6. RoundsMakeProgress'
  BY <1>1, <1>3, <1>4, <1>5 DEF RoundsMakeProgress
<1> QED
  BY <1>1, <1>3, <1>6

LEMMA RetrievalProgresses ==
  ASSUME PoolTypeOK, ProgressInv, Retrieval, pc # "requery" PROVE ProgressInv'
<1> USE DEF ProgressInv, InLoop, corpus
<1>1. CASE Rewrite
  BY <1>1 DEF Rewrite, RoundsMakeProgress
<1>2. CASE Search
  BY <1>2 DEF Search, RoundsMakeProgress
<1>3. CASE EmbeddingRetried
  BY <1>3 DEF EmbeddingRetried, RoundsMakeProgress
<1>4. CASE SearchFails
  BY <1>4 DEF SearchFails, RoundsMakeProgress
<1>5. CASE FuseNext
  BY <1>5 DEF FuseNext, RoundsMakeProgress
<1>6. ASSUME NEW hits, NEW otherwise \in {"vector", "lexical", "declined"},
             pc \in {"fuse", "vector", "lexical"}, Collect(hits, otherwise)
      PROVE  ProgressInv'
  <2>1. rounds' = <<>> /\ Len(rounds') = 0
    BY <1>6 DEF Collect
  <2>2. pc' \in {"vector", "lexical", "declined", "evaluate", "decide"}
    BY <1>6 DEF Collect
  <2> QED
    BY <2>1, <2>2, EvidenceAssumption DEF RoundsMakeProgress
<1>7. CASE Rerank \/ VectorSearch \/ LexicalSearch
  BY <1>6, <1>7 DEF Rerank, VectorSearch, LexicalSearch
<1> QED
  BY <1>1, <1>2, <1>3, <1>4, <1>5, <1>7 DEF Retrieval

LEMMA CorrectiveProgresses == ASSUME PoolTypeOK, ProgressInv, Corrective PROVE ProgressInv'
<1>1. CASE Sufficient
  <2>1. PICK missing \in Complaints : rounds' = Append(rounds, Round(missing, FALSE, 0))
    BY <1>1 DEF Sufficient
  <2>2. Round(missing, FALSE, 0) \in RoundType /\ ~Round(missing, FALSE, 0).triggered
    BY FieldsOfRound
  <2>3. RoundsMakeProgress'
    BY <1>1, <2>1, <2>2, RoundEnds DEF Sufficient, InLoop
  <2> QED
    BY <1>1, <2>3 DEF Sufficient, ProgressInv, InLoop
<1>2. CASE EvaluatorRaises
  BY <1>2 DEF EvaluatorRaises, ProgressInv, InLoop, RoundsMakeProgress
<1>3. CASE SameComplaint
  <2>1. Round(last, FALSE, 0) \in RoundType /\ ~Round(last, FALSE, 0).triggered
    BY FieldsOfRound DEF PoolTypeOK
  <2>a. rounds' = Append(rounds, Round(last, FALSE, 0)) /\ InLoop
    BY <1>3 DEF SameComplaint, InLoop
  <2>2. RoundsMakeProgress'
    BY <2>1, <2>a, RoundEnds
  <2> QED
    BY <1>3, <2>2 DEF SameComplaint, ProgressInv, InLoop
<1>4. CASE Insufficient
  <2>1. last' # last /\ rounds' = rounds /\ pc' = "requery" /\ pc = "evaluate"
    BY <1>4 DEF Insufficient
  <2> QED
    BY <2>1 DEF ProgressInv, InLoop, RoundsMakeProgress
<1>5. CASE Requery \/ RequeryFails
  <2>1. last' = last /\ rounds' = rounds /\ pc' = pc
    BY <1>5 DEF Requery, RequeryFails
  <2> QED
    BY <2>1 DEF ProgressInv, InLoop, RoundsMakeProgress
<1>6. CASE NothingNew
  <2> DEFINE r == Round(last, TRUE, 0)
  <2>1. r \in RoundType /\ r.missing = last
    BY FieldsOfRound DEF PoolTypeOK
  <2>a. rounds' = Append(rounds, r) /\ pc = "requery" /\ InLoop
    BY <1>6 DEF NothingNew, InLoop
  <2> HIDE DEF r
  <2>2. Len(rounds) > 0 => r.missing # rounds[Len(rounds)].missing
    BY <2>1, <2>a DEF ProgressInv
  <2>3. RoundsMakeProgress'
    BY <2>1, <2>2, <2>a, RoundEnds
  <2> QED
    BY <1>6, <2>3 DEF NothingNew, ProgressInv, InLoop
<1>7. CASE Merge
  <2>1. Len(fresh) \in Nat \ {0}
    BY <1>7 DEF Merge, PoolTypeOK
  <2> DEFINE r == Round(last, TRUE, Len(fresh))
  <2>2. r \in RoundType /\ r.missing = last /\ r.triggered /\ r.added = Len(fresh)
    BY <2>1, FieldsOfRound DEF PoolTypeOK
  <2>a. rounds' = Append(rounds, r)
    BY <1>7 DEF Merge
  <2> HIDE DEF r
  <2>3. Len(rounds) > 0 => r.missing # rounds[Len(rounds)].missing
    BY <1>7, <2>2 DEF Merge, ProgressInv
  <2>4. InLoop
    BY <1>7 DEF Merge, InLoop
  <2>5. /\ RoundsMakeProgress'
        /\ Len(rounds') = Len(rounds) + 1 /\ Len(rounds) \in Nat
        /\ rounds'[Len(rounds')] = r
        /\ \A i \in 1..Len(rounds) : rounds'[i].triggered /\ rounds'[i].added > 0
    BY <2>2, <2>3, <2>4, <2>a, RoundEnds
  <2>6. \A i \in 1..Len(rounds') : rounds'[i].triggered /\ rounds'[i].added > 0
    BY <2>1, <2>2, <2>5
  <2>7. pc' = "evaluate" => Len(rounds') < MaxRounds
    BY <1>7, <2>5, EvidenceAssumption DEF Merge, RoundsMakeProgress
  <2>8. pc' \in {"decide", "evaluate"} /\ last' = last
    BY <1>7 DEF Merge
  <2> QED
    BY <2>2, <2>5, <2>6, <2>7, <2>8 DEF ProgressInv, InLoop
<1> QED
  BY <1>1, <1>2, <1>3, <1>4, <1>5, <1>6, <1>7 DEF Corrective

\* RoundsMakeProgress, whatever the evaluator answers and the searches find.
THEOREM LoopMakesProgress == PoolSpec => []RoundsMakeProgress
<1>1. PoolInit => ProgressInv
  BY EvidenceAssumption DEF PoolInit, ProgressInv, RoundsMakeProgress, InLoop
<1>2. Types /\ ProgressInv /\ [PoolNext]_poolVars => ProgressInv'
  <2> SUFFICES ASSUME Types, ProgressInv, [PoolNext]_poolVars PROVE ProgressInv'
    OBVIOUS
  <2>1. CASE Decide
    BY <2>1 DEF Decide, ProgressInv, InLoop, RoundsMakeProgress
  <2>2. CASE CorpusChanges
    BY <2>2 DEF CorpusChanges, Withdraw, Publish, ProgressInv, InLoop, RoundsMakeProgress
  <2>3. CASE UNCHANGED poolVars
    BY <2>3 DEF poolVars, ProgressInv, InLoop, RoundsMakeProgress
  <2>4. CASE Retrieval /\ pc # "requery"
    BY <2>4, RetrievalProgresses DEF Types
  <2>5. CASE Retrieval /\ pc = "requery"
    <3>1. EmbeddingRetried
      BY <2>5 DEF Retrieval, Rewrite, Search, SearchFails, FuseNext, Rerank, VectorSearch,
                  LexicalSearch
    <3> QED
      BY <3>1 DEF EmbeddingRetried, ProgressInv, InLoop, RoundsMakeProgress
  <2> QED
    BY <2>1, <2>2, <2>3, <2>4, <2>5, CorrectiveProgresses DEF PoolNext, Types
<1>3. ProgressInv => RoundsMakeProgress
  BY DEF ProgressInv
<1> QED
  BY <1>1, <1>2, <1>3, InitTypes, NextTypes, PTL DEF PoolSpec

-----------------------------------------------------------------------------
(* EvidencePool: the trace of the rounds adds up *)

Distinct(hits) == \A i, j \in DOMAIN hits : hits[i].chunk = hits[j].chunk => i = j

LEMMA DistinctCount ==
  ASSUME NEW h \in Seq(Hits), Distinct(h)
  PROVE  IsFiniteSet(ChunksOf(h)) /\ Cardinality(ChunksOf(h)) = Len(h)
<1> DEFINE f == [i \in 1..Len(h) |-> h[i].chunk]
           S == ChunksOf(h)
<1>1. DOMAIN h = 1..Len(h) /\ Len(h) \in Nat
  BY DomainOfSeq
<1>2. S = {f[i] : i \in 1..Len(h)} /\ f \in [1..Len(h) -> S]
  BY <1>1 DEF ChunksOf
<1>3. \A i, j \in 1..Len(h) : f[i] = f[j] => i = j
  BY <1>1 DEF Distinct
<1>4. DOMAIN f = 1..Len(h)
  OBVIOUS
<1> HIDE DEF f, S
<1>5. f \in Bijection(1..Len(h), S)
  BY <1>2, <1>3, <1>4 DEF Bijection, Injection, Surjection, IsInjective
<1>6. ExistsBijection(1..Len(h), S)
  BY <1>5 DEF ExistsBijection
<1>7. IsFiniteSet(1..Len(h)) /\ Cardinality(1..Len(h)) = Len(h)
  <2>1. 1 \in Int /\ Len(h) \in Int
    BY <1>1
  <2>2. Cardinality(1..Len(h)) = IF 1 > Len(h) THEN 0 ELSE Len(h) - 1 + 1
    BY <2>1, FS_Interval
  <2> QED
    BY <1>1, <2>1, <2>2, FS_Interval
<1>8. IsFiniteSet(S) /\ Cardinality(S) = Cardinality(1..Len(h))
  BY <1>6, <1>7, FS_Bijection
<1> QED
  BY <1>7, <1>8 DEF S

LEMMA RerankedDistinct ==
  ASSUME NEW C \in SUBSET Chunks, NEW r \in Reranked(C)
  PROVE  Distinct(r)
<1> DEFINE n == IF Cardinality(C) < TopK THEN Cardinality(C) ELSE TopK
<1>1. /\ DOMAIN r = 1..n
      /\ \A i, j \in 1..n : i < j => r[i].chunk # r[j].chunk
  BY DEF Reranked
<1>2. \A i, j \in 1..n : i \in Int /\ j \in Int
  OBVIOUS
<1> HIDE DEF n
<1>3. \A i, j \in 1..n : i # j => i < j \/ j < i
  BY <1>2
<1> QED
  BY <1>1, <1>3 DEF Distinct

LEMMA PickedDistinct ==
  ASSUME NEW h \in Seq(Hits), Distinct(h), NEW P \in SUBSET (DOMAIN h), NEW r \in Picked(h, P)
  PROVE  Distinct(r)
<1>1. Cardinality(P) \in Nat
  BY DomainOfSeq, FS_Subset, FS_CardinalityType
<1>2. PICK p \in [1..Cardinality(P) -> P] :
        /\ r = [i \in 1..Cardinality(P) |-> h[p[i]]]
        /\ \A i, j \in 1..Cardinality(P) : i < j => p[i] < p[j]
  BY DEF Picked
<1>3. ASSUME NEW i \in DOMAIN r, NEW j \in DOMAIN r, r[i].chunk = r[j].chunk
      PROVE  i = j
  <2>1. i \in 1..Cardinality(P) /\ j \in 1..Cardinality(P) /\ r[i] = h[p[i]] /\ r[j] = h[p[j]]
    BY <1>2
  <2>2. p[i] \in DOMAIN h /\ p[j] \in DOMAIN h
    BY <1>2, <2>1
  <2>3. p[i] = p[j]
    BY <1>3, <2>1, <2>2 DEF Distinct
  <2>4. PICK x \in 1..Len(h) : x = p[i]
    BY <2>2
  <2>5. ~(p[i] < p[j]) /\ ~(p[j] < p[i])
    BY <2>3, <2>4
  <2>6. ~(i < j) /\ ~(j < i)
    BY <1>2, <2>1, <2>5
  <2> QED
    BY <1>1, <2>1, <2>6
<1> QED
  BY <1>3 DEF Distinct

LEMMA SortedDistinct ==
  ASSUME NEW h \in Seq(Hits), Distinct(h), NEW r \in SortByScore(h)
  PROVE  Distinct(r)
<1>1. PICK q \in [DOMAIN h -> DOMAIN h] :
        /\ r = [i \in DOMAIN h |-> h[q[i]]]
        /\ \A i, j \in DOMAIN h :
             i < j => \/ h[q[i]].score > h[q[j]].score
                      \/ h[q[i]].score = h[q[j]].score /\ q[i] < q[j]
  BY DEF SortByScore
<1>2. DOMAIN h = 1..Len(h) /\ Len(h) \in Nat /\ \A i \in DOMAIN h : h[i] \in Hits
  BY DomainOfSeq
<1>3. ASSUME NEW i \in DOMAIN r, NEW j \in DOMAIN r, r[i].chunk = r[j].chunk
      PROVE  i = j
  <2>1. i \in DOMAIN h /\ j \in DOMAIN h /\ r[i] = h[q[i]] /\ r[j] = h[q[j]]
    BY <1>1
  <2>2. q[i] = q[j]
    BY <1>1, <1>3, <2>1 DEF Distinct
  <2>3. PICK x \in 1..Len(h) : x = q[i]
    BY <1>1, <1>2, <2>1
  <2>4. PICK s \in Nat : s = h[x].score
    BY <1>2, EvidenceAssumption DEF Hits
  <2>5. ~(s > s) /\ ~(x < x)
    OBVIOUS
  <2>6. ~(i < j) /\ ~(j < i)
    BY <1>1, <2>1, <2>2, <2>3, <2>4, <2>5
  <2> QED
    BY <1>2, <2>1, <2>6
<1> QED
  BY <1>3 DEF Distinct

LEMMA TakeDistinct ==
  ASSUME NEW h \in Seq(Hits), Distinct(h), NEW n \in Nat
  PROVE  Distinct(Take(h, n)) /\ ChunksOf(Take(h, n)) \subseteq ChunksOf(h)
<1>1. /\ DOMAIN Take(h, n) \subseteq DOMAIN h
      /\ \A i \in DOMAIN Take(h, n) : Take(h, n)[i] = h[i]
  BY TakeKeeps
<1> QED
  BY <1>1 DEF Distinct, ChunksOf

LEMMA JoinedDistinct ==
  ASSUME NEW g \in Seq(Hits), Distinct(g), NEW h \in Seq(Hits), Distinct(h),
         ChunksOf(g) \cap ChunksOf(h) = {}
  PROVE  Distinct(g \o h)
<1>1. DOMAIN (g \o h) = 1..(Len(g) + Len(h)) /\ Len(g) \in Nat /\ Len(h) \in Nat
  OBVIOUS
<1>2. \A i \in DOMAIN (g \o h) :
        \/ i \in DOMAIN g /\ (g \o h)[i] = g[i]
        \/ i > Len(g) /\ i - Len(g) \in DOMAIN h /\ (g \o h)[i] = h[i - Len(g)]
  OBVIOUS
<1>3. ASSUME NEW i \in DOMAIN (g \o h), NEW j \in DOMAIN (g \o h),
             (g \o h)[i].chunk = (g \o h)[j].chunk
      PROVE  i = j
  <2>1. CASE i \in DOMAIN g /\ (g \o h)[i] = g[i] /\ j \in DOMAIN g /\ (g \o h)[j] = g[j]
    BY <1>3, <2>1 DEF Distinct
  <2>2. CASE /\ i > Len(g) /\ i - Len(g) \in DOMAIN h /\ (g \o h)[i] = h[i - Len(g)]
             /\ j > Len(g) /\ j - Len(g) \in DOMAIN h /\ (g \o h)[j] = h[j - Len(g)]
    <3>1. i - Len(g) = j - Len(g)
      BY <1>3, <2>2 DEF Distinct
    <3> QED
      BY <1>1, <3>1
  <2>3. CASE /\ i \in DOMAIN g /\ (g \o h)[i] = g[i]
             /\ j - Len(g) \in DOMAIN h /\ (g \o h)[j] = h[j - Len(g)]
    <3>1. (g \o h)[i].chunk \in ChunksOf(g) /\ (g \o h)[j].chunk \in ChunksOf(h)
      BY <2>3 DEF ChunksOf
    <3> QED
      BY <1>3, <3>1
  <2>4. CASE /\ j \in DOMAIN g /\ (g \o h)[j] = g[j]
             /\ i - Len(g) \in DOMAIN h /\ (g \o h)[i] = h[i - Len(g)]
    <3>1. (g \o h)[j].chunk \in ChunksOf(g) /\ (g \o h)[i].chunk \in ChunksOf(h)
      BY <2>4 DEF ChunksOf
    <3> QED
      BY <1>3, <3>1
  <2> QED
    BY <1>2, <2>1, <2>2, <2>3, <2>4
<1> QED
  BY <1>3 DEF Distinct

\* What the rounds report as added, in all.
Adds(rs) == [i \in 1..Len(rs) |-> rs[i].added]
SumOf(rs) == CHOOSE f : IsSum(f, Adds(rs), Len(rs))
AddedIn(rs) == SumOf(rs)[Len(rs)]

LEMMA SumOfRounds ==
  ASSUME NEW rs \in Seq(RoundType)
  PROVE  /\ Len(rs) \in Nat
         /\ Adds(rs) \in [1..Len(rs) -> Nat]
         /\ IsSum(SumOf(rs), Adds(rs), Len(rs))
         /\ SumOf(rs) \in [0..Len(rs) -> Nat]
         /\ AddedIn(rs) \in Nat
<1>1. Len(rs) \in Nat
  OBVIOUS
<1>2. \A i \in 1..Len(rs) : rs[i] \in RoundType
  OBVIOUS
<1>3. \A i \in 1..Len(rs) : rs[i].added \in Nat
  BY <1>2 DEF RoundType
<1>4. Adds(rs) \in [1..Len(rs) -> Nat]
  BY <1>3 DEF Adds
<1>5. \E f : IsSum(f, Adds(rs), Len(rs))
  BY <1>1, <1>4, SumExists
<1>6. IsSum(SumOf(rs), Adds(rs), Len(rs))
  BY <1>5 DEF SumOf
<1>7. SumOf(rs) \in [0..Len(rs) -> Nat]
  BY <1>1, <1>4, <1>6, SumTypes
<1> QED
  BY <1>1, <1>4, <1>6, <1>7 DEF AddedIn

LEMMA NothingAdded == AddedIn(<<>>) = 0
<1>1. <<>> \in Seq(RoundType) /\ Len(<<>>) = 0
  OBVIOUS
<1>2. IsSum(SumOf(<<>>), Adds(<<>>), 0)
  BY <1>1, SumOfRounds
<1> QED
  BY <1>1, <1>2 DEF IsSum, AddedIn

LEMMA OneMoreRound ==
  ASSUME NEW rs \in Seq(RoundType), NEW r \in RoundType, NEW ss, ss = Append(rs, r)
  PROVE  AddedIn(ss) = AddedIn(rs) + r.added
<1>1. ss \in Seq(RoundType) /\ Len(ss) = Len(rs) + 1 /\ Len(rs) \in Nat
  OBVIOUS
<1>2. \A k \in 1..Len(rs) : ss[k] = rs[k]
  OBVIOUS
<1>3. ss[Len(ss)] = r
  OBVIOUS
<1>4. Adds(ss)[Len(ss)] = r.added
  BY <1>1, <1>3 DEF Adds
<1>5. \A k \in 1..Len(rs) : Adds(ss)[k] = Adds(rs)[k]
  BY <1>1, <1>2 DEF Adds
<1>6. IsSum(SumOf(rs), Adds(rs), Len(rs)) /\ IsSum(SumOf(ss), Adds(ss), Len(rs) + 1)
  BY <1>1, SumOfRounds
<1>7. SumOf(ss)[Len(rs) + 1] = SumOf(rs)[Len(rs)] + Adds(ss)[Len(rs) + 1]
  <2>1. PICK n \in Nat : n = Len(rs)
    BY <1>1
  <2>2. /\ IsSum(SumOf(rs), Adds(rs), n) /\ IsSum(SumOf(ss), Adds(ss), n + 1)
        /\ \A k \in 1..n : Adds(ss)[k] = Adds(rs)[k]
    BY <1>5, <1>6, <2>1
  <2>3. SumOf(ss)[n + 1] = SumOf(rs)[n] + Adds(ss)[n + 1]
    BY <2>2, NextSum
  <2> QED
    BY <2>1, <2>3
<1> QED
  BY <1>1, <1>4, <1>7 DEF AddedIn

\* The property's recursive function counts the same.
LEMMA AddedIsSum ==
  ASSUME NEW rs \in Seq(RoundType)
  PROVE  LET added[i \in 0..Len(rs)] == IF i = 0 THEN 0 ELSE added[i - 1] + rs[i].added
         IN  added[Len(rs)] = AddedIn(rs)
<1> DEFINE n == Len(rs)
           F(g) == [i \in 0..n |-> IF i = 0 THEN 0 ELSE g[i - 1] + rs[i].added]
           G(g) == [i \in 0..n |-> IF i = 0 THEN 0 ELSE g[i - 1] + Adds(rs)[i]]
           c == CHOOSE g : g = F(g)
<1>1. n \in Nat /\ \A i \in 1..n : Adds(rs)[i] = rs[i].added
  BY DEF Adds
<1>2. ASSUME NEW g PROVE F(g) = G(g)
  BY <1>1
<1>3. \A g : g = G(g) <=> IsSum(g, Adds(rs), n)
  BY DEF IsSum
<1>4. \A g : g = F(g) <=> IsSum(g, Adds(rs), n)
  <2> HIDE DEF F, G
  <2> QED
    BY <1>2, <1>3
<1>5. \E g : IsSum(g, Adds(rs), n)
  BY SumOfRounds
<1>6. IsSum(c, Adds(rs), n)
  <2>1. c = F(c)
    <3> HIDE DEF F
    <3> QED
      BY <1>4, <1>5
  <2> HIDE DEF c, F
  <2> QED
    BY <1>4, <2>1
<1>7. c[n] = SumOf(rs)[n]
  <2>1. IsSum(SumOf(rs), Adds(rs), n) /\ Adds(rs) \in [1..n -> Nat] /\ n \in 0..n
    BY <1>1, SumOfRounds
  <2>2. \A k \in 1..n : Adds(rs)[k] = Adds(rs)[k]
    OBVIOUS
  <2> HIDE DEF c, n
  <2> QED
    BY <1>1, <1>6, <2>1, <2>2, SumExtends
<1> QED
  BY <1>7 DEF AddedIn

\* The chunks seen are those of the first retrieval, those the rounds report and those
\* of the round underway.
TraceInv ==
  /\ Distinct(evidence) /\ Distinct(fresh)
  /\ ChunksOf(evidence) \cap ChunksOf(fresh) = {}
  /\ ChunksOf(evidence) \subseteq seen /\ ChunksOf(fresh) \subseteq seen
  /\ Cardinality(seen) = Len(first) + AddedIn(rounds) + Len(fresh)
  /\ pc # "requery" => fresh = <<>>
  /\ pc \in {"rewrite", "search", "fuse", "vector", "lexical"} => rounds = <<>>

LEMMA CollectTraces ==
  ASSUME PoolTypeOK, TraceInv, NEW C \in SUBSET Chunks, NEW hits \in Reranked(C),
         NEW otherwise, otherwise # "requery", rounds = <<>>, fresh = <<>>,
         Collect(hits, otherwise)
  PROVE  TraceInv'
<1>1. hits \in Seq(Hits) /\ Distinct(hits)
  BY RerankedHits, RerankedDistinct
<1>2. /\ evidence' = hits /\ first' = hits /\ seen' = ChunksOf(hits)
      /\ fresh' = <<>> /\ rounds' = <<>> /\ pc' # "requery"
  BY DEF Collect
<1>3. Cardinality(ChunksOf(hits)) = Len(hits) /\ Len(hits) \in Nat
  BY <1>1, DistinctCount
<1>4. Len(first') + AddedIn(rounds') + Len(fresh') = Len(hits)
  BY <1>2, <1>3, NothingAdded
<1>5. ChunksOf(<<>>) = {} /\ Distinct(<<>>)
  BY DEF ChunksOf, Distinct
<1> QED
  BY <1>1, <1>2, <1>3, <1>4, <1>5 DEF TraceInv

LEMMA RetrievalTraces ==
  ASSUME PoolTypeOK, TraceInv, Retrieval PROVE TraceInv'
<1>1. CASE Rewrite \/ Search \/ EmbeddingRetried \/ SearchFails \/ FuseNext
  <2>1. UNCHANGED <<evidence, fresh, seen, rounds, first>>
    BY <1>1 DEF Rewrite, Search, EmbeddingRetried, SearchFails, FuseNext
  <2>2. pc' = pc \/ (pc # "requery" /\ pc \in {"rewrite", "search", "fuse", "vector", "lexical"})
    BY <1>1 DEF Rewrite, Search, EmbeddingRetried, SearchFails, FuseNext
  <2>3. pc' = pc \/ pc' # "requery"
    BY <1>1 DEF Rewrite, Search, EmbeddingRetried, SearchFails, FuseNext
  <2> QED
    BY <2>1, <2>2, <2>3 DEF TraceInv
<1>2. CASE Rerank
  <2>1. Range(fused) \in SUBSET Chunks
    BY DomainOfSeq DEF Range, PoolTypeOK
  <2>2. pc = "fuse" /\ \E hits \in Reranked(Range(fused)) : Collect(hits, "vector")
    BY <1>2 DEF Rerank
  <2>3. rounds = <<>> /\ fresh = <<>>
    BY <2>2 DEF TraceInv
  <2> QED
    BY <2>1, <2>2, <2>3, CollectTraces
<1>3. CASE VectorSearch
  <2>1. RetrieveDense \subseteq Chunks
    BY DEF RetrieveDense, PoolTypeOK
  <2>2. /\ pc = "vector"
        /\ \E ids \in SUBSET RetrieveDense : \E hits \in Reranked(ids) : Collect(hits, "lexical")
    BY <1>3 DEF VectorSearch
  <2>3. rounds = <<>> /\ fresh = <<>>
    BY <2>2 DEF TraceInv
  <2> QED
    BY <2>1, <2>2, <2>3, CollectTraces
<1>4. CASE LexicalSearch
  <2>1. RetrieveLexical \subseteq Chunks
    BY DEF RetrieveLexical, PoolTypeOK
  <2>2. /\ pc = "lexical"
        /\ \E ids \in SUBSET RetrieveLexical : \E hits \in Reranked(ids) : Collect(hits, "declined")
    BY <1>4 DEF LexicalSearch
  <2>3. rounds = <<>> /\ fresh = <<>>
    BY <2>2 DEF TraceInv
  <2> QED
    BY <2>1, <2>2, <2>3, CollectTraces
<1> QED
  BY <1>1, <1>2, <1>3, <1>4 DEF Retrieval

\* The chunks a suggested query adds are counted once.
LEMMA RequeryTraces == ASSUME PoolTypeOK, TraceInv, Requery PROVE TraceInv'
<1>1. PICK ids \in SUBSET (RetrieveDense \cup RetrieveLexical) :
        \E hits \in Reranked(ids) :
          \E news \in Picked(hits, {i \in DOMAIN hits : hits[i].chunk \notin seen}) :
            /\ fresh' = fresh \o news
            /\ seen' = seen \cup ChunksOf(news)
  BY DEF Requery
<1>2. ids \in SUBSET Chunks
  BY DEF PoolTypeOK, RetrieveDense, RetrieveLexical
<1>3. PICK hits \in Reranked(ids) :
          \E news \in Picked(hits, {i \in DOMAIN hits : hits[i].chunk \notin seen}) :
            /\ fresh' = fresh \o news
            /\ seen' = seen \cup ChunksOf(news)
  BY <1>1
<1> DEFINE P == {i \in DOMAIN hits : hits[i].chunk \notin seen}
<1>4. PICK news \in Picked(hits, P) :
            /\ fresh' = fresh \o news
            /\ seen' = seen \cup ChunksOf(news)
  BY <1>3
<1>5. P \in SUBSET (DOMAIN hits) /\ \A j \in P : hits[j].chunk \notin seen
  OBVIOUS
<1> HIDE DEF P
<1>6. hits \in Seq(Hits) /\ Distinct(hits)
  BY <1>2, RerankedHits, RerankedDistinct
<1>7. /\ news \in Seq(Hits) /\ Distinct(news)
      /\ \A i \in DOMAIN news : \E j \in P : news[i] = hits[j]
  BY <1>4, <1>5, <1>6, PickedKeeps, PickedDistinct
<1>8. ChunksOf(news) \cap seen = {}
  BY <1>5, <1>7 DEF ChunksOf
<1>9. /\ fresh \in Seq(Hits) /\ seen \subseteq Chunks /\ Len(fresh) \in Nat
      /\ Len(first) \in Nat /\ AddedIn(rounds) \in Nat /\ Len(news) \in Nat
  BY <1>7, SumOfRounds DEF PoolTypeOK
<1>10. Distinct(fresh')
  BY <1>4, <1>7, <1>8, <1>9, JoinedDistinct DEF TraceInv
<1>11. ChunksOf(fresh') \subseteq ChunksOf(fresh) \cup ChunksOf(news)
  BY <1>4, <1>7, <1>9, JoinedChunks
<1>12. Cardinality(seen') = Cardinality(seen) + Len(news)
  <2>1. IsFiniteSet(seen) /\ Cardinality(seen) \in Nat
    BY <1>9, EvidenceAssumption, FS_Subset, FS_CardinalityType
  <2>2. IsFiniteSet(ChunksOf(news)) /\ Cardinality(ChunksOf(news)) = Len(news)
    BY <1>7, DistinctCount
  <2>3. seen \cap ChunksOf(news) = {} /\ Cardinality({}) = 0
    BY <1>8, FS_EmptySet
  <2>4. Cardinality(seen \cup ChunksOf(news)) = Cardinality(seen) + Cardinality(ChunksOf(news)) - 0
    BY <2>1, <2>2, <2>3, FS_Union
  <2> QED
    BY <1>4, <1>9, <2>1, <2>2, <2>4
<1>13. Len(fresh') = Len(fresh) + Len(news)
  BY <1>4, <1>7, <1>9
<1>14. /\ evidence' = evidence /\ rounds' = rounds /\ first' = first /\ pc' = "requery"
       /\ pc = "requery"
  BY DEF Requery
<1>15. Cardinality(seen') = Len(first') + AddedIn(rounds') + Len(fresh')
  BY <1>9, <1>12, <1>13, <1>14 DEF TraceInv
<1>16. ChunksOf(evidence') \cap ChunksOf(fresh') = {}
  BY <1>8, <1>11, <1>14 DEF TraceInv
<1>17. ChunksOf(evidence') \subseteq seen' /\ ChunksOf(fresh') \subseteq seen'
  BY <1>4, <1>11, <1>14 DEF TraceInv
<1> QED
  BY <1>10, <1>14, <1>15, <1>16, <1>17 DEF TraceInv

LEMMA MergeTraces == ASSUME PoolTypeOK, TraceInv, Merge PROVE TraceInv'
<1>1. PICK sorted \in SortByScore(evidence \o fresh) :
        evidence' = Take(sorted, Cap(Len(fresh)))
  BY DEF Merge
<1>2. /\ evidence \in Seq(Hits) /\ fresh \in Seq(Hits) /\ evidence \o fresh \in Seq(Hits)
      /\ Len(fresh) \in Nat /\ Len(first) \in Nat /\ rounds \in Seq(RoundType)
  BY DEF PoolTypeOK
<1>3. Cap(Len(fresh)) \in Nat
  BY <1>2, EvidenceAssumption DEF Cap
<1>4. Distinct(evidence \o fresh) /\ ChunksOf(evidence \o fresh) \subseteq seen
  BY <1>2, JoinedDistinct, JoinedChunks DEF TraceInv
<1>5. sorted \in Seq(Hits) /\ Distinct(sorted) /\ ChunksOf(sorted) \subseteq seen
  BY <1>1, <1>2, <1>4, SortedHits, SortedDistinct
<1>6. Distinct(evidence') /\ ChunksOf(evidence') \subseteq seen
  BY <1>1, <1>3, <1>5, TakeDistinct
<1>7. /\ fresh' = <<>> /\ seen' = seen /\ first' = first /\ pc' \in {"decide", "evaluate"}
      /\ rounds' = Append(rounds, Round(last, TRUE, Len(fresh)))
  BY DEF Merge
<1>8. Round(last, TRUE, Len(fresh)) \in RoundType /\ Round(last, TRUE, Len(fresh)).added = Len(fresh)
  BY <1>2, FieldsOfRound DEF PoolTypeOK
<1>9. AddedIn(rounds') = AddedIn(rounds) + Len(fresh) /\ AddedIn(rounds) \in Nat
  BY <1>2, <1>7, <1>8, OneMoreRound, SumOfRounds
<1>10. Cardinality(seen') = Len(first') + AddedIn(rounds') + Len(fresh')
  <2>1. Len(fresh') = 0 /\ Len(first') = Len(first) /\ Cardinality(seen') = Cardinality(seen)
    BY <1>7
  <2>2. Cardinality(seen) = Len(first) + AddedIn(rounds) + Len(fresh)
    BY DEF TraceInv
  <2> QED
    BY <1>2, <1>9, <2>1, <2>2
<1>11. ChunksOf(<<>>) = {} /\ Distinct(<<>>)
  BY DEF ChunksOf, Distinct
<1> QED
  BY <1>6, <1>7, <1>10, <1>11 DEF TraceInv

LEMMA CorrectiveTraces == ASSUME PoolTypeOK, TraceInv, Corrective PROVE TraceInv'
<1>1. ASSUME NEW m \in Complaints \cup {NoComplaint}, NEW t \in BOOLEAN,
             rounds' = Append(rounds, Round(m, t, 0)),
             UNCHANGED <<evidence, fresh, seen, first>>, fresh = <<>>, pc' = "decide"
      PROVE  TraceInv'
  <2>1. Round(m, t, 0) \in RoundType /\ Round(m, t, 0).added = 0
    BY FieldsOfRound
  <2>2. AddedIn(rounds') = AddedIn(rounds) + 0 /\ AddedIn(rounds) \in Nat
    BY <1>1, <2>1, OneMoreRound, SumOfRounds DEF PoolTypeOK
  <2>3. AddedIn(rounds') = AddedIn(rounds)
    BY <2>2
  <2> QED
    BY <1>1, <2>3 DEF TraceInv
<1>2. CASE Sufficient
  BY <1>1, <1>2 DEF Sufficient, TraceInv
<1>3. CASE SameComplaint
  BY <1>1, <1>3 DEF SameComplaint, TraceInv, PoolTypeOK
<1>4. CASE NothingNew
  BY <1>1, <1>4 DEF NothingNew, PoolTypeOK
<1>5. CASE EvaluatorRaises \/ RequeryFails
  <2>1. UNCHANGED <<evidence, fresh, seen, first, rounds>>
    BY <1>5 DEF EvaluatorRaises, RequeryFails
  <2>2. pc' = pc \/ (pc = "evaluate" /\ pc' = "decide")
    BY <1>5 DEF EvaluatorRaises, RequeryFails
  <2> QED
    BY <2>1, <2>2 DEF TraceInv
<1>6. CASE Insufficient
  <2>1. /\ UNCHANGED <<evidence, seen, first, rounds>>
        /\ fresh = <<>> /\ fresh' = <<>> /\ pc' = "requery"
    BY <1>6 DEF Insufficient, TraceInv
  <2> QED
    BY <2>1 DEF TraceInv
<1> QED
  BY <1>2, <1>3, <1>4, <1>5, <1>6, RequeryTraces, MergeTraces DEF Corrective

LEMMA TraceHolds == ASSUME PoolTypeOK, TraceInv PROVE TraceAddsUp
<1>1. evidence \in Seq(Hits) /\ Cardinality(ChunksOf(evidence)) = Len(evidence)
  BY DistinctCount DEF PoolTypeOK, TraceInv
<1>2. rounds \in Seq(RoundType)
  BY DEF PoolTypeOK
<1>3. LET added[i \in 0..Len(rounds)] == IF i = 0 THEN 0 ELSE added[i - 1] + rounds[i].added
      IN  added[Len(rounds)] = AddedIn(rounds)
  BY <1>2, AddedIsSum
<1> QED
  BY <1>1, <1>3 DEF TraceAddsUp, TraceInv

\* TraceAddsUp, whatever the searches of a round find of what earlier ones found.
THEOREM TraceIsExact == PoolSpec => []TraceAddsUp
<1>1. PoolInit => TraceInv
  <2>1. Cardinality({}) = 0 /\ Len(<<>>) = 0 /\ 0 + 0 + 0 = 0
    BY FS_EmptySet
  <2> QED
    BY <2>1, NothingAdded DEF PoolInit, TraceInv, Distinct, ChunksOf
<1>2. Types /\ TraceInv /\ [PoolNext]_poolVars => TraceInv'
  <2> SUFFICES ASSUME Types, TraceInv, [PoolNext]_poolVars PROVE TraceInv'
    OBVIOUS
  <2>1. CASE Decide
    <3>1. /\ UNCHANGED <<evidence, fresh, seen, rounds, first>>
          /\ pc = "decide" /\ pc' \in {"answered", "declined"}
      BY <2>1 DEF Decide
    <3> QED
      BY <3>1 DEF TraceInv
  <2>2. CASE CorpusChanges
    <3>1. UNCHANGED <<evidence, fresh, seen, rounds, first, pc>>
      BY <2>2 DEF CorpusChanges, Withdraw, Publish
    <3> QED
      BY <3>1 DEF TraceInv
  <2>3. CASE UNCHANGED poolVars
    BY <2>3 DEF poolVars, TraceInv
  <2> QED
    BY <2>1, <2>2, <2>3, RetrievalTraces, CorrectiveTraces DEF PoolNext, Types
<1>3. Types /\ TraceInv => TraceAddsUp
  BY TraceHolds DEF Types
<1> QED
  BY <1>1, <1>2, <1>3, InitTypes, NextTypes, PTL DEF PoolSpec

-----------------------------------------------------------------------------
(* EvidencePool: what all channels agree on survives the fusion *)

\* The places of a list that were picked, in order.
Places(r, s, P, p) ==
  /\ p \in [1..Len(r) -> P]
  /\ \A k \in 1..Len(r) : r[k] = s[p[k]] /\ k <= p[k]
  /\ \A i, j \in 1..Len(r) : i < j => p[i] < p[j]
  /\ \A x \in P : \E k \in 1..Len(r) : p[k] = x

LEMMA PickedPlaces ==
  ASSUME NEW S, NEW s \in Seq(S), NEW P \in SUBSET (DOMAIN s), NEW r \in Picked(s, P)
  PROVE  /\ r \in Seq(S) /\ Len(r) \in Nat /\ DOMAIN r = 1..Len(r)
         /\ \E p : Places(r, s, P, p)
<1> DEFINE n == Cardinality(P)
<1>1. n \in Nat /\ IsFiniteSet(P)
  BY DomainOfSeq, FS_Subset, FS_CardinalityType
<1>2. PICK p \in [1..n -> P] :
        /\ r = [i \in 1..n |-> s[p[i]]]
        /\ \A i, j \in 1..n : i < j => p[i] < p[j]
  BY DEF Picked
<1>3. r \in Seq(S)
  BY PickedKeeps
<1>4. Len(r) = n /\ DOMAIN r = 1..n
  BY <1>1, <1>2, <1>3
<1>5. P \subseteq 1..Len(s) /\ Len(s) \in Nat
  BY DomainOfSeq
<1>6. \A k \in 1..n : p[k] \in P /\ p[k] \in Nat /\ p[k] >= 1
  BY <1>2, <1>5
<1> HIDE DEF n
<1>7. \A i, j \in 1..n : p[i] = p[j] => i = j
  <2>1. ASSUME NEW i \in 1..n, NEW j \in 1..n, p[i] = p[j] PROVE i = j
    <3>1. ~(i < j) /\ ~(j < i)
      BY <1>2, <1>6, <2>1
    <3> QED
      BY <3>1
  <2> QED
    BY <2>1
<1>8. ASSUME NEW k \in 1..n PROVE k <= p[k]
  <2> DEFINE T == {i \in 1..n : p[i] < i}
  <2> SUFFICES ASSUME T # {} PROVE FALSE
    BY <1>6
  <2>1. T \in SUBSET Nat
    OBVIOUS
  <2>2. PICK i \in T : \A j \in T : i <= j
    <3> HIDE DEF T
    <3> QED
      BY <2>1, Least
  <2>3. i \in 1..n /\ p[i] < i /\ p[i] >= 1 /\ p[i] \in Nat
    BY <1>6, <2>2
  <2>4. i - 1 \in 1..n /\ i - 1 < i
    <3>1. PICK x \in Nat : x = p[i]
      BY <2>3
    <3>2. i > 1 /\ i <= n
      BY <2>3, <3>1
    <3> QED
      BY <1>1, <2>3, <3>2
  <2>5. ~(p[i - 1] < i - 1)
    BY <2>2, <2>4
  <2>6. p[i - 1] < p[i] /\ p[i - 1] \in Nat
    BY <1>2, <1>6, <2>3, <2>4
  <2> QED
    BY <2>3, <2>4, <2>5, <2>6
<1>9. \A x \in P : \E k \in 1..n : p[k] = x
  <2>1. p \in Injection(1..n, P)
    BY <1>2, <1>7 DEF Injection, IsInjective
  <2>2. Cardinality(1..n) = Cardinality(P)
    <3>1. 1 \in Int /\ n \in Int
      BY <1>1
    <3>2. Cardinality(1..n) = IF 1 > n THEN 0 ELSE n - 1 + 1
      BY <3>1, FS_Interval
    <3>3. Cardinality(1..n) = n
      BY <1>1, <3>2
    <3> QED
      BY <3>3 DEF n
  <2>3. p \in Surjection(1..n, P)
    BY <1>1, <2>1, <2>2, FS_Injection
  <2> HIDE DEF n
  <2> QED
    BY <2>3 DEF Surjection
<1>10. Places(r, s, P, p)
  BY <1>2, <1>4, <1>8, <1>9 DEF Places
<1> QED
  BY <1>1, <1>3, <1>4, <1>10

\* The chunks of two lists, by their scores.
Ranking(u, s, t) ==
  /\ u \in Seq(Range(s) \cup Range(t))
  /\ \A i, j \in DOMAIN u : u[i] = u[j] => i = j
  /\ \A x \in Range(s) \cup Range(t) : \E i \in DOMAIN u : u[i] = x
  /\ \A i, j \in DOMAIN u : i < j => FusedScore(s, t, u[i]) >= FusedScore(s, t, u[j])

\* The places that stay when a list is diversified.
Kept(u) ==
  {i \in DOMAIN u : Cardinality({j \in 1..(i - 1) : Doc(u[j]) = Doc(u[i])}) < MaxPerDoc}

LEMMA FusedFrom ==
  ASSUME NEW s \in Seq(Chunks), NEW t \in Seq(Chunks), NEW n \in Nat,
         NEW r \in FuseRankedHits(s, t, n)
  PROVE  \E u : /\ u \in Seq(Chunks) /\ Ranking(u, s, t)
                /\ \E d \in Picked(u, Kept(u)) : r = Take(d, n)
<1> DEFINE U == Range(s) \cup Range(t)
<1>1. U \subseteq Chunks
  BY DomainOfSeq DEF Range
<1>2. Cardinality(U) \in Nat /\ IsFiniteSet(U)
  BY <1>1, EvidenceAssumption, FS_Subset, FS_CardinalityType
<1>3. PICK u \in [1..Cardinality(U) -> U] :
        /\ IsInjective(u)
        /\ \A i, j \in DOMAIN u : i < j => FusedScore(s, t, u[i]) >= FusedScore(s, t, u[j])
        /\ \E d \in Diverse(u) : r = Take(d, n)
  BY DEF FuseRankedHits
<1>4. PICK m \in Nat : m = Cardinality(U)
  BY <1>2
<1>5. u \in [1..m -> U] /\ DOMAIN u = 1..m
  BY <1>3, <1>4
<1> HIDE DEF U
<1>6. u \in Seq(U) /\ u \in Seq(Chunks)
  BY <1>1, <1>5
<1>7. \A x \in U : \E i \in DOMAIN u : u[i] = x
  <2>1. u \in Injection(1..m, U)
    BY <1>3, <1>5 DEF Injection
  <2>2. Cardinality(1..m) = Cardinality(U)
    <3>1. 1 \in Int /\ m \in Int
      BY <1>4
    <3>2. Cardinality(1..m) = IF 1 > m THEN 0 ELSE m - 1 + 1
      BY <3>1, FS_Interval
    <3> QED
      BY <1>4, <3>2
  <2>3. u \in Surjection(1..m, U)
    BY <1>2, <2>1, <2>2, FS_Injection
  <2> QED
    BY <1>5, <2>3 DEF Surjection
<1>8. \A i, j \in DOMAIN u : u[i] = u[j] => i = j
  BY <1>3 DEF IsInjective
<1>9. Ranking(u, s, t)
  BY <1>3, <1>6, <1>7, <1>8 DEF Ranking, U
<1>10. \E d \in Picked(u, Kept(u)) : r = Take(d, n)
  BY <1>3 DEF Diverse, Kept
<1> QED
  BY <1>6, <1>9, <1>10

\* The beginning of a list.
LEMMA TakeIs ==
  ASSUME NEW S, NEW s \in Seq(S), NEW n \in Nat
  PROVE  /\ Take(s, n) \in Seq(S) /\ Len(Take(s, n)) \in Nat
         /\ Len(Take(s, n)) = IF Len(s) < n THEN Len(s) ELSE n
         /\ DOMAIN Take(s, n) = 1..Len(Take(s, n))
         /\ \A i \in 1..Len(Take(s, n)) : i \in 1..Len(s) /\ Take(s, n)[i] = s[i]
<1>1. PICK m \in Nat : m = IF Len(s) < n THEN Len(s) ELSE n
  OBVIOUS
<1>2. Take(s, n) = SubSeq(s, 1, m) /\ m <= Len(s)
  BY <1>1 DEF Take
<1>3. SubSeq(s, 1, m) \in Seq(S) /\ Len(SubSeq(s, 1, m)) = m
  BY <1>2, SubSeqProperties
<1>4. \A i \in 1..m : i \in 1..Len(s) /\ SubSeq(s, 1, m)[i] = s[i]
  BY <1>1, <1>2
<1>5. DOMAIN SubSeq(s, 1, m) = 1..m
  BY <1>3
<1> QED
  BY <1>1, <1>2, <1>3, <1>4, <1>5

\* A list a search or a merge returns: no chunk twice, at most n of them, and before
\* each of them fewer than MaxPerDoc of its document.
Listed(r, n) ==
  /\ r \in Seq(Chunks) /\ Len(r) <= n
  /\ \A i, j \in DOMAIN r : r[i] = r[j] => i = j
  /\ \A i \in DOMAIN r : Cardinality({j \in 1..(i - 1) : Doc(r[j]) = Doc(r[i])}) < MaxPerDoc

LEMMA FusedIsListed ==
  ASSUME NEW s \in Seq(Chunks), NEW t \in Seq(Chunks), NEW n \in Nat,
         NEW r \in FuseRankedHits(s, t, n)
  PROVE  Listed(r, n)
<1>1. PICK u \in Seq(Chunks) : /\ Ranking(u, s, t)
                               /\ \E d \in Picked(u, Kept(u)) : r = Take(d, n)
  BY FusedFrom
<1>2. PICK d \in Picked(u, Kept(u)) : r = Take(d, n)
  BY <1>1
<1>3. Kept(u) \in SUBSET (DOMAIN u) /\ DOMAIN u = 1..Len(u) /\ Len(u) \in Nat
  BY <1>1, DomainOfSeq DEF Kept
<1>4. /\ d \in Seq(Chunks) /\ Len(d) \in Nat /\ DOMAIN d = 1..Len(d)
      /\ \E p : Places(d, u, Kept(u), p)
  BY <1>1, <1>2, <1>3, PickedPlaces
<1>5. PICK p : Places(d, u, Kept(u), p)
  BY <1>4
<1>6. /\ r \in Seq(Chunks) /\ Len(r) <= n /\ Len(r) \in Nat /\ DOMAIN r = 1..Len(r)
      /\ \A i \in 1..Len(r) : i \in 1..Len(d) /\ r[i] = d[i]
  <2>1. /\ r \in Seq(Chunks) /\ Len(r) \in Nat
        /\ Len(r) = IF Len(d) < n THEN Len(d) ELSE n
        /\ DOMAIN r = 1..Len(r)
        /\ \A i \in 1..Len(r) : i \in 1..Len(d) /\ r[i] = d[i]
    BY <1>2, <1>4, TakeIs
  <2>2. Len(r) <= n
    BY <1>4, <2>1
  <2> QED
    BY <2>1, <2>2
<1>7. \A i \in 1..Len(r) : r[i] = u[p[i]] /\ p[i] \in Kept(u) /\ p[i] \in 1..Len(u)
  BY <1>3, <1>5, <1>6 DEF Places
<1>8. \A i, j \in 1..Len(r) : i < j => p[i] < p[j]
  BY <1>5, <1>6 DEF Places
<1>9. \A i, j \in 1..Len(r) : p[i] = p[j] => i = j
  <2>1. ASSUME NEW i \in 1..Len(r), NEW j \in 1..Len(r), p[i] = p[j] PROVE i = j
    <3>1. ~(i < j) /\ ~(j < i)
      BY <1>7, <1>8, <2>1
    <3> QED
      BY <1>6, <3>1
  <2> QED
    BY <2>1
<1>10. \A i, j \in DOMAIN r : r[i] = r[j] => i = j
  BY <1>1, <1>3, <1>6, <1>7, <1>9 DEF Ranking
<1>11. ASSUME NEW i \in DOMAIN r
       PROVE  Cardinality({j \in 1..(i - 1) : Doc(r[j]) = Doc(r[i])}) < MaxPerDoc
  <2> DEFINE A == {j \in 1..(i - 1) : Doc(r[j]) = Doc(r[i])}
             B == {j \in 1..(p[i] - 1) : Doc(u[j]) = Doc(u[p[i]])}
             q == [j \in A |-> p[j]]
  <2>1. i \in 1..Len(r) /\ p[i] \in 1..Len(u)
    BY <1>6, <1>7
  <2>2. Cardinality(B) < MaxPerDoc
    BY <1>7, <2>1 DEF Kept
  <2>3. IsFiniteSet(B) /\ Cardinality(B) \in Nat
    <3>1. 1 \in Int /\ p[i] - 1 \in Int
      BY <2>1
    <3>2. IsFiniteSet(1..(p[i] - 1)) /\ B \in SUBSET (1..(p[i] - 1))
      BY <3>1, FS_Interval
    <3> QED
      BY <3>2, FS_Subset, FS_CardinalityType
  <2>4. ASSUME NEW j \in A PROVE j \in 1..Len(r) /\ p[j] \in B
    <3>1. j \in 1..Len(r) /\ j < i
      BY <1>6, <2>1
    <3>2. p[j] < p[i] /\ p[j] \in 1..Len(u)
      BY <1>7, <1>8, <2>1, <3>1
    <3>3. Doc(u[p[j]]) = Doc(u[p[i]])
      BY <1>7, <2>1, <3>1
    <3> QED
      BY <2>1, <3>1, <3>2, <3>3
  <2>5. q \in Injection(A, B)
    <3>1. q \in [A -> B] /\ DOMAIN q = A /\ \A j \in A : q[j] = p[j]
      BY <2>4
    <3> HIDE DEF q, B
    <3>2. \A j, k \in A : q[j] = q[k] => j = k
      BY <1>9, <2>4, <3>1
    <3> QED
      BY <3>1, <3>2 DEF Injection, IsInjective
  <2> HIDE DEF A, B, q
  <2>6. IsFiniteSet(A) /\ Cardinality(A) <= Cardinality(B)
    BY <2>3, <2>5, FS_Injection
  <2>7. Cardinality(A) \in Nat /\ MaxPerDoc \in Nat
    BY <2>6, FS_CardinalityType, EvidenceAssumption
  <2>8. Cardinality(A) < MaxPerDoc
    BY <2>2, <2>3, <2>6, <2>7
  <2> QED
    BY <2>8 DEF A
<1> QED
  BY <1>6, <1>10, <1>11 DEF Listed

LEMMA ListedKeeps ==
  ASSUME NEW n, NEW s, Listed(s, n)
  PROVE  /\ s \in Seq(Chunks) /\ Len(s) \in Nat /\ DOMAIN s = 1..Len(s) /\ Len(s) <= n
         /\ \A i \in 1..Len(s) : s[i] \in Chunks
         /\ \A i, j \in 1..Len(s) : s[i] = s[j] => i = j
         /\ \A x \in Range(s) : \E i \in 1..Len(s) : s[i] = x
         /\ \A i \in 1..Len(s) : s[i] \in Range(s)
<1>1. s \in Seq(Chunks) /\ Len(s) <= n /\ \A i, j \in DOMAIN s : s[i] = s[j] => i = j
  BY DEF Listed
<1>2. DOMAIN s = 1..Len(s) /\ Len(s) \in Nat /\ \A i \in DOMAIN s : s[i] \in Chunks
  BY <1>1, DomainOfSeq
<1> QED
  BY <1>1, <1>2 DEF Range

LEMMA VoteAt ==
  ASSUME NEW n, NEW s, Listed(s, n), NEW i \in 1..Len(s)
  PROVE  VoteIn(s, s[i]) = Vote[i]
<1>1. DOMAIN s = 1..Len(s) /\ s[i] \in Range(s) /\ \A j \in 1..Len(s) : s[j] = s[i] => j = i
  BY ListedKeeps
<1>2. (CHOOSE j \in DOMAIN s : s[j] = s[i]) = i
  BY <1>1
<1> QED
  BY <1>1, <1>2 DEF VoteIn

\* One list alone never gives more than the vote of its first place.
LEMMA VoteBound ==
  ASSUME VotesOutrank, NEW n \in Nat, n <= 2 * TopK, NEW s, Listed(s, n), NEW x
  PROVE  VoteIn(s, x) \in Nat /\ VoteIn(s, x) <= Vote[1]
<1>1. TopK \in Nat /\ TopK > 0 /\ 1 \in 1..(2 * TopK)
  BY EvidenceAssumption
<1>2. Vote[1] \in Nat
  BY <1>1 DEF VotesOutrank
<1>3. CASE x \notin Range(s)
  <2>1. VoteIn(s, x) = 0
    BY <1>3 DEF VoteIn
  <2> QED
    BY <1>2, <2>1
<1>4. CASE x \in Range(s)
  <2>1. PICK i \in 1..Len(s) : s[i] = x
    BY <1>4, ListedKeeps
  <2>2. VoteIn(s, x) = Vote[i]
    BY <2>1, VoteAt
  <2>3. i \in 1..(2 * TopK)
    <3>1. Len(s) \in Nat /\ Len(s) <= n
      BY ListedKeeps
    <3>2. PICK m \in Nat : m = Len(s)
      BY <3>1
    <3> QED
      BY <1>1, <3>1, <3>2
  <2>4. Vote[i] \in Nat /\ (1 < i => Vote[1] > Vote[i])
    BY <1>1, <2>3 DEF VotesOutrank
  <2>5. i = 1 \/ 1 < i
    BY <2>1
  <2> QED
    BY <1>2, <2>2, <2>4, <2>5
<1> QED
  BY <1>3, <1>4

\* The two lists of a merge: the ranking so far and the next channel.
Merged(s, t) == Listed(s, 2 * TopK) /\ Listed(t, TopK)

LEMMA MergedVotes ==
  ASSUME VotesOutrank, NEW s, NEW t, Merged(s, t)
  PROVE  /\ Vote[1] \in Nat
         /\ \A x : /\ VoteIn(s, x) \in Nat /\ VoteIn(s, x) <= Vote[1]
                   /\ VoteIn(t, x) \in Nat /\ VoteIn(t, x) <= Vote[1]
         /\ \A i \in 1..Len(s) : VoteIn(s, s[i]) = Vote[i] /\ i \in 1..(2 * TopK)
         /\ \A i \in 1..Len(t) : VoteIn(t, t[i]) = Vote[i] /\ i \in 1..TopK
<1>1. PICK k \in Nat \ {0} : k = TopK
  BY EvidenceAssumption
<1>2. 2 * k \in Nat /\ k <= 2 * k /\ 2 * k <= 2 * k /\ 1 \in 1..(2 * k)
  OBVIOUS
<1>3. Vote[1] \in Nat
  BY <1>1, <1>2 DEF VotesOutrank
<1>4. ASSUME NEW x
      PROVE  /\ VoteIn(s, x) \in Nat /\ VoteIn(s, x) <= Vote[1]
             /\ VoteIn(t, x) \in Nat /\ VoteIn(t, x) <= Vote[1]
  <2>1. Listed(s, 2 * TopK) /\ Listed(t, TopK) /\ 2 * TopK <= 2 * TopK /\ TopK <= 2 * TopK
        /\ 2 * TopK \in Nat /\ TopK \in Nat
    BY <1>1, <1>2 DEF Merged
  <2> QED
    BY <2>1, VoteBound
<1>5. Len(s) \in Nat /\ Len(s) <= 2 * k /\ Len(t) \in Nat /\ Len(t) <= k
  BY <1>1, ListedKeeps DEF Merged
<1>6. ASSUME NEW i \in 1..Len(s) PROVE VoteIn(s, s[i]) = Vote[i] /\ i \in 1..(2 * TopK)
  <2>1. PICK m \in Nat : m = Len(s)
    BY <1>5
  <2> QED
    BY <1>1, <1>5, <2>1, VoteAt DEF Merged
<1>7. ASSUME NEW i \in 1..Len(t) PROVE VoteIn(t, t[i]) = Vote[i] /\ i \in 1..TopK
  <2>1. PICK m \in Nat : m = Len(t)
    BY <1>5
  <2> QED
    BY <1>1, <1>5, <2>1, VoteAt DEF Merged
<1> QED
  BY <1>3, <1>4, <1>6, <1>7

\* What scores as much as a chunk of both lists is in both lists.
LEMMA BothWin ==
  ASSUME VotesOutrank, NEW s, NEW t, Merged(s, t), NEW c \in Range(s) \cap Range(t)
  PROVE  /\ FusedScore(s, t, c) \in Nat /\ FusedScore(s, t, c) > Vote[1] /\ Vote[1] \in Nat
         /\ \A x : /\ FusedScore(s, t, x) \in Nat
                   /\ FusedScore(s, t, x) >= FusedScore(s, t, c) => x \in Range(s) \cap Range(t)
<1>1. PICK i \in 1..Len(s) : s[i] = c
  BY ListedKeeps DEF Merged
<1>2. PICK j \in 1..Len(t) : t[j] = c
  BY ListedKeeps DEF Merged
<1>3. VoteIn(s, c) = Vote[i] /\ i \in 1..(2 * TopK) /\ VoteIn(t, c) = Vote[j] /\ j \in 1..TopK
  BY <1>1, <1>2, MergedVotes
<1>4. Vote[i] + Vote[j] > Vote[1]
  BY <1>3 DEF VotesOutrank
<1>5. FusedScore(s, t, c) = Vote[i] + Vote[j]
  BY <1>3 DEF FusedScore
<1>6. ASSUME NEW x
      PROVE  /\ FusedScore(s, t, x) \in Nat
             /\ x \notin Range(s) \cap Range(t) => FusedScore(s, t, x) <= Vote[1]
  <2>1. PICK v \in Nat, w \in Nat, z \in Nat :
          v = VoteIn(s, x) /\ w = VoteIn(t, x) /\ z = Vote[1] /\ v <= z /\ w <= z
    BY MergedVotes
  <2>2. FusedScore(s, t, x) = v + w
    BY <2>1 DEF FusedScore
  <2>3. x \notin Range(s) => v = 0
    BY <2>1 DEF VoteIn
  <2>4. x \notin Range(t) => w = 0
    BY <2>1 DEF VoteIn
  <2>5. x \notin Range(s) \cap Range(t) => v + w <= z
    BY <2>1, <2>3, <2>4
  <2> QED
    BY <2>1, <2>2, <2>5
<1>7. Vote[1] \in Nat /\ FusedScore(s, t, c) \in Nat /\ FusedScore(s, t, c) > Vote[1]
  BY <1>4, <1>5, <1>6, MergedVotes
<1>8. ASSUME NEW x, FusedScore(s, t, x) >= FusedScore(s, t, c)
      PROVE  x \in Range(s) \cap Range(t)
  <2>1. FusedScore(s, t, x) \in Nat /\ FusedScore(s, t, x) > Vote[1]
    BY <1>6, <1>7, <1>8
  <2> QED
    BY <1>6, <1>7, <2>1
<1> QED
  BY <1>6, <1>7, <1>8

\* What both lists rank before another chunk scores higher.
LEMMA AgreedScore ==
  ASSUME VotesOutrank, NEW s, NEW t, Merged(s, t), NEW c, NEW d, Before(s, c, d), Before(t, c, d)
  PROVE  ~(FusedScore(s, t, d) >= FusedScore(s, t, c))
<1> SUFFICES ASSUME FusedScore(s, t, d) >= FusedScore(s, t, c) PROVE FALSE
  OBVIOUS
<1>1. c \in Range(s) \cap Range(t)
  BY DEF Before
<1>2. d \in Range(s) \cap Range(t)
  BY <1>1, BothWin
<1>3. DOMAIN s = 1..Len(s) /\ DOMAIN t = 1..Len(t)
  BY ListedKeeps DEF Merged
<1>4. PICK i \in 1..Len(s), j \in 1..Len(s) : s[i] = c /\ s[j] = d /\ i < j
  BY <1>2, <1>3 DEF Before
<1>5. PICK k \in 1..Len(t), l \in 1..Len(t) : t[k] = c /\ t[l] = d /\ k < l
  BY <1>2, <1>3 DEF Before
<1>6. /\ i \in 1..(2 * TopK) /\ j \in 1..(2 * TopK)
      /\ k \in 1..TopK /\ l \in 1..TopK
      /\ VoteIn(s, c) = Vote[i] /\ VoteIn(s, d) = Vote[j]
      /\ VoteIn(t, c) = Vote[k] /\ VoteIn(t, d) = Vote[l]
  <2>1. /\ \A m \in 1..Len(s) : VoteIn(s, s[m]) = Vote[m] /\ m \in 1..(2 * TopK)
        /\ \A m \in 1..Len(t) : VoteIn(t, t[m]) = Vote[m] /\ m \in 1..TopK
    BY MergedVotes
  <2> QED
    BY <1>4, <1>5, <2>1
<1>7. k \in 1..(2 * TopK) /\ l \in 1..(2 * TopK)
  <2>1. PICK m \in Nat : m = TopK
    BY EvidenceAssumption
  <2> QED
    BY <1>6, <2>1
<1>8. /\ Vote[i] \in Nat /\ Vote[j] \in Nat /\ Vote[k] \in Nat /\ Vote[l] \in Nat
      /\ Vote[i] > Vote[j] /\ Vote[k] > Vote[l]
  BY <1>4, <1>5, <1>6, <1>7 DEF VotesOutrank
<1>9. Vote[i] + Vote[k] > Vote[j] + Vote[l]
  BY <1>8
<1>10. FusedScore(s, t, c) = Vote[i] + Vote[k] /\ FusedScore(s, t, d) = Vote[j] + Vote[l]
  BY <1>6 DEF FusedScore
<1> QED
  BY <1>8, <1>9, <1>10

\* A list holds at most MaxPerDoc chunks of a document.
LEMMA DocumentsCount ==
  ASSUME NEW n, NEW t, Listed(t, n), NEW D
  PROVE  LET A == {i \in 1..Len(t) : Doc(t[i]) = D}
         IN  IsFiniteSet(A) /\ Cardinality(A) \in Nat /\ Cardinality(A) <= MaxPerDoc
<1> DEFINE A == {i \in 1..Len(t) : Doc(t[i]) = D}
<1>1. PICK m \in Nat : m = Len(t)
  BY ListedKeeps
<1>2. IsFiniteSet(1..m) /\ A \in SUBSET (1..m) /\ DOMAIN t = 1..m
  <2>1. 1 \in Int /\ m \in Int
    BY <1>1
  <2> QED
    BY <1>1, <2>1, FS_Interval, ListedKeeps
<1>3. IsFiniteSet(A) /\ Cardinality(A) \in Nat
  BY <1>2, FS_Subset, FS_CardinalityType
<1>4. MaxPerDoc \in Nat /\ MaxPerDoc > 0
  BY EvidenceAssumption
<1>5. CASE A = {}
  BY <1>3, <1>4, <1>5, FS_EmptySet
<1>6. CASE A # {}
  <2> DEFINE T == {k \in 0..m : m - k \in A}
  <2>1. T \in SUBSET Nat
    OBVIOUS
  <2>2. T # {}
    <3>1. PICK i \in A : i \in 1..m
      BY <1>2, <1>6
    <3>2. m - i \in 0..m /\ m - (m - i) = i
      BY <3>1
    <3> QED
      BY <3>1, <3>2
  <2>3. PICK k \in T : \A l \in T : k <= l
    <3> HIDE DEF T
    <3> QED
      BY <2>1, <2>2, Least
  <2>4. PICK i \in A : i = m - k /\ i \in 1..m
    BY <1>2, <2>3
  <2>5. ASSUME NEW j \in A PROVE j <= i
    <3>1. j \in 1..m
      BY <1>2
    <3>2. m - j \in 0..m /\ m - (m - j) = j
      BY <3>1
    <3>3. m - j \in T
      BY <3>2
    <3>4. k <= m - j
      BY <2>3, <3>3
    <3> QED
      BY <2>3, <2>4, <3>1, <3>4
  <2> DEFINE B == {j \in 1..(i - 1) : Doc(t[j]) = Doc(t[i])}
  <2>6. Cardinality(B) < MaxPerDoc
    BY <1>2, <2>4 DEF Listed
  <2>7. A \ {i} = B
    <3>1. Doc(t[i]) = D
      OBVIOUS
    <3>2. ASSUME NEW j \in A \ {i} PROVE j \in B
      <4>1. j \in 1..m /\ j <= i /\ j # i /\ Doc(t[j]) = D
        BY <1>2, <2>5, <3>2
      <4> QED
        BY <2>4, <3>1, <4>1
    <3>3. ASSUME NEW j \in B PROVE j \in A \ {i}
      <4>1. j \in 1..m /\ j # i /\ Doc(t[j]) = D
        BY <2>4, <3>1
      <4> QED
        BY <1>1, <4>1
    <3> QED
      BY <3>2, <3>3
  <2> HIDE DEF A, B
  <2>8. Cardinality(A \ {i}) = Cardinality(A) - 1
    BY <1>3, <2>4, FS_RemoveElement
  <2>9. Cardinality(A) <= MaxPerDoc
    BY <1>3, <1>4, <2>6, <2>7, <2>8
  <2> QED
    BY <1>3, <2>9 DEF A
<1> QED
  BY <1>3, <1>5, <1>6

\* As long as a list has the chunks, it holds each at one place.
PlacesIn(t, u, x) == [j \in 1..x |-> CHOOSE l \in 1..Len(t) : t[l] = u[j]]

LEMMA PlacesDiffer ==
  ASSUME NEW n, NEW t, Listed(t, n), NEW u \in Seq(Chunks), NEW x \in 1..Len(u),
         \A i, j \in DOMAIN u : u[i] = u[j] => i = j,
         \A j \in 1..x : u[j] \in Range(t)
  PROVE  /\ \A j \in 1..x : PlacesIn(t, u, x)[j] \in 1..Len(t) /\ t[PlacesIn(t, u, x)[j]] = u[j]
         /\ \A i, j \in 1..x : PlacesIn(t, u, x)[i] = PlacesIn(t, u, x)[j] => i = j
<1>1. ASSUME NEW j \in 1..x
      PROVE  PlacesIn(t, u, x)[j] \in 1..Len(t) /\ t[PlacesIn(t, u, x)[j]] = u[j]
  <2>1. \E l \in 1..Len(t) : t[l] = u[j]
    <3>1. \A y \in Range(t) : \E l \in 1..Len(t) : t[l] = y
      BY ListedKeeps
    <3> QED
      BY <3>1
  <2>2. PlacesIn(t, u, x)[j] = CHOOSE l \in 1..Len(t) : t[l] = u[j]
    BY DEF PlacesIn
  <2> QED
    BY <2>1, <2>2
<1>2. 1..x \subseteq DOMAIN u
  BY DomainOfSeq
<1> QED
  BY <1>1, <1>2

\* A chunk both lists rank before another one comes before it in the fused list too: only
\* chunks of both lists come ahead of it, so neither cut reaches it.
LEMMA AgreedStays ==
  ASSUME VotesOutrank, NEW s, NEW t, Merged(s, t), NEW r \in FuseRankedHits(s, t, 2 * TopK),
         NEW c, NEW d, c # d, Before(s, c, d), Before(t, c, d)
  PROVE  Before(r, c, d)
<1>1. s \in Seq(Chunks) /\ t \in Seq(Chunks) /\ 2 * TopK \in Nat
  BY ListedKeeps, EvidenceAssumption DEF Merged
<1>2. PICK u \in Seq(Chunks) : /\ Ranking(u, s, t)
                               /\ \E h \in Picked(u, Kept(u)) : r = Take(h, 2 * TopK)
  BY <1>1, FusedFrom
<1>3. PICK h \in Picked(u, Kept(u)) : r = Take(h, 2 * TopK)
  BY <1>2
<1>4. Kept(u) \in SUBSET (DOMAIN u) /\ DOMAIN u = 1..Len(u) /\ Len(u) \in Nat
  BY <1>2, DomainOfSeq DEF Kept
<1>5. /\ h \in Seq(Chunks) /\ Len(h) \in Nat /\ DOMAIN h = 1..Len(h)
      /\ \E p : Places(h, u, Kept(u), p)
  BY <1>2, <1>3, <1>4, PickedPlaces
<1>6. PICK p : Places(h, u, Kept(u), p)
  BY <1>5
<1>7. /\ Len(r) \in Nat /\ DOMAIN r = 1..Len(r)
      /\ Len(r) = IF Len(h) < 2 * TopK THEN Len(h) ELSE 2 * TopK
      /\ \A i \in 1..Len(r) : i \in 1..Len(h) /\ r[i] = h[i]
  BY <1>1, <1>3, <1>5, TakeIs
<1>8. c \in Range(s) \cap Range(t)
  BY DEF Before
<1>9. PICK x \in 1..Len(u) : u[x] = c
  BY <1>2, <1>4, <1>8 DEF Ranking
<1>10. ASSUME NEW j \in 1..x PROVE j \in 1..Len(u) /\ u[j] \in Range(t)
  <2>1. j \in 1..Len(u) /\ (j = x \/ j < x)
    BY <1>4
  <2>2. j < x => FusedScore(s, t, u[j]) >= FusedScore(s, t, c)
    BY <1>2, <1>4, <1>9, <2>1 DEF Ranking
  <2> QED
    BY <1>8, <1>9, <2>1, <2>2, BothWin
<1>11. \A i, j \in DOMAIN u : u[i] = u[j] => i = j
  BY <1>2 DEF Ranking
<1> DEFINE f == PlacesIn(t, u, x)
<1>12. /\ \A j \in 1..x : f[j] \in 1..Len(t) /\ t[f[j]] = u[j]
       /\ \A i, j \in 1..x : f[i] = f[j] => i = j
  BY <1>10, <1>11, PlacesDiffer DEF Merged
<1>13. DOMAIN f = 1..x /\ f = [j \in 1..x |-> f[j]]
  BY DEF PlacesIn
<1> HIDE DEF f
<1>14. PICK m \in Nat, k \in Nat \ {0} : m = Len(t) /\ k = TopK /\ m <= k
  BY EvidenceAssumption, ListedKeeps DEF Merged
<1>15. x <= m
  <2>1. f \in Injection(1..x, 1..m)
    BY <1>12, <1>13, <1>14 DEF Injection, IsInjective
  <2>2. x \in Int /\ m \in Int /\ 1 \in Int /\ x >= 1
    BY <1>14
  <2>3. IsFiniteSet(1..m) /\ Cardinality(1..m) = IF 1 > m THEN 0 ELSE m - 1 + 1
    BY <2>2, FS_Interval
  <2>4. Cardinality(1..x) = IF 1 > x THEN 0 ELSE x - 1 + 1
    BY <2>2, FS_Interval
  <2>5. Cardinality(1..x) <= Cardinality(1..m)
    BY <2>1, <2>3, FS_Injection
  <2>6. Cardinality(1..m) = m /\ Cardinality(1..x) = x
    BY <1>14, <2>2, <2>3, <2>4
  <2> QED
    BY <2>5, <2>6
<1>16. x \in Kept(u)
  <2> DEFINE A == {i \in 1..Len(t) : Doc(t[i]) = Doc(c)}
             B == {j \in 1..(x - 1) : Doc(u[j]) = Doc(u[x])}
             g == [j \in B \cup {x} |-> f[j]]
  <2>1. IsFiniteSet(A) /\ Cardinality(A) \in Nat /\ Cardinality(A) <= MaxPerDoc
    BY DocumentsCount DEF Merged
  <2>2. x \in Nat /\ x \in 1..x /\ x \notin B /\ B \subseteq 1..x
    OBVIOUS
  <2>3. IsFiniteSet(B) /\ Cardinality(B) \in Nat
    <3>1. 1 \in Int /\ x \in Int
      BY <2>2
    <3>2. IsFiniteSet(1..x)
      BY <3>1, FS_Interval
    <3> HIDE DEF B
    <3> QED
      BY <2>2, <3>2, FS_Subset, FS_CardinalityType
  <2>4. ASSUME NEW j \in B \cup {x} PROVE j \in 1..x /\ f[j] \in A
    <3>1. j \in 1..x /\ Doc(u[j]) = Doc(c)
      BY <1>9, <2>2
    <3> QED
      BY <1>12, <3>1
  <2>5. g \in Injection(B \cup {x}, A)
    <3>1. g \in [B \cup {x} -> A] /\ \A j \in B \cup {x} : g[j] = f[j]
      BY <2>4
    <3>2. DOMAIN g = B \cup {x}
      OBVIOUS
    <3> HIDE DEF g, A, B
    <3>3. \A i, j \in B \cup {x} : g[i] = g[j] => i = j
      BY <1>12, <2>4, <3>1
    <3> QED
      BY <3>1, <3>2, <3>3 DEF Injection, IsInjective
  <2>6. x \in DOMAIN u
    BY <1>4
  <2> HIDE DEF A, B, g
  <2>7. Cardinality(B \cup {x}) <= Cardinality(A)
    BY <2>1, <2>5, FS_Injection
  <2>8. Cardinality(B \cup {x}) = Cardinality(B) + 1
    BY <2>2, <2>3, FS_AddElement
  <2>9. Cardinality(B) < MaxPerDoc
    BY <2>1, <2>3, <2>7, <2>8, EvidenceAssumption
  <2> QED
    BY <2>6, <2>9 DEF Kept, B
<1>17. PICK y \in 1..Len(h) : p[y] = x
  BY <1>6, <1>16 DEF Places
<1>18. y <= x /\ h[y] = c
  BY <1>6, <1>9, <1>17 DEF Places
<1>19. y \in 1..Len(r) /\ r[y] = c
  <2>1. y <= 2 * k
    BY <1>14, <1>15, <1>18
  <2>2. y \in 1..Len(r)
    BY <1>5, <1>7, <1>14, <2>1
  <2> QED
    BY <1>7, <1>18, <2>2
<1>20. ASSUME d \in Range(r) PROVE \E i, j \in DOMAIN r : r[i] = c /\ r[j] = d /\ i < j
  <2>1. PICK l \in 1..Len(r) : r[l] = d
    BY <1>7, <1>20 DEF Range
  <2>2. l \in 1..Len(h) /\ h[l] = d
    BY <1>7, <2>1
  <2>3. p[l] \in 1..Len(u) /\ u[p[l]] = d
    BY <1>4, <1>6, <2>2 DEF Places
  <2>4. PICK z \in 1..Len(u) : z = p[l]
    BY <2>3
  <2>5. ~(z < x)
    <3>1. ~(FusedScore(s, t, d) >= FusedScore(s, t, c))
      BY AgreedScore
    <3> QED
      BY <1>2, <1>4, <1>9, <2>3, <2>4, <3>1 DEF Ranking
  <2>6. z # x
    BY <1>9, <2>3, <2>4
  <2>7. ~(l < y)
    BY <1>6, <1>17, <2>2, <2>4, <2>5 DEF Places
  <2>8. l # y
    BY <1>17, <2>4, <2>6
  <2>9. y < l
    BY <1>19, <2>1, <2>7, <2>8
  <2> QED
    BY <1>7, <1>19, <2>1, <2>9
<1>21. c \in Range(r)
  BY <1>7, <1>19 DEF Range
<1> QED
  BY <1>20, <1>21 DEF Before

\* Every channel is a list; while they are fused, what all channels so far agree on is in
\* the ranking so far.
UnanimousInv ==
  /\ \A i \in DOMAIN channels : Listed(channels[i], TopK)
  /\ pc = "fuse" =>
       /\ left + 1 <= Len(channels)
       /\ Listed(fused, 2 * TopK)
       /\ \A c, d \in Chunks :
            (c # d /\ \A i \in 1..(left + 1) : Before(channels[i], c, d)) => Before(fused, c, d)

LEMMA SearchAgrees ==
  ASSUME Types, UnanimousInv, Search PROVE UnanimousInv'
<1>1. PICK hits \in RetrieveHybrid : channels' = Append(channels, hits)
  BY DEF Search
<1>2. PICK s \in Found(RetrieveDense), t \in Found(RetrieveLexical) :
        hits \in FuseRankedHits(s, t, TopK)
  BY <1>1 DEF RetrieveHybrid
<1>3. RetrieveDense \in SUBSET Chunks /\ RetrieveLexical \in SUBSET Chunks
  BY DEF RetrieveDense, RetrieveLexical, PoolTypeOK, Types
<1>4. s \in Seq(Chunks) /\ t \in Seq(Chunks)
  BY <1>3, FoundRanks
<1>5. PICK k \in Nat \ {0} : k = TopK
  BY EvidenceAssumption
<1>6. Listed(hits, TopK)
  BY <1>2, <1>4, <1>5, FusedIsListed
<1>7. hits \in Seq(Chunks)
  BY <1>6 DEF Listed
<1>8. /\ DOMAIN channels' = 1..(Len(channels) + 1) /\ Len(channels') = Len(channels) + 1
      /\ \A i \in 1..Len(channels) : channels'[i] = channels[i]
      /\ channels'[Len(channels) + 1] = hits
      /\ Len(channels) \in Nat /\ DOMAIN channels = 1..Len(channels)
  BY <1>1, <1>7 DEF PoolTypeOK, Types
<1>9. \A i \in DOMAIN channels' : Listed(channels'[i], TopK)
  BY <1>6, <1>8 DEF UnanimousInv
<1>10. ASSUME pc' = "fuse"
       PROVE  /\ left' + 1 <= Len(channels')
              /\ Listed(fused', 2 * TopK)
              /\ \A c, d \in Chunks :
                   (c # d /\ \A i \in 1..(left' + 1) : Before(channels'[i], c, d))
                     => Before(fused', c, d)
  <2>1. fused' = channels'[1] /\ left' = left - 1 /\ ~(left' > 0) /\ pc = "search"
    BY <1>10 DEF Search
  <2>2. 1 \in DOMAIN channels' /\ 1 <= Len(channels')
    BY <1>8
  <2>3. Listed(fused', TopK)
    BY <1>9, <2>1, <2>2
  <2>4. Listed(fused', 2 * TopK)
    <3>1. Len(fused') \in Nat /\ Len(fused') <= k
      BY <1>5, <2>3, ListedKeeps
    <3>2. Len(fused') <= 2 * TopK
      BY <1>5, <3>1
    <3> QED
      BY <2>3, <3>2 DEF Listed
  <2>5. left' = 0 /\ left' + 1 = 1 /\ 1 \in 1..(left' + 1)
    BY <2>1 DEF Types, PoolTypeOK
  <2> QED
    BY <2>1, <2>2, <2>4, <2>5
<1> QED
  BY <1>9, <1>10 DEF UnanimousInv

LEMMA FuseAgrees ==
  ASSUME VotesOutrank, PoolTypeOK, UnanimousInv, FuseNext PROVE UnanimousInv'
<1>1. PICK r \in FuseRankedHits(fused, channels[left + 2], 2 * TopK) : fused' = r
  BY DEF FuseNext
<1>2. /\ pc = "fuse" /\ pc' = "fuse" /\ left + 1 < Len(channels) /\ left' = left + 1
      /\ channels' = channels
  BY DEF FuseNext
<1>3. PICK n \in Nat : n = Len(channels) /\ DOMAIN channels = 1..n
  BY DEF PoolTypeOK
<1>4. left \in Nat /\ left + 2 \in DOMAIN channels /\ left' + 1 = left + 2 /\ left + 2 <= n
  BY <1>2, <1>3 DEF PoolTypeOK
<1>5. PICK t : t = channels[left + 2]
  OBVIOUS
<1>6. Merged(fused, t)
  BY <1>2, <1>4, <1>5 DEF UnanimousInv, Merged
<1>7. Listed(fused', 2 * TopK)
  <2>1. fused \in Seq(Chunks) /\ t \in Seq(Chunks) /\ 2 * TopK \in Nat
    BY <1>6, EvidenceAssumption DEF Merged, Listed
  <2> QED
    BY <1>1, <1>5, <2>1, FusedIsListed
<1>8. ASSUME NEW c \in Chunks, NEW d \in Chunks, c # d,
             \A i \in 1..(left + 2) : Before(channels[i], c, d)
      PROVE  Before(fused', c, d)
  <2>1. \A i \in 1..(left + 1) : i \in 1..(left + 2)
    BY <1>4
  <2>2. Before(fused, c, d)
    BY <1>2, <1>8, <2>1 DEF UnanimousInv
  <2>3. left + 2 \in 1..(left + 2)
    BY <1>4
  <2>4. Before(t, c, d)
    BY <1>5, <1>8, <2>3
  <2> QED
    BY <1>1, <1>5, <1>6, <1>8, <2>2, <2>4, AgreedStays
<1>9. left' + 1 <= Len(channels')
  BY <1>2, <1>3, <1>4
<1>10. \A c, d \in Chunks :
         (c # d /\ \A i \in 1..(left' + 1) : Before(channels'[i], c, d)) => Before(fused', c, d)
  BY <1>2, <1>4, <1>8
<1>11. \A i \in DOMAIN channels' : Listed(channels'[i], TopK)
  BY <1>2 DEF UnanimousInv
<1> QED
  BY <1>7, <1>9, <1>10, <1>11 DEF UnanimousInv

\* UnanimousOrder, for any number of channels and of hits, any cut per document, and every
\* vote by which a chunk of two lists outranks one of a single list.
THEOREM AgreedOrderHolds == ASSUME VotesOutrank PROVE PoolSpec => []UnanimousOrder
<1>1. PoolInit => UnanimousInv
  BY DEF PoolInit, UnanimousInv
<1>2. Types /\ UnanimousInv /\ [PoolNext]_poolVars => UnanimousInv'
  <2> SUFFICES ASSUME Types, UnanimousInv, [PoolNext]_poolVars PROVE UnanimousInv'
    OBVIOUS
  <2> USE DEF UnanimousInv
  <2>1. CASE Rewrite \/ EmbeddingRetried \/ SearchFails
    <3>1. channels' = channels /\ fused' = fused
      BY <2>1 DEF Rewrite, EmbeddingRetried, SearchFails
    <3>2. pc' # "fuse"
      BY <2>1 DEF Rewrite, EmbeddingRetried, SearchFails
    <3> QED
      BY <3>1, <3>2
  <2>2. CASE Rerank \/ VectorSearch \/ LexicalSearch
    <3>1. channels' = <<>> /\ pc' # "fuse"
      BY <2>2 DEF Rerank, VectorSearch, LexicalSearch, Collect
    <3> QED
      BY <3>1
  <2>3. CASE Corrective \/ Decide
    <3>1. channels' = channels /\ pc' # "fuse"
      BY <2>3 DEF Corrective, Sufficient, EvaluatorRaises, SameComplaint, Insufficient,
                  Requery, RequeryFails, NothingNew, Merge, Decide
    <3> QED
      BY <3>1
  <2>4. CASE CorpusChanges
    <3>1. UNCHANGED <<channels, fused, pc, left>>
      BY <2>4 DEF CorpusChanges, Withdraw, Publish
    <3> QED
      BY <3>1
  <2>5. CASE UNCHANGED poolVars
    BY <2>5 DEF poolVars
  <2> QED
    BY <2>1, <2>2, <2>3, <2>4, <2>5, SearchAgrees, FuseAgrees DEF PoolNext, Retrieval, Types
<1>3. PoolTypeOK /\ UnanimousInv => UnanimousOrder
  <2> SUFFICES ASSUME PoolTypeOK, UnanimousInv, pc = "fuse", left + 1 = Len(channels)
               PROVE  \A c, d \in Chunks :
                        (c # d /\ \A i \in DOMAIN channels : Before(channels[i], c, d))
                          => Before(fused, c, d)
    BY DEF UnanimousOrder
  <2>1. DOMAIN channels = 1..(left + 1)
    BY DEF PoolTypeOK
  <2> QED
    BY <2>1 DEF UnanimousInv
<1> QED
  BY <1>1, <1>2, <1>3, EvidenceTypes, InitTypes, NextTypes, PTL DEF PoolSpec

-----------------------------------------------------------------------------
(* EvidencePool: the best citation decides *)

StrongInv ==
  /\ StrongChunkAnswers
  /\ Sorted(evidence)
  /\ pc \in {"evaluate", "requery", "decide"} => evidence # <<>>

\* Breadth of coverage never lowers the score of the first citation.
LEMMA ConfidenceBound ==
  ASSUME PoolTypeOK, evidence # <<>>
  PROVE  Confidence \in Nat /\ Confidence >= evidence[1].score * 4
<1> DEFINE S == ChunksOf(evidence)
           D == {Doc(c) : c \in S}
           d == Cardinality(D)
<1>1. /\ Len(evidence) \in Nat /\ Len(evidence) > 0 /\ DOMAIN evidence = 1..Len(evidence)
      /\ evidence[1] \in Hits
  BY DEF PoolTypeOK
<1>2. evidence[1].score \in Nat /\ evidence[1].chunk \in S
  <2>1. evidence[1].score \in Relevance
    BY <1>1 DEF Hits
  <2>2. 1 \in DOMAIN evidence
    BY <1>1
  <2> QED
    BY <2>1, <2>2, EvidenceAssumption DEF ChunksOf
<1>3. S \subseteq Chunks
  <2>1. \A i \in DOMAIN evidence : evidence[i] \in Hits
    BY DomainOfSeq DEF PoolTypeOK
  <2> QED
    BY <2>1 DEF ChunksOf, Hits
<1>4. \A c \in Chunks : Doc(c) \in SUBSET Chunks
  BY EvidenceAssumption DEF Doc
<1>5. IsFiniteSet(D)
  <2>1. D \subseteq SUBSET Chunks
    BY <1>3, <1>4
  <2> QED
    BY <2>1, EvidenceAssumption, FS_SUBSET, FS_Subset
<1>6. d \in Nat /\ d # 0
  <2>1. D # {}
    BY <1>2
  <2> QED
    BY <1>5, <2>1, FS_EmptySet, FS_CardinalityType
<1> DEFINE k == (IF d > 3 THEN 3 ELSE d) - 1
<1>7. Confidence = evidence[1].score * (4 + (IF d > 3 THEN 3 ELSE d) - 1)
  BY DEF Confidence
<1> HIDE DEF d
<1>8. k \in {0, 1, 2} /\ 4 + (IF d > 3 THEN 3 ELSE d) - 1 = 4 + k
  BY <1>6
<1> QED
  BY <1>2, <1>7, <1>8

LEMMA DecideIsStrong == ASSUME PoolTypeOK, StrongInv, Decide PROVE StrongInv'
<1>1. evidence' = evidence /\ evidence # <<>> /\ Sorted(evidence)
  BY DEF Decide, StrongInv
<1>2. ASSUME pc' = "declined", NEW i \in DOMAIN evidence
      PROVE  evidence[i].score * 4 < Threshold
  <2>a. \A j \in DOMAIN evidence : evidence[j] \in Hits
    BY DomainOfSeq DEF PoolTypeOK
  <2>1. \A j \in DOMAIN evidence : evidence[j].score \in Nat
    BY <2>a, EvidenceAssumption DEF Hits
  <2>2. 1 \in DOMAIN evidence /\ DOMAIN evidence = 1..Len(evidence)
    BY <1>1 DEF PoolTypeOK
  <2>3. evidence[1].score >= evidence[i].score
    BY <1>1, <2>1, <2>2 DEF Sorted
  <2>4. ~(Confidence >= Threshold)
    BY <1>2 DEF Decide
  <2>5. Confidence \in Nat /\ Confidence >= evidence[1].score * 4
    BY <1>1, ConfidenceBound
  <2> QED
    BY <2>1, <2>2, <2>3, <2>4, <2>5, EvidenceAssumption
<1>3. pc' \in {"answered", "declined"}
  BY DEF Decide
<1> QED
  BY <1>1, <1>2, <1>3 DEF StrongInv, StrongChunkAnswers

LEMMA CollectIsStrong ==
  ASSUME NEW C \in SUBSET Chunks, NEW hits \in Reranked(C),
         NEW otherwise \in {"vector", "lexical", "declined"}, Collect(hits, otherwise)
  PROVE  StrongInv'
<1>1. evidence' = hits /\ Sorted(hits)
  BY RerankedHits DEF Collect
<1>2. \/ hits = <<>> /\ pc' \in {"vector", "lexical", "declined"}
      \/ hits # <<>> /\ pc' \in {"evaluate", "decide"}
  BY DEF Collect
<1> QED
  BY <1>1, <1>2 DEF StrongInv, StrongChunkAnswers

LEMMA RetrievalIsStrong ==
  ASSUME PoolTypeOK, StrongInv, Retrieval PROVE StrongInv'
<1>1. CASE Rewrite \/ Search \/ EmbeddingRetried \/ SearchFails \/ FuseNext
  <2>1. evidence' = evidence /\ pc' # "declined"
    BY <1>1 DEF Rewrite, Search, EmbeddingRetried, SearchFails, FuseNext
  <2>2. pc' \in {"evaluate", "requery", "decide"} => pc' = pc
    BY <1>1 DEF Rewrite, Search, EmbeddingRetried, SearchFails, FuseNext
  <2> QED
    BY <2>1, <2>2 DEF StrongInv, StrongChunkAnswers
<1>2. CASE Rerank
  <2>1. Range(fused) \in SUBSET Chunks
    BY DomainOfSeq DEF Range, PoolTypeOK
  <2> QED
    BY <1>2, <2>1, CollectIsStrong DEF Rerank
<1>3. CASE VectorSearch
  <2>1. RetrieveDense \subseteq Chunks
    BY DEF RetrieveDense, PoolTypeOK
  <2> QED
    BY <1>3, <2>1, CollectIsStrong DEF VectorSearch
<1>4. CASE LexicalSearch
  <2>1. RetrieveLexical \subseteq Chunks
    BY DEF RetrieveLexical, PoolTypeOK
  <2> QED
    BY <1>4, <2>1, CollectIsStrong DEF LexicalSearch
<1> QED
  BY <1>1, <1>2, <1>3, <1>4 DEF Retrieval

LEMMA MergeIsStrong == ASSUME PoolTypeOK, StrongInv, Merge PROVE StrongInv'
<1> DEFINE pool == evidence \o fresh
           n == Cap(Len(fresh))
<1>1. PICK sorted \in SortByScore(pool) : evidence' = Take(sorted, n)
  BY DEF Merge
<1>2. pool \in Seq(Hits) /\ Len(pool) > 0 /\ Len(fresh) \in Nat
  BY DEF Merge, PoolTypeOK
<1>3. n \in Nat /\ n > 0
  BY <1>2, EvidenceAssumption DEF Cap
<1> HIDE DEF pool, n
<1>4. sorted \in Seq(Hits) /\ Len(sorted) > 0 /\ Sorted(sorted)
  BY <1>1, <1>2, SortedHits
<1>5. Sorted(evidence')
  BY <1>1, <1>3, <1>4, TakeKeeps DEF Sorted
<1>6. evidence' # <<>>
  <2>1. PICK m \in Nat : m > 0 /\ m <= Len(sorted) /\ evidence' = SubSeq(sorted, 1, m)
    BY <1>1, <1>3, <1>4 DEF Take
  <2>2. Len(evidence') = m
    BY <1>4, <2>1, SubSeqProperties
  <2> QED
    BY <2>1, <2>2
<1>7. pc' \in {"decide", "evaluate"}
  BY DEF Merge
<1> QED
  BY <1>5, <1>6, <1>7 DEF StrongInv, StrongChunkAnswers

LEMMA CorrectiveIsStrong == ASSUME PoolTypeOK, StrongInv, Corrective PROVE StrongInv'
<1>1. CASE Merge
  BY <1>1, MergeIsStrong
<1>2. CASE ~Merge
  <2>1. evidence' = evidence /\ pc \in {"evaluate", "requery"}
    BY <1>2 DEF Corrective, Sufficient, EvaluatorRaises, SameComplaint, Insufficient, Requery,
                RequeryFails, NothingNew
  <2>2. pc' # "declined"
    BY <1>2 DEF Corrective, Sufficient, EvaluatorRaises, SameComplaint, Insufficient, Requery,
                RequeryFails, NothingNew
  <2> QED
    BY <2>1, <2>2 DEF StrongInv, StrongChunkAnswers
<1> QED
  BY <1>1, <1>2

\* StrongChunkAnswers, for every threshold, every score a reranker may give and
\* every number of rounds.
THEOREM StrongIsAnswered == PoolSpec => []StrongChunkAnswers
<1>1. PoolInit => StrongInv
  BY DEF PoolInit, StrongInv, StrongChunkAnswers, Sorted
<1>2. Types /\ StrongInv /\ [PoolNext]_poolVars => StrongInv'
  <2> SUFFICES ASSUME Types, StrongInv, [PoolNext]_poolVars PROVE StrongInv'
    OBVIOUS
  <2>1. CASE CorpusChanges
    BY <2>1 DEF CorpusChanges, Withdraw, Publish, StrongInv, StrongChunkAnswers, Sorted
  <2>2. CASE UNCHANGED poolVars
    BY <2>2 DEF poolVars, StrongInv, StrongChunkAnswers, Sorted
  <2> QED
    BY <2>1, <2>2, DecideIsStrong, RetrievalIsStrong, CorrectiveIsStrong DEF PoolNext, Types
<1>3. StrongInv => StrongChunkAnswers
  BY DEF StrongInv
<1> QED
  BY <1>1, <1>2, <1>3, InitTypes, NextTypes, PTL DEF PoolSpec

-----------------------------------------------------------------------------
(* EvalRuns: counting questions *)

\* Sets of questions have their cardinalities in 0 .. N.
LEMMA QuestionSets ==
  ASSUME NEW A, A \subseteq Questions
  PROVE  IsFiniteSet(A) /\ Cardinality(A) \in Nat /\ Cardinality(A) <= N
<1>1. IsFiniteSet(Questions) /\ Cardinality(Questions) = N
  BY EvalAssumption, FS_Interval DEF Questions
<1>2. IsFiniteSet(A) /\ Cardinality(A) <= Cardinality(Questions)
  BY <1>1, FS_Subset
<1>3. QED BY <1>1, <1>2, FS_CardinalityType

\* What is left of the questions.
LEMMA RestOfQuestions ==
  ASSUME NEW A, A \subseteq Questions
  PROVE  Cardinality(Questions \ A) = N - Cardinality(A)
<1>1. IsFiniteSet(Questions) /\ Cardinality(Questions) = N
  BY EvalAssumption, FS_Interval DEF Questions
<1>2. Questions \cap A = A
  OBVIOUS
<1>3. QED BY <1>1, <1>2, FS_Difference

\* At most as many in a union as in its parts.
LEMMA UnionBound ==
  ASSUME NEW A, NEW B, A \subseteq Questions, B \subseteq Questions
  PROVE  Cardinality(A \cup B) <= Cardinality(A) + Cardinality(B)
<1>1. /\ IsFiniteSet(A) /\ IsFiniteSet(B)
      /\ Cardinality(A) \in Nat /\ Cardinality(B) \in Nat /\ Cardinality(A \cap B) \in Nat
  BY QuestionSets
<1>2. Cardinality(A \cup B) = Cardinality(A) + Cardinality(B) - Cardinality(A \cap B)
  BY <1>1, FS_Union
<1>3. QED BY <1>1, <1>2

\* An answer that is not passed is wrong, uncited or uncertain.
LEMMA FailuresBound ==
  ASSUME NEW R, NEW C, NEW L, NEW P,
         R \subseteq Questions, C \subseteq Questions, L \subseteq Questions,
         P = (R \cap C) \ L
  PROVE  N - Cardinality(P)
           <= (N - Cardinality(R)) + (N - Cardinality(C)) + Cardinality(L)
<1> DEFINE NR == Questions \ R
           NC == Questions \ C
<1>1. Questions \ P \subseteq (NR \cup NC) \cup L
  OBVIOUS
<1>2. Cardinality(Questions \ P) <= Cardinality((NR \cup NC) \cup L)
  <2>1. IsFiniteSet((NR \cup NC) \cup L)
    BY QuestionSets
  <2>2. QED BY <1>1, <2>1, FS_Subset
<1>3. Cardinality((NR \cup NC) \cup L) <= Cardinality(NR \cup NC) + Cardinality(L)
  BY UnionBound
<1>4. Cardinality(NR \cup NC) <= Cardinality(NR) + Cardinality(NC)
  BY UnionBound
<1>5. /\ Cardinality(NR) = N - Cardinality(R) /\ Cardinality(NC) = N - Cardinality(C)
      /\ Cardinality(Questions \ P) = N - Cardinality(P)
  BY RestOfQuestions
<1>6. /\ Cardinality(R) \in Nat /\ Cardinality(C) \in Nat /\ Cardinality(L) \in Nat
      /\ Cardinality(P) \in Nat /\ Cardinality(NR \cup NC) \in Nat
      /\ Cardinality((NR \cup NC) \cup L) \in Nat /\ N \in Nat
  BY QuestionSets, EvalAssumption
<1>7. QED BY <1>2, <1>3, <1>4, <1>5, <1>6

\* Two sets that agree outside V differ by at most the size of V.
LEMMA AgreeOutside ==
  ASSUME NEW A, NEW B, NEW V,
         A \subseteq Questions, B \subseteq Questions, V \subseteq Questions,
         A \subseteq B \cup V
  PROVE  Cardinality(A) <= Cardinality(B) + Cardinality(V)
<1>1. Cardinality(A) <= Cardinality(B \cup V)
  BY QuestionSets, FS_Subset
<1>2. Cardinality(B \cup V) <= Cardinality(B) + Cardinality(V)
  BY UnionBound
<1>3. /\ Cardinality(A) \in Nat /\ Cardinality(B) \in Nat /\ Cardinality(V) \in Nat
      /\ Cardinality(B \cup V) \in Nat
  BY QuestionSets
<1>4. QED BY <1>1, <1>2, <1>3

\* Unit cancels.
LEMMA UnitCancels ==
  ASSUME NEW a \in Int, NEW b \in Int
  PROVE  /\ Unit * a <= Unit * b => a <= b
         /\ a <= b => Unit * a <= Unit * b
<1>1. Unit \in Int /\ Unit >= 1
  BY EvalAssumption
<1>2. ASSUME a <= b PROVE Unit * a <= Unit * b
  BY <1>1, <1>2
<1>3. ASSUME ~(a <= b) PROVE ~(Unit * a <= Unit * b)
  <2>1. b + 1 <= a
    BY <1>3
  <2>2. Unit * (b + 1) <= Unit * a
    BY <1>1, <2>1
  <2>3. Unit * (b + 1) = Unit * b + Unit
    BY <1>1
  <2>4. Unit * b \in Int /\ Unit * a \in Int
    BY <1>1
  <2>5. QED BY <1>1, <2>2, <2>3, <2>4
<1>4. QED BY <1>2, <1>3

-----------------------------------------------------------------------------
(* EvalRuns: what grading makes of the answers *)

\* The questions behind the counts of a grading: right, cited, uncertain and passed by
\* the code, right by the judge, judged.
CountedBy(g, R, C, L, P, J, V) ==
  /\ g.metrics["answer_correctness"] = Unit * Cardinality(R)
  /\ g.metrics["citation_hit_rate"] = Unit * Cardinality(C)
  /\ g.metrics["low_confidence_rate"] = Unit * Cardinality(L)
  /\ g.metrics["judge_answer_correctness"] = Unit * Cardinality(J)
  /\ g.passed = Cardinality(P)
  /\ g.fallbacks = Cardinality(Questions \ V)
  /\ P = (R \cap C) \ L
  /\ J \subseteq R \cup V /\ R \subseteq J \cup V

\* Every grading has such questions.
LEMMA GradingCounts ==
  ASSUME NEW g \in Gradings
  PROVE  \E R, C, L, P, J, V \in SUBSET Questions : CountedBy(g, R, C, L, P, J, V)
<1>1. PICK f \in [Questions -> {c \in Cases : ~Breaks(c)}] : g = Graded(f)
  BY DEF Gradings
<1> DEFINE R == {q \in Questions : Matched(f[q])}
           C == {q \in Questions : Cited(f[q])}
           L == {q \in Questions : ~f[q].confident}
           P == {q \in Questions : Passed(f[q])}
           J == {q \in Questions : JudgedRight(f[q])}
           V == {q \in Questions : Judged(f[q])}
<1>2. /\ g.metrics["answer_correctness"] = Unit * Cardinality(R)
      /\ g.metrics["citation_hit_rate"] = Unit * Cardinality(C)
      /\ g.metrics["low_confidence_rate"] = Unit * Cardinality(L)
      /\ g.metrics["judge_answer_correctness"] = Unit * Cardinality(J)
  BY <1>1 DEF Graded, Gating, Count
<1>3. g.passed = Cardinality(P)
  BY <1>1 DEF Graded, Count
<1>4. g.fallbacks = Cardinality(Questions \ V)
  <2>1. g.fallbacks = Cardinality({q \in Questions : ~Judged(f[q])})
    BY <1>1 DEF Graded, Count
  <2>2. {q \in Questions : ~Judged(f[q])} = Questions \ V
    OBVIOUS
  <2>3. QED BY <2>1, <2>2
<1>5. P = (R \cap C) \ L
  BY DEF Passed
<1>6. J \subseteq R \cup V /\ R \subseteq J \cup V
  BY DEF JudgedRight
<1>7. /\ R \in SUBSET Questions /\ C \in SUBSET Questions /\ L \in SUBSET Questions
      /\ P \in SUBSET Questions /\ J \in SUBSET Questions /\ V \in SUBSET Questions
  OBVIOUS
<1> HIDE DEF R, C, L, P, J, V
<1>8. CountedBy(g, R, C, L, P, J, V)
  BY <1>2, <1>3, <1>4, <1>5, <1>6 DEF CountedBy
<1>9. QED BY <1>7, <1>8

\* A grading that passes quality_gate has its 45 of 100.
LEMMA PassedEnough ==
  ASSUME NEW g \in Gradings, Quality(g.metrics) = "pass"
  PROVE  100 * g.passed >= 45 * N
<1>0. PICK R, C, L, P, J, V \in SUBSET Questions : CountedBy(g, R, C, L, P, J, V)
  BY GradingCounts
<1>1. /\ g.metrics["answer_correctness"] = Unit * Cardinality(R)
      /\ g.metrics["citation_hit_rate"] = Unit * Cardinality(C)
      /\ g.metrics["low_confidence_rate"] = Unit * Cardinality(L)
      /\ g.metrics["judge_answer_correctness"] = Unit * Cardinality(J)
      /\ g.passed = Cardinality(P)
      /\ g.fallbacks = Cardinality(Questions \ V)
      /\ P = (R \cap C) \ L
      /\ J \subseteq R \cup V /\ R \subseteq J \cup V
  BY <1>0 DEF CountedBy
<1> DEFINE r == Cardinality(R)
           c == Cardinality(C)
           l == Cardinality(L)
           p == Cardinality(P)
<1>2. r \in Nat /\ c \in Nat /\ l \in Nat /\ p \in Nat /\ N \in Nat /\ Unit \in Nat
  BY QuestionSets, EvalAssumption
<1>3. /\ 100 * (Unit * r) >= 80 * (N * Unit)
      /\ 100 * (Unit * c) >= 85 * (N * Unit)
      /\ 100 * (Unit * l) <= 20 * (N * Unit)
  BY <1>1 DEF Quality, AtLeast, Whole
<1>4. N - p <= (N - r) + (N - c) + l
  BY <1>1, FailuresBound
<1> HIDE DEF r, c, l, p
<1>5. /\ 100 * (Unit * r) = Unit * (100 * r) /\ 80 * (N * Unit) = Unit * (80 * N)
      /\ 100 * (Unit * c) = Unit * (100 * c) /\ 85 * (N * Unit) = Unit * (85 * N)
      /\ 100 * (Unit * l) = Unit * (100 * l) /\ 20 * (N * Unit) = Unit * (20 * N)
  BY <1>2
<1>6. /\ Unit * (80 * N) <= Unit * (100 * r)
      /\ Unit * (85 * N) <= Unit * (100 * c)
      /\ Unit * (100 * l) <= Unit * (20 * N)
  <2>1. /\ 100 * (Unit * r) \in Int /\ 100 * (Unit * c) \in Int /\ 100 * (Unit * l) \in Int
        /\ 80 * (N * Unit) \in Int /\ 85 * (N * Unit) \in Int /\ 20 * (N * Unit) \in Int
    BY <1>2
  <2>2. QED BY <1>3, <1>5, <2>1
<1>7. /\ 80 * N \in Int /\ 85 * N \in Int /\ 20 * N \in Int
      /\ 100 * r \in Int /\ 100 * c \in Int /\ 100 * l \in Int
  BY <1>2
<1>8. 80 * N <= 100 * r
  BY <1>6, <1>7, UnitCancels
<1>9. 85 * N <= 100 * c
  BY <1>6, <1>7, UnitCancels
<1>10. 100 * l <= 20 * N
  BY <1>6, <1>7, UnitCancels
<1>11. 100 * p >= 45 * N
  BY <1>2, <1>4, <1>8, <1>9, <1>10
<1>12. QED BY <1>1, <1>11 DEF p

\* The judge's count and the keywords' differ by the judged questions at most.
LEMMA VerdictsNear ==
  ASSUME NEW g \in Gradings
  PROVE  VerdictsWithin(g)
<1>0. PICK R, C, L, P, J, V \in SUBSET Questions : CountedBy(g, R, C, L, P, J, V)
  BY GradingCounts
<1>1. /\ g.metrics["answer_correctness"] = Unit * Cardinality(R)
      /\ g.metrics["citation_hit_rate"] = Unit * Cardinality(C)
      /\ g.metrics["low_confidence_rate"] = Unit * Cardinality(L)
      /\ g.metrics["judge_answer_correctness"] = Unit * Cardinality(J)
      /\ g.passed = Cardinality(P)
      /\ g.fallbacks = Cardinality(Questions \ V)
      /\ P = (R \cap C) \ L
      /\ J \subseteq R \cup V /\ R \subseteq J \cup V
  BY <1>0 DEF CountedBy
<1> DEFINE r == Cardinality(R)
           j == Cardinality(J)
           v == Cardinality(V)
<1>2. r \in Nat /\ j \in Nat /\ v \in Nat /\ N \in Nat /\ Unit \in Nat
  BY QuestionSets, EvalAssumption
<1>3. N - g.fallbacks = v
  <2>1. g.fallbacks = N - v
    BY <1>1, RestOfQuestions
  <2>2. QED BY <1>2, <2>1
<1>4. j <= r + v /\ r <= j + v
  BY <1>1, AgreeOutside
<1> HIDE DEF r, j, v
<1>5. /\ j - r <= v /\ r - j <= v /\ j - r \in Int /\ r - j \in Int
  BY <1>2, <1>4
<1>6. Unit * (j - r) <= Unit * v /\ Unit * (r - j) <= Unit * v
  BY <1>2, <1>5, UnitCancels
<1>7. Unit * (j - r) = Unit * j - Unit * r /\ Unit * (r - j) = Unit * r - Unit * j
  BY <1>2
<1>8. /\ g.metrics["judge_answer_correctness"] = Unit * j
      /\ g.metrics["answer_correctness"] = Unit * r
  BY <1>1 DEF j, r
<1>9. QED BY <1>3, <1>6, <1>7, <1>8 DEF VerdictsWithin, Distance

\* The sum behind a grading's faithfulness is one of the sums over a set.
LEMMA TotalIsSum ==
  ASSUME NEW f
  PROVE  LET scores == [q \in Questions |-> Faithfulness(f[q])] IN
         Total(Faithfulness, f) = (CHOOSE g : IsSetSum(g, scores, Questions))[Questions]
<1> DEFINE scores == [q \in Questions |-> Faithfulness(f[q])]
           F(g) == [s \in SUBSET Questions |-> IF s = {} THEN 0
                      ELSE Faithfulness(f[First(s)]) + g[s \ {First(s)}]]
           G(g) == [s \in SUBSET Questions |-> IF s = {} THEN 0
                      ELSE scores[First(s)] + g[s \ {First(s)}]]
<1>1. Total(Faithfulness, f) = (CHOOSE g : g = F(g))[Questions]
  BY DEF Total, MapThenSumSet, MapThenFoldSet, First
<1>2. ASSUME NEW g PROVE F(g) = G(g)
  <2>1. ASSUME NEW s \in SUBSET Questions, s # {}
        PROVE  Faithfulness(f[First(s)]) = scores[First(s)]
    BY <2>1 DEF First
  <2>2. QED BY <2>1
<1>3. (CHOOSE g : g = F(g)) = CHOOSE g : g = G(g)
  <2> HIDE DEF F, G
  <2>1. QED BY <1>2
<1>4. QED BY <1>1, <1>3 DEF IsSetSum

\* An answer without citations earns no faithfulness, another one 1.0 at most.
LEMMA FaithfulnessBound ==
  ASSUME NEW c \in Cases
  PROVE  Faithfulness(c) \in Nat /\ Faithfulness(c) <= IF c.marks # <<>> THEN Unit ELSE 0
<1>1. c.faithful \in Int /\ Unit \in Nat
  BY EvalAssumption DEF Case
<1>2. Clamp(c.faithful) \in Nat /\ Clamp(c.faithful) <= Unit
  BY <1>1 DEF Clamp, Min2
<1>3. QED BY <1>1, <1>2 DEF Faithfulness

\* A grading gives no faithfulness to answers without citations.
LEMMA FaithfulnessEarned ==
  ASSUME NEW g \in Gradings
  PROVE  GroundedOnly(g)
<1>1. PICK f \in [Questions -> {c \in Cases : ~Breaks(c)}] : g = Graded(f)
  BY DEF Gradings
<1> DEFINE A == {q \in Questions : f[q].marks # <<>>}
           scores == [q \in Questions |-> Faithfulness(f[q])]
<1>2. g.metrics["faithfulness"] = Total(Faithfulness, f) /\ g.grounded = Cardinality(A)
  BY <1>1 DEF Graded, Gating, Count
<1>3. IsFiniteSet(Questions) /\ A \in SUBSET Questions /\ Unit \in Nat
  BY EvalAssumption, FS_Interval DEF Questions
<1>4. ASSUME NEW q \in Questions
      PROVE  scores[q] \in Nat /\ scores[q] <= IF q \in A THEN Unit ELSE 0
  <2>1. f[q] \in Cases
    OBVIOUS
  <2>2. QED BY <2>1, FaithfulnessBound
<1>5. scores \in [Questions -> Nat]
  BY <1>4
<1>6. PICK sum : IsSetSum(sum, scores, Questions) /\ Total(Faithfulness, f) = sum[Questions]
  <2>1. Total(Faithfulness, f) = (CHOOSE sum : IsSetSum(sum, scores, Questions))[Questions]
    BY TotalIsSum
  <2>2. \E sum : IsSetSum(sum, scores, Questions)
    BY <1>3, <1>5, SetSumExists
  <2> HIDE DEF scores
  <2>3. IsSetSum(CHOOSE sum : IsSetSum(sum, scores, Questions), scores, Questions)
    BY <2>2
  <2>4. QED BY <2>1, <2>3
<1> HIDE DEF A, scores
<1>7. sum[Questions] <= Unit * Cardinality(A)
  BY <1>3, <1>4, <1>5, <1>6, SetSumBounds
<1>8. QED BY <1>2, <1>6, <1>7 DEF GroundedOnly

-----------------------------------------------------------------------------
(* EvalRuns: types *)

LEMMA GateTypes ==
  ASSUME NEW now, NEW before, NEW gate \in RegressionGates(now, before)
  PROVE  gate \in {"pass", "warn", "fail"}
BY DEF RegressionGates

LEMMA QualityType == \A m : Quality(m) \in {"pass", "warn", "fail"}
BY DEF Quality

LEMMA SomeGraded == Gradings # {}
<1>1. PICK c \in Cases : ~Breaks(c)
  BY SomeGrading
<1>2. [q \in Questions |-> c] \in [Questions -> {d \in Cases : ~Breaks(d)}]
  BY <1>1
<1>3. Graded([q \in Questions |-> c]) \in Gradings
  BY <1>2 DEF Gradings
<1>4. QED BY <1>3

LEMMA DoingType ==
  ASSUME NEW step \in {"idle", "create", "grade", "store", "commit"},
         NEW edition \in 0 .. Editions, NEW run \in RunRecord
  PROVE  Doing(step, edition, run) \in CallRecord
BY DEF Doing, CallRecord

LEMMA StampType ==
  ASSUME NEW r \in RunRecord, NEW t \in Nat
  PROVE  [r EXCEPT !.stamp = t] \in RunRecord
BY DEF RunRecord

LEMMA IdleType == NoRun \in RunRecord /\ Idle \in CallRecord
<1>1. (CHOOSE g \in Gradings : TRUE) \in Gradings
  BY SomeGraded
<1>2. NoRun \in RunRecord
  BY <1>1 DEF NoRun, RunRecord
<1>3. 0 \in 0 .. Editions
  BY EvalAssumption
<1>4. QED BY <1>2, <1>3, DoingType DEF Idle

\* A request's record and the type it has.
LEMMA CallTypes ==
  ASSUME TypeOK, NEW h \in Callers
  PROVE  /\ call[h] \in CallRecord /\ call[h].run \in RunRecord
         /\ call[h].edition \in 0 .. Editions /\ call[h].edition \in Nat
<1>1. call[h] \in CallRecord
  BY DEF TypeOK
<1>2. call[h].run \in RunRecord /\ call[h].edition \in 0 .. Editions
  BY <1>1 DEF CallRecord
<1>3. QED BY <1>1, <1>2, EvalAssumption

\* Every step keeps the types.
LEMMA TypeStep == TypeOK /\ [Next]_vars => TypeOK'
<1> SUFFICES ASSUME TypeOK, [Next]_vars PROVE TypeOK'
  OBVIOUS
<1> USE EvalAssumption
<1>1. CASE EditFile
  BY <1>1 DEF EditFile, TypeOK
<1>2. ASSUME NEW h \in Callers, Look(h) PROVE TypeOK'
  <2>1. dataset \in 0 .. Editions /\ file \in 0 .. Editions
    BY DEF TypeOK
  <2>2. /\ Doing("grade", dataset, NoRun) \in CallRecord
        /\ Doing("create", file, NoRun) \in CallRecord
    BY <2>1, IdleType, DoingType
  <2>3. QED BY <1>2, <2>2 DEF Look, TypeOK
<1>3. ASSUME NEW h \in Callers, Create(h) PROVE TypeOK'
  <2>1. Doing("grade", call[h].edition, call[h].run) \in CallRecord
    BY CallTypes, DoingType
  <2>2. QED BY <1>3, <2>1, CallTypes DEF Create, TypeOK
<1>4. ASSUME NEW h \in Callers, GradeAndCompare(h) PROVE TypeOK'
  <2>1. PICK g \in Gradings, previous \in LatestRuns :
        \E gate \in IF previous = 0 THEN {"pass"}
                 ELSE RegressionGates(g.metrics, runs[previous].graded.metrics) :
         call' = [call EXCEPT ![h] = Doing("store", call[h].edition,
           [edition |-> call[h].edition, stamp |-> 0, seen |-> Len(runs),
            previous |-> previous, graded |-> g, quality |-> Quality(g.metrics),
            regression |-> gate])]
    BY <1>4 DEF GradeAndCompare
  <2>2. PICK gate \in IF previous = 0 THEN {"pass"}
                 ELSE RegressionGates(g.metrics, runs[previous].graded.metrics) :
         call' = [call EXCEPT ![h] = Doing("store", call[h].edition,
           [edition |-> call[h].edition, stamp |-> 0, seen |-> Len(runs),
            previous |-> previous, graded |-> g, quality |-> Quality(g.metrics),
            regression |-> gate])]
    BY <2>1
  <2> DEFINE r == [edition |-> call[h].edition, stamp |-> 0, seen |-> Len(runs),
                   previous |-> previous, graded |-> g, quality |-> Quality(g.metrics),
                   regression |-> gate]
  <2>3. previous \in Nat
    BY DEF LatestRuns, TypeOK
  <2>4. gate \in {"pass", "warn", "fail"}
    BY <2>2, GateTypes
  <2>5. Len(runs) \in Nat /\ call[h].edition \in Nat
    BY CallTypes DEF TypeOK
  <2>6. r \in RunRecord
    BY <2>3, <2>4, <2>5, QualityType DEF RunRecord
  <2>7. call' = [call EXCEPT ![h] = Doing("store", call[h].edition, r)]
    BY <2>2
  <2> HIDE DEF r
  <2>8. Doing("store", call[h].edition, r) \in CallRecord
    BY <2>6, CallTypes, DoingType
  <2>9. QED BY <1>4, <2>7, <2>8 DEF GradeAndCompare, TypeOK
<1>5. ASSUME NEW h \in Callers, Insert(h) PROVE TypeOK'
  <2>1. clock + 1 \in Nat
    BY DEF TypeOK
  <2>2. [call[h].run EXCEPT !.stamp = clock + 1] \in RunRecord
    BY <2>1, CallTypes, StampType
  <2>3. Doing("commit", call[h].edition, [call[h].run EXCEPT !.stamp = clock + 1])
          \in CallRecord
    BY <2>2, CallTypes, DoingType
  <2>4. QED BY <1>5, <2>1, <2>3 DEF Insert, TypeOK
<1>6. ASSUME NEW h \in Callers, Commit(h) PROVE TypeOK'
  <2>1. runs' \in Seq(RunRecord)
    BY <1>6, CallTypes DEF Commit, TypeOK
  <2>2. QED BY <1>6, <2>1, IdleType DEF Commit, TypeOK
<1>7. ASSUME NEW h \in Callers, Fail(h) PROVE TypeOK'
  BY <1>7, IdleType DEF Fail, TypeOK
<1>8. CASE UNCHANGED vars
  BY <1>8 DEF vars, TypeOK
<1>9. QED BY <1>1, <1>2, <1>3, <1>4, <1>5, <1>6, <1>7, <1>8 DEF Next

\* Files, snapshots, runs and requests have their types.
THEOREM EvalTypes == Spec => []TypeOK
<1>1. Init => TypeOK
  BY IdleType, EvalAssumption DEF Init, TypeOK
<1>2. QED BY <1>1, TypeStep, PTL DEF Spec

-----------------------------------------------------------------------------
(* EvalRuns: the invariant *)

\* A run stays well made when the table grows.
LEMMA MadeKept ==
  ASSUME NEW table \in Seq(RunRecord), NEW x \in RunRecord, NEW r \in RunRecord,
         WellMade(r, table)
  PROVE  WellMade(r, Append(table, x))
<1> DEFINE longer == Append(table, x)
<1>1. /\ Len(table) \in Nat /\ Len(longer) = Len(table) + 1
      /\ \A j \in 1 .. Len(table) : longer[j] = table[j]
  OBVIOUS
<1>2. r.seen \in 0 .. Len(table) /\ r.seen \in 0 .. Len(longer)
  BY <1>1 DEF WellMade
<1>3. \A j \in 1 .. r.seen : longer[j] = table[j]
  BY <1>1, <1>2
<1> HIDE DEF longer
<1>4. LastOf(r.previous, r.seen, longer)
  BY <1>2, <1>3 DEF WellMade, LastOf
<1>5. r.previous # 0 => r.previous \in 1 .. r.seen
  BY DEF WellMade, LastOf
<1>6. QED BY <1>2, <1>3, <1>4, <1>5 DEF WellMade, longer

\* So does its time, when time goes on.
LEMMA StampKept ==
  ASSUME NEW table \in Seq(RunRecord), NEW x \in RunRecord, NEW r \in RunRecord,
         NEW now \in Nat, NEW later \in Nat, now <= later,
         WellMade(r, table), Stamped(r, table, now)
  PROVE  Stamped(r, table, later) /\ Stamped(r, Append(table, x), later)
<1>1. r.seen \in 0 .. Len(table) /\ Len(table) \in Nat
  BY DEF WellMade
<1>2. \A j \in 1 .. r.seen : Append(table, x)[j] = table[j]
  BY <1>1
<1>3. r.stamp \in 1 .. later
  BY DEF Stamped
<1>4. QED BY <1>2, <1>3 DEF Stamped

LEMMA LatestIsLast ==
  ASSUME TypeOK, NEW previous \in LatestRuns
  PROVE  LastOf(previous, Len(runs), runs)
BY DEF LatestRuns, LastOf, TypeOK

\* Requests that only begin or end have nothing to keep.
LEMMA UnderwayKept ==
  ASSUME NEW c \in CallRecord, NEW table \in Seq(RunRecord), NEW x \in RunRecord,
         NEW now \in Nat, NEW snapshot,
         Underway(c, table, now, snapshot),
         c.pc = "commit" => c.run.stamp # x.stamp
  PROVE  Underway(c, Append(table, x), now, snapshot)
<1>1. c.run \in RunRecord
  BY DEF CallRecord
<1>2. c.pc \in {"store", "commit"} => WellMade(c.run, Append(table, x))
  BY <1>1, MadeKept DEF Underway
<1>3. ASSUME c.pc = "commit"
      PROVE  /\ Stamped(c.run, Append(table, x), now)
             /\ \A i \in DOMAIN Append(table, x) : Append(table, x)[i].stamp # c.run.stamp
  <2>1. WellMade(c.run, table) /\ Stamped(c.run, table, now)
    BY <1>3 DEF Underway
  <2>2. Stamped(c.run, Append(table, x), now)
    BY <1>1, <2>1, StampKept
  <2>3. \A i \in DOMAIN table : table[i].stamp # c.run.stamp
    BY <1>3 DEF Underway
  <2>4. /\ DOMAIN table = 1 .. Len(table) /\ DOMAIN Append(table, x) = 1 .. (Len(table) + 1)
        /\ Len(table) \in Nat
        /\ Append(table, x)[Len(table) + 1] = x
        /\ \A i \in 1 .. Len(table) : Append(table, x)[i] = table[i]
    OBVIOUS
  <2>5. QED BY <1>3, <2>2, <2>3, <2>4
<1>4. QED BY <1>2, <1>3 DEF Underway

\* The request that has graded its answers.
LEMMA GradedKept ==
  ASSUME TypeOK, EvalInv, NEW h \in Callers, GradeAndCompare(h)
  PROVE  EvalInv'
<1>1. PICK g \in Gradings, previous \in LatestRuns :
        \E gate \in IF previous = 0 THEN {"pass"}
                 ELSE RegressionGates(g.metrics, runs[previous].graded.metrics) :
         call' = [call EXCEPT ![h] = Doing("store", call[h].edition,
           [edition |-> call[h].edition, stamp |-> 0, seen |-> Len(runs),
            previous |-> previous, graded |-> g, quality |-> Quality(g.metrics),
            regression |-> gate])]
  BY DEF GradeAndCompare
<1>2. PICK gate \in IF previous = 0 THEN {"pass"}
                 ELSE RegressionGates(g.metrics, runs[previous].graded.metrics) :
         call' = [call EXCEPT ![h] = Doing("store", call[h].edition,
           [edition |-> call[h].edition, stamp |-> 0, seen |-> Len(runs),
            previous |-> previous, graded |-> g, quality |-> Quality(g.metrics),
            regression |-> gate])]
  BY <1>1
<1> DEFINE r == [edition |-> call[h].edition, stamp |-> 0, seen |-> Len(runs),
                 previous |-> previous, graded |-> g, quality |-> Quality(g.metrics),
                 regression |-> gate]
<1>3. call[h].edition = dataset /\ dataset # 0
  BY DEF EvalInv, Underway, GradeAndCompare
<1>4. WellMade(r, runs)
  <2>1. Len(runs) \in 0 .. Len(runs)
    BY DEF TypeOK
  <2>2. LastOf(previous, Len(runs), runs)
    BY LatestIsLast
  <2>3. previous # 0 => gate \in RegressionGates(g.metrics, runs[previous].graded.metrics)
    BY <1>2
  <2>4. QED BY <2>1, <2>2, <2>3 DEF WellMade
<1>5. r.edition = dataset
  BY <1>3
<1>6. call' = [call EXCEPT ![h] = Doing("store", call[h].edition, r)]
  BY <1>2
<1> HIDE DEF r
<1>7. Underway(Doing("store", call[h].edition, r), runs, clock, dataset)
  BY <1>3, <1>4, <1>5 DEF Underway, Doing
<1>8. /\ runs' = runs /\ clock' = clock /\ dataset' = dataset
      /\ call'[h] = Doing("store", call[h].edition, r)
      /\ \A k \in Callers : k # h => call'[k] = call[k]
  BY <1>6 DEF GradeAndCompare, TypeOK
<1>9. call'[h].pc # "commit"
  BY <1>8 DEF Doing
<1>10. \A k \in Callers : Underway(call'[k], runs, clock, dataset)
  BY <1>7, <1>8 DEF EvalInv
<1>11. OneEach'
  BY <1>8, <1>9 DEF EvalInv, OneEach
<1>12. QED BY <1>8, <1>10, <1>11 DEF EvalInv

\* The request that has the time of its row.
LEMMA InsertKept ==
  ASSUME TypeOK, EvalInv, NEW h \in Callers, Insert(h)
  PROVE  EvalInv'
<1> DEFINE r == call[h].run
           s == [r EXCEPT !.stamp = clock + 1]
           d == Doing("commit", call[h].edition, s)
<1>1. /\ r \in RunRecord /\ clock \in Nat /\ clock + 1 \in Nat
      /\ runs \in Seq(RunRecord)
  BY CallTypes DEF TypeOK
<1>2. /\ s \in RunRecord /\ s.stamp = clock + 1 /\ s.seen = r.seen
      /\ s.edition = r.edition /\ s.quality = r.quality /\ s.graded = r.graded
      /\ s.previous = r.previous /\ s.regression = r.regression
  BY <1>1, StampType DEF RunRecord
<1>3. /\ WellMade(r, runs) /\ r.edition = dataset
      /\ call[h].edition = dataset /\ dataset # 0
  BY DEF EvalInv, Underway, Insert
<1>4. \A i \in DOMAIN runs : runs[i].stamp <= clock /\ runs[i].stamp \in Nat
  BY <1>1 DEF EvalInv, Stored, Stamped
<1>5. WellMade(s, runs)
  BY <1>2, <1>3 DEF WellMade
<1>6. Stamped(s, runs, clock + 1)
  BY <1>1, <1>2, <1>3, <1>4 DEF Stamped, WellMade
<1>7. \A i \in DOMAIN runs : runs[i].stamp # s.stamp
  BY <1>1, <1>2, <1>4
<1>8. Underway(d, runs, clock + 1, dataset)
  BY <1>2, <1>3, <1>5, <1>6, <1>7 DEF Underway, Doing
<1>9. /\ runs' = runs /\ clock' = clock + 1 /\ dataset' = dataset /\ call'[h] = d
      /\ \A k \in Callers : k # h => call'[k] = call[k]
  BY DEF Insert, TypeOK
<1>10. d.run = s
  BY DEF Doing
<1> HIDE DEF r, s, d
<1>11. \A i \in DOMAIN runs : Stored(runs[i], runs, clock + 1, dataset)
  <2> SUFFICES ASSUME NEW i \in DOMAIN runs PROVE Stored(runs[i], runs, clock + 1, dataset)
    OBVIOUS
  <2>1. Stored(runs[i], runs, clock, dataset) /\ runs[i] \in RunRecord
    BY <1>1 DEF EvalInv
  <2>2. Stamped(runs[i], runs, clock + 1)
    BY <1>1, <1>2, <2>1, StampKept DEF Stored
  <2>3. QED BY <2>1, <2>2 DEF Stored
<1>12. ASSUME NEW k \in Callers, k # h PROVE Underway(call[k], runs, clock + 1, dataset)
  <2>1. Underway(call[k], runs, clock, dataset) /\ call[k].run \in RunRecord
    BY CallTypes DEF EvalInv
  <2>2. call[k].pc = "commit" => Stamped(call[k].run, runs, clock + 1)
    BY <1>1, <1>2, <2>1, StampKept DEF Underway
  <2>3. QED BY <2>1, <2>2 DEF Underway
<1>13. \A k \in Callers : Underway(call'[k], runs, clock + 1, dataset)
  BY <1>8, <1>9, <1>12
<1>14. ASSUME NEW k \in Callers, k # h, call[k].pc = "commit"
       PROVE  call[k].run.stamp # s.stamp
  <2>1. Stamped(call[k].run, runs, clock)
    BY <1>14 DEF EvalInv, Underway
  <2>2. QED BY <1>1, <1>2, <2>1 DEF Stamped
<1>15. OneEach'
  <2>1. \A i, j \in DOMAIN runs : runs[i].stamp = runs[j].stamp => i = j
    BY DEF EvalInv, OneEach
  <2>2. \A g, k \in Callers :
          call'[g].pc = "commit" /\ call'[k].pc = "commit" /\ g # k
            => call'[g].run.stamp # call'[k].run.stamp
    BY <1>9, <1>10, <1>14 DEF EvalInv, OneEach
  <2>3. QED BY <1>9, <2>1, <2>2 DEF OneEach
<1>16. QED BY <1>9, <1>11, <1>13, <1>15 DEF EvalInv

\* The request whose row is committed.
LEMMA CommitKept ==
  ASSUME TypeOK, EvalInv, NEW h \in Callers, Commit(h)
  PROVE  EvalInv'
<1> DEFINE r == call[h].run
           longer == Append(runs, r)
<1>1. /\ r \in RunRecord /\ clock \in Nat /\ runs \in Seq(RunRecord)
  BY CallTypes DEF TypeOK
<1>2. /\ WellMade(r, runs) /\ Stamped(r, runs, clock) /\ r.edition = dataset
      /\ dataset # 0 /\ \A i \in DOMAIN runs : runs[i].stamp # r.stamp
  BY DEF EvalInv, Underway, Commit
<1>3. /\ runs' = longer /\ clock' = clock /\ dataset' = dataset /\ call'[h] = Idle
      /\ \A k \in Callers : k # h => call'[k] = call[k]
  BY DEF Commit, TypeOK
<1>4. /\ Len(runs) \in Nat /\ DOMAIN runs = 1 .. Len(runs)
      /\ DOMAIN longer = 1 .. (Len(runs) + 1)
      /\ longer[Len(runs) + 1] = r
      /\ \A i \in 1 .. Len(runs) : longer[i] = runs[i]
  BY <1>1
<1>5. Idle.pc = "idle"
  BY DEF Idle, Doing
<1>6. ASSUME NEW i \in DOMAIN longer PROVE Stored(longer[i], longer, clock, dataset)
  <2>1. longer[i] \in RunRecord
    BY <1>1, <1>4, <1>6
  <2>2. /\ WellMade(longer[i], runs) /\ Stamped(longer[i], runs, clock)
        /\ longer[i].edition = dataset /\ dataset # 0
    BY <1>2, <1>4, <1>6 DEF EvalInv, Stored
  <2>3. WellMade(longer[i], longer)
    BY <1>1, <2>1, <2>2, MadeKept
  <2>4. Stamped(longer[i], longer, clock)
    BY <1>1, <2>1, <2>2, StampKept
  <2>5. QED BY <2>2, <2>3, <2>4 DEF Stored
<1> HIDE DEF r
<1>7. ASSUME NEW k \in Callers, k # h PROVE Underway(call[k], longer, clock, dataset)
  <2>1. Underway(call[k], runs, clock, dataset) /\ call[k] \in CallRecord
    BY CallTypes DEF EvalInv
  <2>2. call[k].pc = "commit" => call[k].run.stamp # r.stamp
    BY <1>7 DEF EvalInv, OneEach, Commit, r
  <2>3. QED BY <1>1, <2>1, <2>2, UnderwayKept
<1>8. Underway(Idle, longer, clock, dataset)
  BY <1>5 DEF Underway
<1>9. \A k \in Callers : Underway(call'[k], longer, clock, dataset)
  BY <1>3, <1>7, <1>8
<1>10. \A i, j \in DOMAIN longer : longer[i].stamp = longer[j].stamp => i = j
  BY <1>2, <1>4 DEF EvalInv, OneEach
<1> HIDE DEF longer
<1>11. OneEach'
  <2>1. \A g, k \in Callers :
          call'[g].pc = "commit" /\ call'[k].pc = "commit" /\ g # k
            => call'[g].run.stamp # call'[k].run.stamp
    BY <1>3, <1>5 DEF EvalInv, OneEach
  <2>2. QED BY <1>3, <1>10, <2>1 DEF OneEach
<1>12. QED BY <1>3, <1>6, <1>9, <1>11 DEF EvalInv

\* A request that begins or ends, with the table as it is.
LEMMA CallerKept ==
  ASSUME TypeOK, EvalInv, NEW h \in Callers, NEW d,
         call' = [call EXCEPT ![h] = d], d.pc # "commit",
         Underway(d, runs, clock, dataset), UNCHANGED <<dataset, runs, clock>>
  PROVE  EvalInv'
<1>1. /\ call'[h] = d /\ \A k \in Callers : k # h => call'[k] = call[k]
  BY DEF TypeOK
<1>2. \A k \in Callers : Underway(call'[k], runs, clock, dataset)
  BY <1>1 DEF EvalInv
<1>3. OneEach'
  BY <1>1 DEF EvalInv, OneEach
<1>4. QED BY <1>2, <1>3 DEF EvalInv

\* Every step keeps the invariant.
LEMMA EvalInvStep == TypeOK /\ EvalInv /\ [Next]_vars => EvalInv'
<1> SUFFICES ASSUME TypeOK, EvalInv, [Next]_vars PROVE EvalInv'
  OBVIOUS
<1>0. Underway(Idle, runs, clock, dataset) /\ Idle.pc = "idle"
  BY DEF Underway, Idle, Doing
<1>1. CASE EditFile
  BY <1>1 DEF EditFile, EvalInv, OneEach
<1>2. ASSUME NEW h \in Callers, Look(h) PROVE EvalInv'
  <2>1. CASE dataset # 0
    <3>1. Underway(Doing("grade", dataset, NoRun), runs, clock, dataset)
      BY <2>1 DEF Underway, Doing
    <3>2. Doing("grade", dataset, NoRun).pc # "commit"
      BY DEF Doing
    <3>3. call' = [call EXCEPT ![h] = Doing("grade", dataset, NoRun)]
      BY <1>2, <2>1 DEF Look
    <3>4. UNCHANGED <<dataset, runs, clock>>
      BY <1>2 DEF Look
    <3>5. QED BY <3>1, <3>2, <3>3, <3>4, CallerKept
  <2>2. CASE dataset = 0
    <3>1. Underway(Doing("create", file, NoRun), runs, clock, dataset)
      BY DEF Underway, Doing, TypeOK
    <3>2. Doing("create", file, NoRun).pc # "commit"
      BY DEF Doing
    <3>3. call' = [call EXCEPT ![h] = Doing("create", file, NoRun)]
      BY <1>2, <2>2 DEF Look
    <3>4. UNCHANGED <<dataset, runs, clock>>
      BY <1>2 DEF Look
    <3>5. QED BY <3>1, <3>2, <3>3, <3>4, CallerKept
  <2>3. QED BY <2>1, <2>2
<1>3. ASSUME NEW h \in Callers, Create(h) PROVE EvalInv'
  <2>1. dataset = 0 /\ call[h].edition # 0 /\ dataset' = call[h].edition
    BY <1>3 DEF Create, NameFree, EvalInv, Underway
  <2>2. DOMAIN runs = {}
    BY <2>1 DEF EvalInv, Stored
  <2>3. \A k \in Callers : call[k].pc \in {"idle", "create"}
    <3> SUFFICES ASSUME NEW k \in Callers PROVE call[k].pc \in {"idle", "create"}
      OBVIOUS
    <3>1. call[k].pc \notin {"grade", "store", "commit"}
      BY <2>1 DEF EvalInv, Underway
    <3>2. QED BY <3>1, CallTypes DEF CallRecord
  <2>4. /\ runs' = runs /\ clock' = clock
        /\ call'[h] = Doing("grade", call[h].edition, call[h].run)
        /\ \A k \in Callers : k # h => call'[k] = call[k]
    BY <1>3 DEF Create, TypeOK
  <2>5. Underway(Doing("grade", call[h].edition, call[h].run), runs, clock, dataset')
    BY <2>1 DEF Underway, Doing
  <2>6. \A k \in Callers : k # h => Underway(call[k], runs, clock, dataset')
    BY <2>3 DEF EvalInv, Underway
  <2>7. \A k \in Callers : call'[k].pc # "commit"
    BY <2>3, <2>4 DEF Doing
  <2>8. QED BY <2>2, <2>4, <2>5, <2>6, <2>7 DEF EvalInv, OneEach
<1>4. ASSUME NEW h \in Callers, Fail(h) PROVE EvalInv'
  BY <1>0, <1>4, CallerKept DEF Fail
<1>5. CASE UNCHANGED vars
  BY <1>5 DEF vars, EvalInv, OneEach
<1>6. QED
  BY <1>1, <1>2, <1>3, <1>4, <1>5, GradedKept, InsertKept, CommitKept DEF Next

LEMMA EvalInduction == Spec => [](TypeOK /\ EvalInv)
<1>1. Init => EvalInv
  <2> SUFFICES ASSUME Init PROVE EvalInv
    OBVIOUS
  <2>1. DOMAIN runs = {}
    BY DEF Init
  <2>2. \A h \in Callers : call[h].pc = "idle"
    BY DEF Init, Idle, Doing
  <2>3. QED BY <2>1, <2>2 DEF EvalInv, OneEach, Underway
<1>2. QED BY <1>1, EvalInvStep, EvalTypes, PTL DEF Spec

-----------------------------------------------------------------------------
(* EvalRuns: what follows *)

LEMMA RunTypes ==
  ASSUME TypeOK, NEW i \in DOMAIN runs
  PROVE  /\ DOMAIN runs = 1 .. Len(runs) /\ Len(runs) \in Nat
         /\ runs[i].stamp \in Nat /\ runs[i].seen \in Nat /\ runs[i].graded \in Gradings
<1>1. runs \in Seq(RunRecord)
  BY DEF TypeOK
<1>2. DOMAIN runs = 1 .. Len(runs) /\ Len(runs) \in Nat /\ runs[i] \in RunRecord
  BY <1>1
<1>3. QED BY <1>2 DEF RunRecord

\* All runs of a dataset were graded on the same questions.
THEOREM SnapshotIsOne == Spec => []OneSnapshot
<1>1. EvalInv => OneSnapshot
  BY DEF EvalInv, Stored, OneSnapshot
<1>2. QED BY <1>1, EvalInduction, PTL

\* A run that passes quality_gate answered 45 of 100 questions rightly, with a citation
\* and with confidence.
THEOREM PassMeansPassed == Spec => []PassBound
<1>1. TypeOK /\ EvalInv => PassBound
  <2> SUFFICES ASSUME TypeOK, EvalInv, NEW i \in DOMAIN runs, runs[i].quality = "pass"
               PROVE  100 * runs[i].graded.passed >= 45 * N
    BY DEF PassBound
  <2>1. runs[i].graded \in Gradings
    BY RunTypes
  <2>2. Quality(runs[i].graded.metrics) = "pass"
    BY DEF EvalInv, Stored, WellMade
  <2>3. QED BY <2>1, <2>2, PassedEnough
<1>2. QED BY <1>1, EvalInduction, PTL

\* The judge moves its count of right answers away from the keywords' by no more than
\* the questions it judged, and gives faithfulness to answers with citations only.
THEOREM JudgeIsContained == Spec => []JudgeOnlyWhereItJudged
<1>1. TypeOK => JudgeOnlyWhereItJudged
  BY VerdictsNear, FaithfulnessEarned, RunTypes DEF JudgeOnlyWhereItJudged
<1>2. QED BY <1>1, EvalTypes, PTL

\* A metric that lost more than 0.05 keeps regression_gate from passing.
LEMMA LossIsSeen ==
  ASSUME NEW now, NEW before, Worse(now, before)
  PROVE  "pass" \notin RegressionGates(now, before)
<1> DEFINE gates(bad) ==
             IF bad = {} THEN {"pass"}
             ELSE IF Cardinality(bad) >= 2 THEN {"fail"}
             ELSE {IF 100 * Loss(m, now, before) > 15 * Whole THEN "fail" ELSE "warn" : m \in bad}
                    \cup {"fail" : m \in {x \in bad : 100 * Loss(x, now, before) = 15 * Whole}}
<1>1. \A bad \in Regressed(now, before) : bad # {}
  BY DEF Regressed, Worse
<1>2. ASSUME NEW bad, bad # {} PROVE "pass" \notin gates(bad)
  BY <1>2
<1>3. RegressionGates(now, before) = UNION {gates(bad) : bad \in Regressed(now, before)}
  BY DEF RegressionGates
<1> HIDE DEF gates
<1>4. QED BY <1>1, <1>2, <1>3

\* The run before j in the table is the one j was compared with, unless they overlapped.
LEMMA ComparedWithLast ==
  ASSUME TypeOK, EvalInv, NEW i \in DOMAIN runs, NEW j \in DOMAIN runs,
         Precedes(i, j), i <= runs[j].seen
  PROVE  runs[j].previous = i
<1> DEFINE p == runs[j].previous
<1>1. /\ DOMAIN runs = 1 .. Len(runs) /\ Len(runs) \in Nat
      /\ \A k \in DOMAIN runs : runs[k].stamp \in Nat /\ runs[k].seen \in Nat
  BY RunTypes
<1>2. WellMade(runs[j], runs) /\ Stamped(runs[j], runs, clock)
  BY DEF EvalInv, Stored
<1>3. runs[j].seen \in 1 .. Len(runs)
  BY <1>1, <1>2 DEF WellMade
<1>4. /\ p \in 1 .. runs[j].seen /\ runs[i].stamp <= runs[p].stamp
  BY <1>1, <1>2, <1>3 DEF WellMade, LastOf
<1>5. p \in DOMAIN runs /\ runs[p].stamp < runs[j].stamp
  BY <1>1, <1>2, <1>3, <1>4 DEF Stamped
<1>6. runs[p].stamp <= runs[i].stamp
  BY <1>1, <1>5 DEF Precedes
<1>7. runs[p].stamp = runs[i].stamp
  BY <1>1, <1>4, <1>5, <1>6
<1>8. QED BY <1>5, <1>7 DEF EvalInv, OneEach

\* A drop from one run in the table to the next is reported, unless they overlapped.
THEOREM DropsAreReported == Spec => []DropIsReported
<1>1. TypeOK /\ EvalInv => DropIsReported
  <2> SUFFICES ASSUME TypeOK, EvalInv, NEW i \in DOMAIN runs, NEW j \in DOMAIN runs,
                      Precedes(i, j), i <= runs[j].seen,
                      Worse(runs[j].graded.metrics, runs[i].graded.metrics)
               PROVE  runs[j].regression # "pass"
    BY DEF DropIsReported
  <2>1. runs[j].previous = i /\ i # 0
    BY ComparedWithLast DEF TypeOK
  <2>2. WellMade(runs[j], runs)
    BY DEF EvalInv, Stored
  <2>3. runs[j].regression
          \in RegressionGates(runs[j].graded.metrics, runs[i].graded.metrics)
    BY <2>1, <2>2 DEF WellMade
  <2>4. QED BY <2>3, LossIsSeen
<1>2. QED BY <1>1, EvalInduction, PTL

=============================================================================
