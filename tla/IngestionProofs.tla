--------------------------- MODULE IngestionProofs ---------------------------
(* Theorems about Ingestion, for any number of documents, chunks, concurrent  *)
(* jobs and embedding profiles.                                               *)
EXTENDS Ingestion, FiniteSetTheorems, TLAPS

-----------------------------------------------------------------------------
(* The invariant *)

Types ==
  /\ doc \in [Docs -> Document]
  /\ file \in [Docs -> BOOLEAN]
  /\ chunk \in [Chunks -> ChunkRow]
  /\ vectors \in [Chunks -> Profiles \cup {NoProfile}]
  /\ dim \in Nat \cup {NoDim}
  /\ profile \in Profiles
  /\ tries \in [Docs -> 0 .. Attempts]
  /\ job \in [Jobs -> JobState]
  /\ owner \in [Chunks -> Docs \cup {NoDoc}]
  /\ retired \subseteq Profiles
  /\ suspect \subseteq Docs
  /\ cut \subseteq Docs

\* A row and a vector have the document their chunk was made for, and a row's
\* document exists (the foreign key).
Refers(c) ==
  /\ chunk[c].doc # NoDoc => owner[c] = chunk[c].doc /\ Exists(owner[c])
  /\ owner[c] = NoDoc => vectors[c] = NoProfile

\* Which steps a job of each kind can be at, and what it holds there.
Ingests(j) ==
  job[j].kind = "ingest" =>
    /\ job[j].pc \in {"parse", "embed", "commit"}
    /\ \E d \in Docs : job[j].docs = {d} /\ doc[d].status \in {"processing", "deleted"}
    /\ job[j].gone = {}
    /\ job[j].fresh = {} <=> job[j].pc = "parse"

Rebuilds(j) ==
  job[j].kind = "rebuild" =>
    /\ job[j].pc \in {"embed", "commit"}
    /\ job[j].fresh = {} /\ job[j].gone = {}
    /\ \A d \in job[j].docs : doc[d].status \in {"completed", "deleted"}

\* The documents whose old chunks a rechunk has swapped for a new one.
Exchanged(j) == {d \in job[j].docs \ job[j].todo : job[j].pc = "swap" => d # job[j].at}

Rechunks(j) ==
  job[j].kind = "rechunk" =>
    /\ job[j].pc \in {"drop", "swap", "embed", "commit"}
    /\ job[j].pc \in {"swap", "embed"} => job[j].at \in job[j].docs \ job[j].todo
    /\ job[j].pc = "commit" => job[j].todo = {}
    /\ \A d \in job[j].docs : doc[d].status \in {"completed", "deleted"}
    /\ {owner[c] : c \in job[j].fresh} = Exchanged(j)
    /\ \A c \in job[j].gone : owner[c] \in Exchanged(j)

Deletes(j) ==
  job[j].kind = "delete" =>
    /\ job[j].pc \in {"vectors", "file", "commit"}
    /\ job[j].fresh = {} /\ job[j].gone = {}
    /\ \E d \in Docs : job[j].docs = {d} /\ doc[d].status # "none"

\* A job works on its documents' chunks; those it inserted are no rows yet, are one
\* for a document, and keep the document from being deleted.
Holds(j) ==
  /\ job[j].kind = "none" <=> job[j].pc = "idle"
  /\ ~Busy(j) => job[j] = Idle
  /\ Busy(j) => job[j].profile = profile
  /\ \A c \in job[j].old \cup job[j].fresh : owner[c] \in job[j].docs
  /\ job[j].changed \subseteq job[j].old /\ job[j].gone \subseteq job[j].old
  /\ job[j].changedDocs \subseteq job[j].docs /\ job[j].todo \subseteq job[j].docs
  /\ \A c \in job[j].fresh : chunk[c].doc = NoDoc /\ Exists(owner[c])
  /\ \A c, k \in job[j].fresh : owner[c] = owner[k] => c = k

JobOK(j) == Holds(j) /\ Ingests(j) /\ Rebuilds(j) /\ Rechunks(j) /\ Deletes(j)

\* Two jobs at once: no row is inserted or deleted twice, one of them at most
\* ingests a document, and the documents they share are suspect.
Apart(j, r) ==
  /\ job[j].fresh \cap job[r].fresh = {} /\ job[j].gone \cap job[r].gone = {}
  /\ job[j].docs \cap job[r].docs \subseteq suspect
  /\ job[j].kind = "ingest" /\ job[r].kind = "ingest" => job[j].docs \cap job[r].docs = {}

\* A chunk that was inserted is none that a job loaded.
Unloaded == \A j, r \in Jobs : job[j].fresh \cap job[r].old = {}

Embedded(d) == {c \in Rows(d) : chunk[c].profile # NoProfile}

\* chunk_count, the embedding profile and the executions to come go with the status.
DocOK(d) ==
  /\ doc[d].status = "completed" => doc[d].count = 1 /\ tries[d] = 0
  /\ doc[d].status # "completed" => doc[d].count = 0
  /\ doc[d].profile \in retired \cup {profile, NoProfile}
  /\ IF doc[d].status = "completed" THEN Embedded(d) # {} ELSE Embedded(d) = {}

\* A document that is not suspect has one chunk row when it is completed and none
\* before; its job has loaded just that, and drops it when it inserts another.
Sound(d) ==
  d \notin suspect =>
    /\ IF doc[d].status = "completed" THEN \E c \in Chunks : Rows(d) = {c} ELSE Rows(d) = {}
    /\ \A j \in Jobs : d \in job[j].docs => Rows(d) = OldOf(j, d)
    /\ \A j \in Jobs : job[j].kind = "rechunk" /\ d \in Exchanged(j) => Rows(d) \subseteq job[j].gone

\* Job j has deleted the vectors of the chunks it loaded of document d.
Cleared(j, d) ==
  \/ job[j].kind = "rechunk" /\ d \in job[j].docs \ job[j].todo
  \/ job[j].kind = "delete" /\ d \in job[j].docs /\ job[j].pc \in {"file", "commit"}

\* Job j has stored the vector of the chunk c it inserted.
Written(j, c) ==
  job[j].pc # "embed" \/ (job[j].kind = "rechunk" /\ owner[c] # job[j].at)

\* A vector has the collection's dimension and, unless its document is suspect, a
\* chunk row or a job that is about to commit one.
Located(c) ==
  vectors[c] # NoProfile =>
    /\ dim = Dimension[vectors[c]]
    /\ chunk[c].doc = NoDoc /\ owner[c] \notin suspect => \E j \in Jobs : c \in job[j].fresh

\* The deployed profile and those whose vectors the cache may give for its own.
Current == Origins(profile)

\* What a job has done to the vectors of the chunks it loaded or inserted stands.
Stands(j) ==
  /\ \A c \in job[j].old : owner[c] \notin suspect =>
       /\ Cleared(j, owner[c]) => vectors[c] = NoProfile
       /\ job[j].kind = "rebuild" /\ job[j].pc = "commit" => vectors[c] \in Current
  /\ \A c \in job[j].fresh : Written(j, c) => vectors[c] \in Current

\* The chunk row of a document with the mark of the deployed profile has a vector of
\* its model and length, until a job clears it.
Served(d) ==
  d \notin suspect /\ doc[d].status = "completed" /\ doc[d].profile = profile
                   /\ profile \notin retired =>
    \/ \E j \in Jobs : Cleared(j, d)
    \/ \A c \in Rows(d) : vectors[c] \in Current

Tables == Types /\ \A c \in Chunks : Refers(c)

Workings ==
  /\ \A j \in Jobs : JobOK(j)
  /\ \A j, r \in Jobs : j # r => Apart(j, r)
  /\ Unloaded

Documents == \A d \in Docs : DocOK(d) /\ Sound(d) /\ Served(d)

Vectors ==
  /\ \A c \in Chunks : Located(c)
  /\ \A j \in Jobs : Stands(j)

IInv == Tables /\ Workings /\ Documents /\ Vectors /\ ProcessingIsOwned

-----------------------------------------------------------------------------
(* What a step of one job leaves to the others *)

\* The documents of job j before and after its step.
Area(j) == job[j].docs \cup job'[j].docs

Frame(j) ==
  /\ job' \in [Jobs -> JobState]
  /\ \A r \in Jobs \ {j} : job'[r] = job[r]
  /\ owner' \in [Chunks -> Docs \cup {NoDoc}]
  /\ \A c \in Chunks : owner[c] # NoDoc => owner'[c] = owner[c]
  /\ suspect \subseteq suspect' /\ suspect' \subseteq Docs
  /\ \A r \in Jobs \ {j} : Area(j) \cap job[r].docs \subseteq suspect'
  /\ profile' = profile /\ retired' = retired /\ Current' = Current
  /\ cut \subseteq cut' /\ cut' \subseteq Docs

\* Rows change only in the area, and what another job relies on stays.
TablesLocal(j) ==
  /\ doc' \in [Docs -> Document]
  /\ chunk' \in [Chunks -> ChunkRow]
  /\ tries' \in [Docs -> 0 .. Attempts]
  /\ \A d \in Docs \ Area(j) : doc'[d] = doc[d] /\ tries'[d] = tries[d]
  /\ \A c \in Chunks : chunk'[c].doc \in {NoDoc, owner'[c]}
  /\ \A c \in Chunks : owner'[c] \notin Area(j) => chunk'[c] = chunk[c]
  /\ \A r \in Jobs \ {j} : \A d \in job[r].docs :
       \/ doc'[d].status \in {doc[d].status, "deleted"}
       \/ job[r].kind = "delete" /\ doc'[d].status # "none"
  /\ \A r \in Jobs \ {j} : \A c \in job[r].fresh :
       chunk'[c] = chunk[c] /\ doc'[owner[c]].status \notin {"none", "deleted"}

\* Vectors outside the area go only with a collection of another dimension, which
\* holds none of the deployed model and length.
VectorsLocal(j) ==
  /\ vectors' \in [Chunks -> Profiles \cup {NoProfile}]
  /\ dim' \in Nat \cup {NoDim}
  /\ \A c \in Chunks :
       owner'[c] \notin Area(j) \/ (\E r \in Jobs \ {j} : c \in job[r].fresh) =>
         vectors'[c] = vectors[c] \/ (vectors'[c] = NoProfile /\ vectors[c] \notin Current)
  /\ \A c \in Chunks : vectors'[c] # NoProfile => dim' = Dimension[vectors'[c]]

Local(j) == Frame(j) /\ TablesLocal(j) /\ VectorsLocal(j)

\* The parts of the invariant about one job, one pair, one chunk, one document.
LEMMA Parts ==
  ASSUME IInv
  PROVE  /\ Types
         /\ \A c \in Chunks : Refers(c) /\ Located(c)
         /\ \A j \in Jobs : JobOK(j) /\ Stands(j)
         /\ \A j, r \in Jobs : j # r => Apart(j, r)
         /\ \A j, r \in Jobs : job[j].fresh \cap job[r].old = {}
         /\ \A d \in Docs : DocOK(d) /\ Sound(d) /\ Served(d)
         /\ ProcessingIsOwned
BY DEF IInv, Tables, Workings, Documents, Vectors, Unloaded

LEMMA JobTypes ==
  ASSUME Types, NEW j \in Jobs
  PROVE  /\ job[j] \in JobState
         /\ job[j].docs \subseteq Docs /\ job[j].todo \subseteq Docs
         /\ job[j].old \subseteq Chunks /\ job[j].fresh \subseteq Chunks
         /\ job[j].gone \subseteq Chunks /\ job[j].changed \subseteq Chunks
         /\ job[j].changedDocs \subseteq Docs
         /\ job[j].at \in Docs \cup {NoDoc} /\ job[j].profile \in Profiles \cup {NoProfile}
BY DEF Types, JobState

LEMMA OwnersKept ==
  ASSUME IInv, NEW j \in Jobs, Frame(j), NEW r \in Jobs
  PROVE  \A c \in job[r].old \cup job[r].fresh :
           c \in Chunks /\ owner[c] \in job[r].docs /\ owner[c] \in Docs /\ owner'[c] = owner[c]
<1>1. Types /\ JobOK(r)
  BY Parts
<1>2. \A c \in job[r].old \cup job[r].fresh : owner[c] \in job[r].docs
  BY <1>1 DEF JobOK, Holds
<1>3. NoDoc \notin Docs
  BY IngestionAssumption
<1> QED
  BY <1>1, <1>2, <1>3, JobTypes DEF Frame

LEMMA OtherJobStays ==
  ASSUME IInv, NEW j \in Jobs, Local(j), NEW r \in Jobs \ {j}
  PROVE  JobOK(r)'
<1>1. Types /\ JobOK(r)
  BY Parts
<1>2. job'[r] = job[r] /\ profile' = profile
  BY DEF Local, Frame
<1>3. \A c \in job[r].old \cup job[r].fresh :
        c \in Chunks /\ owner[c] \in job[r].docs /\ owner[c] \in Docs /\ owner'[c] = owner[c]
  BY OwnersKept DEF Local
<1>4. \A d \in job[r].docs :
        \/ doc'[d].status \in {doc[d].status, "deleted"}
        \/ job[r].kind = "delete" /\ doc'[d].status # "none"
  BY DEF Local, TablesLocal
<1>5. \A c \in job[r].fresh :
        chunk'[c] = chunk[c] /\ doc'[owner[c]].status \notin {"none", "deleted"}
  BY DEF Local, TablesLocal
<1>6. Holds(r)'
  BY <1>1, <1>2, <1>3, <1>5 DEF JobOK, Holds, Busy, Exists
<1>7. Ingests(r)'
  BY <1>1, <1>2, <1>4 DEF JobOK, Ingests
<1>8. Rebuilds(r)'
  BY <1>1, <1>2, <1>4 DEF JobOK, Rebuilds
<1>9. Exchanged(r)' = Exchanged(r)
  BY <1>2 DEF Exchanged
<1>10. \A c \in job[r].gone : owner'[c] = owner[c]
  BY <1>1, <1>3 DEF JobOK, Holds
<1>11. {owner[c] : c \in job[r].fresh}' = {owner[c] : c \in job[r].fresh}
  BY <1>2, <1>3
<1>12. Rechunks(r)'
  BY <1>1, <1>2, <1>4, <1>9, <1>10, <1>11 DEF JobOK, Rechunks
<1>13. Deletes(r)'
  BY <1>1, <1>2, <1>4 DEF JobOK, Deletes
<1> QED
  BY <1>6, <1>7, <1>8, <1>12, <1>13 DEF JobOK

LEMMA OtherStands ==
  ASSUME IInv, NEW j \in Jobs, Local(j), NEW r \in Jobs \ {j}
  PROVE  Stands(r)'
<1>1. Stands(r)
  BY Parts
<1>2. job'[r] = job[r] /\ suspect \subseteq suspect' /\ Current' = Current
  BY DEF Local, Frame
<1>3. \A c \in job[r].old \cup job[r].fresh :
        c \in Chunks /\ owner[c] \in job[r].docs /\ owner[c] \in Docs /\ owner'[c] = owner[c]
  BY OwnersKept DEF Local
<1>4. Area(j) \cap job[r].docs \subseteq suspect'
  BY DEF Local, Frame
<1>5. \A c \in Chunks :
       owner'[c] \notin Area(j) \/ (\E q \in Jobs \ {j} : c \in job[q].fresh) =>
         vectors'[c] = vectors[c] \/ (vectors'[c] = NoProfile /\ vectors[c] \notin Current)
  BY DEF Local, VectorsLocal
<1>6. ASSUME NEW c \in job[r].old, owner'[c] \notin suspect'
      PROVE  /\ Cleared(r, owner[c])' => vectors'[c] = NoProfile
             /\ job[r].kind = "rebuild" /\ job[r].pc = "commit" => vectors'[c] \in Current
  <2>1. owner'[c] \notin Area(j) /\ owner[c] \notin suspect /\ c \in Chunks /\ owner'[c] = owner[c]
    BY <1>2, <1>3, <1>4, <1>6
  <2>2. vectors'[c] = vectors[c] \/ (vectors'[c] = NoProfile /\ vectors[c] \notin Current)
    BY <1>5, <2>1
  <2>3. Cleared(r, owner[c])' <=> Cleared(r, owner[c])
    BY <1>2, <2>1 DEF Cleared
  <2> QED
    BY <1>1, <1>6, <2>1, <2>2, <2>3 DEF Stands
<1>7. ASSUME NEW c \in job[r].fresh, Written(r, c)'
      PROVE  vectors'[c] \in Current
  <2>1. c \in Chunks /\ owner'[c] = owner[c] /\ Written(r, c)
    BY <1>2, <1>3, <1>7 DEF Written
  <2>2. vectors'[c] = vectors[c] \/ (vectors'[c] = NoProfile /\ vectors[c] \notin Current)
    BY <1>5, <2>1
  <2> QED
    BY <1>1, <2>1, <2>2 DEF Stands
<1> QED
  BY <1>2, <1>6, <1>7 DEF Stands

LEMMA OthersApart ==
  ASSUME IInv, NEW j \in Jobs, Local(j), NEW r \in Jobs \ {j}, NEW q \in Jobs \ {j}, r # q
  PROVE  Apart(r, q)'
<1>1. Apart(r, q)
  BY Parts
<1> QED
  BY <1>1 DEF Apart, Local, Frame

\* The rows of a document outside the area.
LEMMA OutsideRows ==
  ASSUME IInv, NEW j \in Jobs, Local(j), NEW d \in Docs \ Area(j)
  PROVE  /\ Rows(d)' = Rows(d)
         /\ \A c \in Rows(d) : c \in Chunks /\ chunk'[c] = chunk[c] /\ owner[c] = d /\ owner'[c] = d
<1>1. \A c \in Chunks : Refers(c)
  BY Parts
<1>2. d # NoDoc
  BY IngestionAssumption
<1>3. /\ \A c \in Chunks : owner[c] # NoDoc => owner'[c] = owner[c]
      /\ \A c \in Chunks : chunk'[c].doc \in {NoDoc, owner'[c]}
      /\ \A c \in Chunks : owner'[c] \notin Area(j) => chunk'[c] = chunk[c]
  BY DEF Local, Frame, TablesLocal
<1>4. \A c \in Rows(d) : c \in Chunks /\ chunk'[c] = chunk[c] /\ owner[c] = d /\ owner'[c] = d
  BY <1>1, <1>2, <1>3 DEF Rows, Refers
<1>5. \A c \in Chunks : chunk'[c].doc = d => chunk[c].doc = d
  BY <1>2, <1>3
<1> QED
  BY <1>4, <1>5 DEF Rows

LEMMA OutsideDoc ==
  ASSUME IInv, NEW j \in Jobs, Local(j), NEW d \in Docs \ Area(j)
  PROVE  DocOK(d)'
<1>1. DocOK(d)
  BY Parts
<1>2. /\ Rows(d)' = Rows(d)
      /\ \A c \in Rows(d) : c \in Chunks /\ chunk'[c] = chunk[c] /\ owner[c] = d /\ owner'[c] = d
  BY OutsideRows
<1>3. Embedded(d)' = Embedded(d)
  BY <1>2 DEF Embedded
<1>4. doc'[d] = doc[d] /\ tries'[d] = tries[d] /\ profile' = profile /\ retired' = retired
  BY DEF Local, Frame, TablesLocal
<1> QED
  BY <1>1, <1>3, <1>4 DEF DocOK

\* A job that has the document is another one and stays as it is.
LEMMA OutsideJobs ==
  ASSUME IInv, NEW j \in Jobs, Local(j), NEW d \in Docs \ Area(j), NEW r \in Jobs
  PROVE  /\ d \in job'[r].docs <=> d \in job[r].docs
         /\ d \in job[r].docs => r # j /\ job'[r] = job[r]
BY DEF Local, Frame, Area

LEMMA OutsideSound ==
  ASSUME IInv, NEW j \in Jobs, Local(j), NEW d \in Docs \ Area(j)
  PROVE  Sound(d)'
<1>1. Sound(d)
  BY Parts
<1>2. Rows(d)' = Rows(d)
  BY OutsideRows
<1>3. doc'[d] = doc[d] /\ suspect \subseteq suspect'
  BY DEF Local, Frame, TablesLocal
<1>4. ASSUME NEW r \in Jobs, d \in job'[r].docs
      PROVE  OldOf(r, d)' = OldOf(r, d)
  <2>1. job'[r] = job[r]
    BY <1>4, OutsideJobs
  <2>2. \A c \in job[r].old : owner'[c] = owner[c]
    BY OwnersKept DEF Local
  <2> QED
    BY <2>1, <2>2 DEF OldOf
<1>5. \A r \in Jobs : d \in job'[r].docs => job'[r] = job[r] /\ d \in job[r].docs
  BY OutsideJobs
<1>6. \A r \in Jobs : Exchanged(r)' \subseteq job'[r].docs
  BY DEF Exchanged
<1>7. \A r \in Jobs : d \in Exchanged(r)' => d \in Exchanged(r) /\ job'[r] = job[r]
  BY <1>5, <1>6 DEF Exchanged
<1>8. SUFFICES ASSUME d \notin suspect'
               PROVE  Sound(d)'
  BY DEF Sound
<1>9. \A r \in Jobs : d \in job'[r].docs => Rows(d)' = OldOf(r, d)'
  BY <1>1, <1>2, <1>3, <1>4, <1>5, <1>8 DEF Sound
<1>10. \A r \in Jobs : job'[r].kind = "rechunk" /\ d \in Exchanged(r)' => Rows(d)' \subseteq job'[r].gone
  BY <1>1, <1>2, <1>3, <1>7, <1>8 DEF Sound
<1>11. IF doc'[d].status = "completed" THEN \E c \in Chunks : Rows(d)' = {c} ELSE Rows(d)' = {}
  BY <1>1, <1>2, <1>3, <1>8 DEF Sound
<1> QED
  BY <1>9, <1>10, <1>11 DEF Sound

LEMMA OutsideServed ==
  ASSUME IInv, NEW j \in Jobs, Local(j), NEW d \in Docs \ Area(j)
  PROVE  Served(d)'
<1>1. Served(d)
  BY Parts
<1>2. /\ Rows(d)' = Rows(d)
      /\ \A c \in Rows(d) : c \in Chunks /\ owner'[c] = d
  BY OutsideRows
<1>3. /\ doc'[d] = doc[d] /\ suspect \subseteq suspect'
      /\ profile' = profile /\ retired' = retired /\ Current' = Current
  BY DEF Local, Frame, TablesLocal
<1>4. \A c \in Rows(d) : vectors[c] \in Current => vectors'[c] \in Current
  BY <1>2 DEF Local, VectorsLocal
<1>5. ASSUME NEW r \in Jobs, Cleared(r, d)
      PROVE  Cleared(r, d)'
  <2>1. job'[r] = job[r]
    BY <1>5, OutsideJobs DEF Cleared
  <2> QED
    BY <1>5, <2>1 DEF Cleared
<1> QED
  BY <1>1, <1>2, <1>3, <1>4, <1>5 DEF Served

LEMMA OutsideChunk ==
  ASSUME IInv, NEW j \in Jobs, Local(j), NEW c \in Chunks, owner'[c] \notin Area(j)
  PROVE  Refers(c)' /\ Located(c)'
<1>1. Refers(c) /\ Located(c) /\ Types
  BY Parts
<1>2. /\ chunk'[c] = chunk[c] /\ (owner[c] # NoDoc => owner'[c] = owner[c])
      /\ chunk'[c].doc \in {NoDoc, owner'[c]} /\ owner'[c] \in Docs \cup {NoDoc}
      /\ \A d \in Docs \ Area(j) : doc'[d] = doc[d]
      /\ suspect \subseteq suspect'
  BY DEF Local, Frame, TablesLocal
<1>3. /\ vectors'[c] = vectors[c] \/ vectors'[c] = NoProfile
      /\ vectors'[c] # NoProfile => dim' = Dimension[vectors'[c]]
  BY DEF Local, VectorsLocal
<1>4. Refers(c)'
  BY <1>1, <1>2, <1>3 DEF Refers, Exists
<1>5. ASSUME NEW r \in Jobs, c \in job[r].fresh
      PROVE  c \in job'[r].fresh
  <2>1. owner[c] \in job[r].docs /\ owner[c] \in Docs /\ owner'[c] = owner[c]
    BY <1>5, OwnersKept DEF Local
  <2>2. r # j
    BY <2>1 DEF Area
  <2> QED
    BY <1>5, <2>2 DEF Local, Frame
<1>6. vectors'[c] # NoProfile => owner[c] # NoDoc
  BY <1>1, <1>3 DEF Refers
<1>7. Located(c)'
  BY <1>1, <1>2, <1>3, <1>5, <1>6 DEF Located
<1> QED
  BY <1>4, <1>7

Owned(d) ==
  doc[d].status = "processing" =>
    \/ \E j \in Jobs : job[j].kind = "ingest" /\ d \in job[j].docs
    \/ tries[d] = 0 /\ d \in cut

LEMMA OutsideOwned ==
  ASSUME IInv, NEW j \in Jobs, Local(j), NEW d \in Docs \ Area(j)
  PROVE  Owned(d)'
<1>1. Owned(d)
  BY Parts DEF ProcessingIsOwned, Owned
<1>2. doc'[d] = doc[d] /\ tries'[d] = tries[d] /\ cut \subseteq cut'
  BY DEF Local, Frame, TablesLocal
<1>3. \A r \in Jobs : d \in job[r].docs => job'[r] = job[r]
  BY OutsideJobs
<1> QED
  BY <1>1, <1>2, <1>3 DEF Owned

LEMMA CurrentProfiles ==
  ASSUME Types
  PROVE  /\ Current \subseteq Profiles /\ NoProfile \notin Current /\ profile \in Current
         /\ \A q \in Current : Dimension[q] = Dimension[profile]
BY IngestionAssumption DEF Types, Current, Origins

LEMMA CurrentStays ==
  ASSUME profile' = profile, retired' = retired
  PROVE  Current' = Current
BY DEF Current, Origins

\* What is left to show of a step of job j.
Inside(j) ==
  /\ JobOK(j) /\ Stands(j)
  /\ \A r \in Jobs \ {j} :
       /\ job[j].fresh \cap job[r].fresh = {} /\ job[j].gone \cap job[r].gone = {}
       /\ job[j].kind = "ingest" /\ job[r].kind = "ingest" => job[j].docs \cap job[r].docs = {}
       /\ job[j].fresh \cap job[r].old = {} /\ job[r].fresh \cap job[j].old = {}
  /\ job[j].fresh \cap job[j].old = {}

InArea(d) == DocOK(d) /\ Sound(d) /\ Served(d) /\ Owned(d)

LEMMA LocalStep ==
  ASSUME IInv, NEW j \in Jobs, Local(j), file' \in [Docs -> BOOLEAN], Inside(j)',
         \A d \in Area(j) : InArea(d)',
         \A c \in Chunks : owner'[c] \in Area(j) => Refers(c)' /\ Located(c)'
  PROVE  IInv'
<1>1. Types'
  BY Parts DEF Types, Local, Frame, TablesLocal, VectorsLocal
<1>2. \A c \in Chunks : Refers(c)' /\ Located(c)'
  BY OutsideChunk
<1>3. \A r \in Jobs : JobOK(r)' /\ Stands(r)'
  BY OtherJobStays, OtherStands DEF Inside
<1>4. ASSUME NEW r \in Jobs, NEW q \in Jobs, r # q
      PROVE  Apart(r, q)'
  <2>1. CASE r # j /\ q # j
    BY <1>4, <2>1, OthersApart
  <2>2. CASE r = j
    <3>1. Area(j) \cap job[q].docs \subseteq suspect' /\ job'[q] = job[q]
      BY <1>4, <2>2 DEF Local, Frame
    <3>2. job'[j].docs \cap job'[q].docs \subseteq suspect'
      BY <3>1 DEF Area
    <3> QED
      BY <1>4, <2>2, <3>2 DEF Inside, Apart
  <2>3. CASE q = j
    <3>1. Area(j) \cap job[r].docs \subseteq suspect' /\ job'[r] = job[r]
      BY <1>4, <2>3 DEF Local, Frame
    <3>2. job'[r].docs \cap job'[j].docs \subseteq suspect'
      BY <3>1 DEF Area
    <3> QED
      BY <1>4, <2>3, <3>2 DEF Inside, Apart
  <2> QED
    BY <2>1, <2>2, <2>3
<1>5. ASSUME NEW r \in Jobs, NEW q \in Jobs
      PROVE  job'[r].fresh \cap job'[q].old = {}
  <2>1. CASE r # j /\ q # j
    <3>1. job'[r] = job[r] /\ job'[q] = job[q]
      BY <2>1 DEF Local, Frame
    <3> QED
      BY <3>1, Parts
  <2>2. CASE r = j \/ q = j
    BY <2>2 DEF Inside
  <2> QED
    BY <2>1, <2>2
<1>6. \A d \in Docs : DocOK(d)' /\ Sound(d)' /\ Served(d)' /\ Owned(d)'
  BY OutsideDoc, OutsideSound, OutsideServed, OutsideOwned DEF InArea
<1>7. ProcessingIsOwned'
  BY <1>6 DEF ProcessingIsOwned, Owned
<1> QED
  BY <1>1, <1>2, <1>3, <1>4, <1>5, <1>6, <1>7 DEF IInv, Tables, Workings, Documents, Vectors, Unloaded

-----------------------------------------------------------------------------
(* The vector store *)

\* Only the vectors of C change, and those of other profiles than the deployed one.
Spares(C) ==
  /\ vectors' \in [Chunks -> Profiles \cup {NoProfile}]
  /\ dim' \in Nat \cup {NoDim}
  /\ \A c \in Chunks \ C :
       vectors'[c] = vectors[c] \/ (vectors'[c] = NoProfile /\ vectors[c] \notin Current)
  /\ \A c \in Chunks : vectors'[c] # NoProfile => dim' = Dimension[vectors'[c]]

\* A collection that holds a vector of the deployed profile is not dropped.
LEMMA KeptVectors ==
  ASSUME IInv, NEW c \in Chunks
  PROVE  /\ Kept(profile)[c] \in {vectors[c], NoProfile}
         /\ vectors[c] \in Current => Kept(profile)[c] = vectors[c]
         /\ Kept(profile)[c] # NoProfile => Dimension[Kept(profile)[c]] = Dimension[profile]
<1>1. Types /\ Located(c)
  BY Parts
<1>2. profile \in Profiles /\ NoProfile \notin Profiles /\ NoDim \notin Nat
      /\ Dimension \in [Profiles -> Nat]
  BY <1>1, IngestionAssumption DEF Types
<1>3. NoProfile \notin Current /\ \A q \in Current : Dimension[q] = Dimension[profile]
  BY <1>1, CurrentProfiles
<1> QED
  BY <1>1, <1>2, <1>3 DEF Located, Kept, Mismatched, Types

LEMMA UpsertStores ==
  ASSUME IInv, NEW C \in SUBSET Chunks, Upsert(C, profile)
  PROVE  Spares(C) /\ \A c \in C : vectors'[c] \in Current
<1>1. profile \in Profiles /\ NoProfile \notin Profiles /\ Dimension[profile] \in Nat
      /\ vectors \in [Chunks -> Profiles \cup {NoProfile}]
  BY Parts, IngestionAssumption DEF Types
<1>2. /\ Current \subseteq Profiles /\ NoProfile \notin Current
      /\ \A q \in Current : Dimension[q] = Dimension[profile]
  BY Parts, CurrentProfiles
<1>3. PICK from \in [C -> Current] :
        vectors' = [c \in Chunks |-> IF c \in C THEN from[c] ELSE Kept(profile)[c]]
  BY DEF Upsert, Current
<1>4. /\ \A c \in C : vectors'[c] \in Current
      /\ \A c \in Chunks \ C : vectors'[c] = Kept(profile)[c]
  BY <1>3
<1>5. \A c \in Chunks : Kept(profile)[c] \in Profiles \cup {NoProfile}
  BY <1>1, KeptVectors
<1>6. vectors' \in [Chunks -> Profiles \cup {NoProfile}]
  <2>1. \A c \in Chunks : (IF c \in C THEN from[c] ELSE Kept(profile)[c]) \in Profiles \cup {NoProfile}
    BY <1>2, <1>5
  <2> QED
    BY <1>3, <2>1
<1>7. dim' = Dimension[profile]
  BY DEF Upsert
<1>8. \A c \in Chunks \ C :
        vectors'[c] = vectors[c] \/ (vectors'[c] = NoProfile /\ vectors[c] \notin Current)
  BY <1>4, KeptVectors
<1>9. \A c \in Chunks : vectors'[c] # NoProfile => dim' = Dimension[vectors'[c]]
  BY <1>2, <1>4, <1>7, KeptVectors
<1> QED
  BY <1>1, <1>4, <1>6, <1>7, <1>8, <1>9 DEF Spares

LEMMA UpsertBreaksSpares ==
  ASSUME IInv, NEW C \in SUBSET Chunks, UpsertBreaks(C, profile)
  PROVE  Spares(C)
<1>1. profile \in Profiles /\ NoProfile \notin Profiles /\ Dimension[profile] \in Nat
      /\ vectors \in [Chunks -> Profiles \cup {NoProfile}] /\ dim \in Nat \cup {NoDim}
  BY Parts, IngestionAssumption DEF Types
<1>2. CASE UpsertHalf(C, profile)
  <2>1. /\ \A c \in Chunks : vectors'[c] = IF c \in C THEN NoProfile ELSE Kept(profile)[c]
        /\ vectors' = [c \in Chunks |-> IF c \in C THEN NoProfile ELSE Kept(profile)[c]]
        /\ dim' = Dimension[profile]
    BY <1>2 DEF UpsertHalf
  <2>2. \A c \in Chunks : Kept(profile)[c] \in Profiles \cup {NoProfile}
    BY <1>1, KeptVectors
  <2>3. vectors' \in [Chunks -> Profiles \cup {NoProfile}]
    BY <1>1, <2>1, <2>2
  <2> QED
    BY <1>1, <2>1, <2>3, KeptVectors DEF Spares
<1>3. CASE UNCHANGED <<vectors, dim>>
  BY <1>1, <1>3, Parts DEF Spares, Located
<1>4. CASE Upsert(C, profile)
  BY <1>4, UpsertStores
<1> QED
  BY <1>2, <1>3, <1>4 DEF UpsertBreaks

LEMMA RemoveDeletes ==
  ASSUME IInv, NEW C \in SUBSET Chunks, Remove(C)
  PROVE  Spares(C) /\ \A c \in C : vectors'[c] = NoProfile
<1>1. vectors \in [Chunks -> Profiles \cup {NoProfile}] /\ dim \in Nat \cup {NoDim}
  BY Parts DEF Types
<1>2. vectors' \in [Chunks -> Profiles \cup {NoProfile}]
  BY <1>1 DEF Remove
<1> QED
  BY <1>1, <1>2, Parts DEF Remove, Spares, Located

LEMMA VectorsUntouched ==
  ASSUME IInv, UNCHANGED <<vectors, dim>>
  PROVE  Spares({})
BY Parts DEF Types, Spares, Located

\* A job's own chunks are no other job's new ones.
LEMMA SparesOthers ==
  ASSUME IInv, NEW j \in Jobs, NEW C \in SUBSET (job[j].old \cup job[j].fresh), Spares(C),
         Frame(j)
  PROVE  VectorsLocal(j)
<1>1. \A c \in C : owner'[c] \in Area(j)
  BY OwnersKept DEF Area
<1>2. \A r \in Jobs \ {j} : \A c \in C : c \notin job[r].fresh
  BY Parts DEF Apart
<1> QED
  BY <1>1, <1>2 DEF Spares, VectorsLocal

-----------------------------------------------------------------------------
(* The job table *)

LEMMA StepFrame ==
  ASSUME Types, NEW j \in Jobs, NEW new \in JobState, Step(j, new),
         new.docs = job[j].docs, suspect' = suspect, profile' = profile, retired' = retired,
         cut' = cut,
         owner' \in [Chunks -> Docs \cup {NoDoc}],
         \A c \in Chunks : owner[c] # NoDoc => owner'[c] = owner[c],
         \A r \in Jobs \ {j} : job[j].docs \cap job[r].docs \subseteq suspect
  PROVE  Frame(j) /\ job'[j] = new /\ Area(j) = job[j].docs
<1>1. job \in [Jobs -> JobState] /\ suspect \subseteq Docs
  BY DEF Types
<1>2. job' = [job EXCEPT ![j] = new]
  BY DEF Step
<1>3. job' \in [Jobs -> JobState] /\ job'[j] = new /\ \A r \in Jobs \ {j} : job'[r] = job[r]
  BY <1>1, <1>2
<1>4. Area(j) = job[j].docs
  BY <1>3 DEF Area
<1>5. Current' = Current /\ cut \subseteq cut' /\ cut' \subseteq Docs
  BY CurrentStays DEF Types
<1> QED
  BY <1>1, <1>3, <1>4, <1>5 DEF Frame

LEMMA IdleState == Idle \in JobState
BY DEF Idle, JobState

LEMMA Overlaps ==
  ASSUME IInv, NEW j \in Jobs
  PROVE  \A r \in Jobs \ {j} : job[j].docs \cap job[r].docs \subseteq suspect
BY Parts DEF Apart

LEMMA EndFrame ==
  ASSUME IInv, NEW j \in Jobs, NEW ok \in BOOLEAN, End(j, ok),
         profile' = profile, retired' = retired, owner' = owner,
         cut' = cut \/ cut' = cut \cup job[j].docs
  PROVE  /\ Frame(j) /\ job'[j] = Idle /\ Area(j) = job[j].docs
         /\ ok => suspect' = suspect
         /\ ~ok => job[j].docs \subseteq suspect'
<1>1. Types /\ job \in [Jobs -> JobState] /\ suspect \subseteq Docs
      /\ owner \in [Chunks -> Docs \cup {NoDoc}] /\ job[j].docs \subseteq Docs
  BY Parts, JobTypes DEF Types
<1>2. job' = [job EXCEPT ![j] = Idle]
  BY DEF End
<1>3. job' \in [Jobs -> JobState] /\ job'[j] = Idle /\ \A r \in Jobs \ {j} : job'[r] = job[r]
  BY <1>1, <1>2, IdleState
<1>4. Idle.docs = {}
  BY DEF Idle
<1>5. Area(j) = job[j].docs
  BY <1>3, <1>4 DEF Area
<1>6. /\ suspect \subseteq suspect' /\ suspect' \subseteq Docs
      /\ ok => suspect' = suspect
      /\ ~ok => job[j].docs \subseteq suspect'
  BY <1>1 DEF End
<1>7. Current' = Current /\ cut \subseteq cut' /\ cut' \subseteq Docs
  BY <1>1, CurrentStays DEF Types
<1> QED
  BY <1>1, <1>3, <1>5, <1>6, <1>7, Overlaps DEF Frame

-----------------------------------------------------------------------------
(* The tables *)

LEMMA TablesUntouched ==
  ASSUME IInv, NEW j \in Jobs, Frame(j), doc' = doc, chunk' = chunk,
         tries' \in [Docs -> 0 .. Attempts],
         \A d \in Docs \ Area(j) : tries'[d] = tries[d]
  PROVE  TablesLocal(j)
<1>1. Types /\ \A c \in Chunks : Refers(c)
  BY Parts
<1>2. \A c \in Chunks : chunk'[c].doc \in {NoDoc, owner'[c]}
  BY <1>1 DEF Frame, Refers
<1>3. ASSUME NEW r \in Jobs, NEW c \in job[r].fresh
      PROVE  doc'[owner[c]].status \notin {"none", "deleted"}
  BY <1>3, Parts DEF JobOK, Holds, Exists
<1> QED
  BY <1>1, <1>2, <1>3 DEF TablesLocal, Types

-----------------------------------------------------------------------------
(* Jobs that end *)

LEMMA IdleInside ==
  ASSUME IInv, NEW j \in Jobs, Frame(j), job'[j] = Idle
  PROVE  Inside(j)'
<1> DEFINE i == job'[j]
<1>a. /\ i.pc = "idle" /\ i.kind = "none" /\ i.docs = {} /\ i.todo = {} /\ i.old = {}
      /\ i.changed = {} /\ i.changedDocs = {} /\ i.fresh = {} /\ i.gone = {}
  BY DEF Idle
<1>b. Holds(j)'
  BY <1>a DEF Holds, Busy
<1>1. JobOK(j)'
  BY <1>a, <1>b DEF JobOK, Ingests, Rebuilds, Rechunks, Deletes
<1>2. Stands(j)'
  BY DEF Stands, Idle
<1> QED
  BY <1>1, <1>2 DEF Inside, Idle

\* A job that breaks off leaves its documents suspect and the tables as they were.
LEMMA BrokenEnd ==
  ASSUME IInv, NEW j \in Jobs, End(j, FALSE), UNCHANGED <<doc, file, chunk, profile, owner, retired>>,
         cut' = IF job[j].kind = "ingest" THEN cut \cup job[j].docs ELSE cut,
         NEW C \in SUBSET (job[j].old \cup job[j].fresh), Spares(C),
         tries' \in [Docs -> 0 .. Attempts],
         \A d \in Docs \ job[j].docs : tries'[d] = tries[d],
         \A d \in job[j].docs : tries'[d] \in {tries[d], 0},
         job[j].kind = "ingest" => \A d \in job[j].docs : tries'[d] = 0
  PROVE  IInv'
<1>1. Types /\ file \in [Docs -> BOOLEAN] /\ job[j].docs \subseteq Docs
  BY Parts, JobTypes DEF Types
<1>2. Frame(j) /\ job'[j] = Idle /\ Area(j) = job[j].docs /\ job[j].docs \subseteq suspect'
  <2>1. cut' = cut \/ cut' = cut \cup job[j].docs
    OBVIOUS
  <2> QED
    BY <2>1, EndFrame
<1>3. TablesLocal(j)
  BY <1>2, TablesUntouched
<1>4. Local(j)
  BY <1>2, <1>3, SparesOthers DEF Local
<1>5. Inside(j)'
  BY <1>2, IdleInside
<1>6. ASSUME NEW d \in job[j].docs
      PROVE  InArea(d)'
  <2>1. d \in Docs /\ d \in suspect' /\ cut \subseteq cut' /\ DocOK(d) /\ Owned(d)
    BY <1>1, <1>2, Parts DEF ProcessingIsOwned, Owned
  <2>2. Embedded(d)' = Embedded(d)
    BY DEF Embedded, Rows
  <2>3. DocOK(d)'
    BY <2>1, <2>2 DEF DocOK
  <2>4. Owned(d)'
    <3>1. CASE \E r \in Jobs : r # j /\ job[r].kind = "ingest" /\ d \in job[r].docs
      BY <3>1, <1>2 DEF Owned, Frame
    <3>2. CASE job[j].kind = "ingest"
      BY <3>2, <2>1 DEF Owned
    <3>3. CASE tries[d] = 0 /\ d \in cut
      BY <3>3, <2>1 DEF Owned
    <3> QED
      BY <2>1, <3>1, <3>2, <3>3 DEF Owned
  <2> QED
    BY <2>1, <2>3, <2>4 DEF InArea, Sound, Served
<1>7. ASSUME NEW c \in Chunks, owner'[c] \in Area(j)
      PROVE  Refers(c)' /\ Located(c)'
  <2>1. Refers(c) /\ owner[c] \in suspect' /\ owner[c] \in Docs /\ NoDoc \notin Docs
    BY <1>1, <1>2, <1>7, Parts, IngestionAssumption
  <2>2. Refers(c)'
    BY <2>1 DEF Refers, Exists
  <2>3. Located(c)'
    BY <2>1 DEF Located, Spares
  <2> QED
    BY <2>2, <2>3
<1> QED
  BY <1>1, <1>2, <1>4, <1>5, <1>6, <1>7, LocalStep

LEMMA TriesType ==
  ASSUME IInv
  PROVE  tries \in [Docs -> 0 .. Attempts]
BY Parts DEF Types

LEMMA RebuildBreaksInv ==
  ASSUME IInv, NEW j \in Jobs, RebuildBreaks(j)
  PROVE  IInv'
<1>1. JobOK(j) /\ Types
  BY Parts
<1>2. job[j].profile = profile /\ job[j].old \subseteq Chunks
  BY <1>1, JobTypes DEF RebuildBreaks, JobOK, Holds, Busy
<1>3. Spares(job[j].old)
  BY <1>2, UpsertBreaksSpares DEF RebuildBreaks
<1>4. End(j, FALSE) /\ UNCHANGED <<doc, file, chunk, profile, tries, owner, retired, cut>>
      /\ job[j].kind # "ingest"
  BY DEF RebuildBreaks
<1> QED
  BY <1>3, <1>4, TriesType, BrokenEnd

LEMMA RechunkBreaksInv ==
  ASSUME IInv, NEW j \in Jobs, RechunkBreaks(j)
  PROVE  IInv'
<1>1. JobOK(j) /\ Types
  BY Parts
<1>2. job[j].profile = profile /\ job[j].fresh \subseteq Chunks
  BY <1>1, JobTypes DEF RechunkBreaks, JobOK, Holds, Busy
<1>3. End(j, FALSE) /\ UNCHANGED <<doc, file, chunk, profile, tries, owner, retired, cut>>
      /\ job[j].kind # "ingest"
  BY DEF RechunkBreaks
<1>4. CASE job[j].pc = "embed"
  <2>1. NewOf(j) \subseteq job[j].fresh
    BY DEF NewOf
  <2>2. Spares(NewOf(j))
    BY <1>2, <1>4, <2>1, UpsertBreaksSpares DEF RechunkBreaks
  <2> QED
    BY <1>3, <2>1, <2>2, TriesType, BrokenEnd
<1>5. CASE job[j].pc # "embed"
  <2>1. Spares({})
    BY <1>5, VectorsUntouched DEF RechunkBreaks
  <2> QED
    BY <1>3, <2>1, TriesType, BrokenEnd
<1> QED
  BY <1>4, <1>5

LEMMA DeleteBreaksInv ==
  ASSUME IInv, NEW j \in Jobs, DeleteBreaks(j)
  PROVE  IInv'
<1>1. End(j, FALSE) /\ UNCHANGED <<doc, file, chunk, vectors, dim, profile, tries, owner, retired, cut>>
      /\ job[j].kind # "ingest"
  BY DEF DeleteBreaks
<1> QED
  BY <1>1, VectorsUntouched, TriesType, BrokenEnd

LEMMA IngestRefusedInv ==
  ASSUME IInv, NEW j \in Jobs, NEW d \in Docs, IngestRefused(j, d)
  PROVE  IInv'
<1>1. JobOK(j) /\ Types /\ Attempts \in Nat
  BY Parts, IngestionAssumption
<1>2. job[j].profile = profile /\ job[j].fresh \subseteq Chunks
  BY <1>1, JobTypes DEF IngestRefused, JobOK, Holds, Busy
<1>3. /\ End(j, FALSE) /\ UNCHANGED <<doc, file, chunk, profile, owner, retired>>
      /\ job[j].kind = "ingest" /\ job[j].docs = {d}
      /\ cut' = cut \cup {d} /\ tries' = [tries EXCEPT ![d] = 0]
  BY DEF IngestRefused
<1>4. /\ tries' \in [Docs -> 0 .. Attempts]
      /\ \A e \in Docs \ job[j].docs : tries'[e] = tries[e]
      /\ \A e \in job[j].docs : tries'[e] = 0
  BY <1>1, <1>3, TriesType
<1>5. cut' = IF job[j].kind = "ingest" THEN cut \cup job[j].docs ELSE cut
  BY <1>3
<1>6. CASE job[j].pc = "embed"
  <2>1. Spares(job[j].fresh)
    BY <1>2, <1>6, UpsertBreaksSpares DEF IngestRefused
  <2> QED
    BY <1>3, <1>4, <1>5, <2>1, BrokenEnd
<1>7. CASE job[j].pc # "embed"
  <2>1. Spares({})
    BY <1>7, VectorsUntouched DEF IngestRefused
  <2> QED
    BY <1>3, <1>4, <1>5, <2>1, BrokenEnd
<1> QED
  BY <1>6, <1>7

LEMMA DieInv ==
  ASSUME IInv, NEW j \in Jobs, Die(j)
  PROVE  IInv'
<1>1. tries \in [Docs -> 0 .. Attempts] /\ Attempts \in Nat /\ job[j].docs \subseteq Docs
  BY TriesType, IngestionAssumption, Parts, JobTypes
<1>2. /\ End(j, FALSE) /\ UNCHANGED <<doc, file, chunk, vectors, dim, profile, owner, retired>>
      /\ cut' = IF job[j].kind = "ingest" THEN cut \cup job[j].docs ELSE cut
  BY DEF Die
<1>3. /\ tries' \in [Docs -> 0 .. Attempts]
      /\ \A d \in Docs \ job[j].docs : tries'[d] = tries[d]
      /\ \A d \in job[j].docs : tries'[d] \in {tries[d], 0}
      /\ job[j].kind = "ingest" => \A d \in job[j].docs : tries'[d] = 0
  BY <1>1 DEF Die
<1> QED
  BY <1>2, <1>3, VectorsUntouched, BrokenEnd

-----------------------------------------------------------------------------
(* Jobs that begin *)

LEMMA RowsOwned ==
  ASSUME IInv, NEW d \in Docs
  PROVE  \A c \in Rows(d) : c \in Chunks /\ chunk[c].doc = d /\ owner[c] = d
<1>1. d # NoDoc /\ \A c \in Chunks : Refers(c)
  BY Parts, IngestionAssumption
<1> QED
  BY <1>1 DEF Rows, Refers

LEMMA BeginDoes ==
  ASSUME IInv, NEW j \in Jobs, NEW kind, NEW S \in SUBSET Docs, NEW start,
         Begin(j, kind, S, start), start \in {"parse", "drop", "embed", "vectors"},
         profile' = profile, retired' = retired, owner' = owner, cut' = cut
  PROVE  /\ Frame(j) /\ Area(j) = S
         /\ job'[j].pc = start /\ job'[j].kind = kind /\ job'[j].docs = S /\ job'[j].todo = S
         /\ job'[j].profile = profile
         /\ job'[j].old = UNION {Rows(d) : d \in S}
         /\ job'[j].changed \subseteq job'[j].old /\ job'[j].changedDocs \subseteq S
         /\ job'[j].fresh = {} /\ job'[j].gone = {}
<1>1. Types /\ JobOK(j)
  BY Parts
<1>2. job[j] = Idle /\ Idle.docs = {}
  BY <1>1 DEF Begin, JobOK, Holds, Idle
<1> DEFINE new == [pc |-> start, kind |-> kind, docs |-> S, todo |-> S, at |-> NoDoc,
        profile |-> profile,
        old |-> UNION {Rows(d) : d \in S},
        changed |-> {c \in UNION {Rows(d) : d \in S} : chunk[c].profile # profile},
        changedDocs |-> {d \in S : doc[d].profile # profile},
        fresh |-> {}, gone |-> {}]
<1>3. job' = [job EXCEPT ![j] = new]
  BY DEF Begin
<1>4. UNION {Rows(d) : d \in S} \subseteq Chunks
  BY DEF Rows
<1>5. kind \in {"ingest", "rebuild", "rechunk", "delete"}
  BY IngestionAssumption DEF Begin
<1>6. new \in JobState
  BY <1>1, <1>4, <1>5 DEF JobState, Types
<1>7. job' \in [Jobs -> JobState] /\ job'[j] = new /\ \A r \in Jobs \ {j} : job'[r] = job[r]
  BY <1>1, <1>3, <1>6 DEF Types
<1>8. Area(j) = S
  BY <1>2, <1>7 DEF Area
<1>9. /\ \A r \in Jobs \ {j} : S \cap job[r].docs \subseteq suspect'
      /\ suspect \subseteq suspect' /\ suspect' \subseteq Docs
  BY <1>1 DEF Begin, Types
<1>10. Current' = Current /\ cut \subseteq cut' /\ cut' \subseteq Docs
  BY <1>1, CurrentStays DEF Types
<1>11. Frame(j)
  BY <1>1, <1>7, <1>8, <1>9, <1>10 DEF Frame, Types
<1> QED
  BY <1>7, <1>8, <1>11

LEMMA BeginInv ==
  ASSUME IInv, NEW j \in Jobs, NEW kind, NEW S \in SUBSET Docs, NEW start,
         Begin(j, kind, S, start), start \in {"parse", "drop", "embed", "vectors"},
         kind = "delete" => start = "vectors", kind = "rebuild" => start = "embed",
         UNCHANGED <<file, chunk, vectors, dim, profile, owner, retired, cut>>,
         TablesLocal(j),
         Ingests(j)', Rebuilds(j)', Rechunks(j)', Deletes(j)',
         kind = "ingest" => \A r \in Jobs \ {j} : job[r].kind = "ingest" => S \cap job[r].docs = {},
         \A d \in S : /\ DocOK(d)' /\ Owned(d)' /\ doc'[d].profile = doc[d].profile
                      /\ doc'[d].status = "completed" <=> doc[d].status = "completed"
                      /\ Exists(d) => Exists(d)'
  PROVE  IInv'
<1>1. Types /\ JobOK(j) /\ file \in [Docs -> BOOLEAN]
  BY Parts DEF Types
<1>2. /\ Frame(j) /\ Area(j) = S
      /\ job'[j].pc = start /\ job'[j].kind = kind /\ job'[j].docs = S /\ job'[j].todo = S
      /\ job'[j].profile = profile
      /\ job'[j].old = UNION {Rows(d) : d \in S}
      /\ job'[j].changed \subseteq job'[j].old /\ job'[j].changedDocs \subseteq S
      /\ job'[j].fresh = {} /\ job'[j].gone = {}
  BY BeginDoes
<1>3. VectorsLocal(j)
  BY <1>2, VectorsUntouched, SparesOthers
<1>4. Local(j)
  BY <1>2, <1>3 DEF Local
<1>5. \A c \in job'[j].old : c \in Chunks /\ owner[c] \in S /\ c \in Rows(owner[c])
  BY <1>2, RowsOwned
<1>6. kind \in {"ingest", "rebuild", "rechunk", "delete"}
  BY IngestionAssumption DEF Begin
<1>7. Holds(j)'
  BY <1>2, <1>5, <1>6 DEF Holds, Busy
<1>8. Stands(j)'
  <2>1. \A d \in S : ~Cleared(j, d)'
    BY <1>2 DEF Cleared
  <2> QED
    BY <1>2, <1>5, <2>1 DEF Stands
<1>9. ASSUME NEW r \in Jobs \ {j}
      PROVE  job'[r].fresh \cap job'[j].old = {}
  <2>1. \A c \in job[r].fresh : chunk[c].doc = NoDoc
    BY Parts DEF JobOK, Holds
  <2>2. \A c \in job'[j].old : chunk[c].doc # NoDoc
    BY <1>5, IngestionAssumption DEF Rows
  <2> QED
    BY <1>2, <2>1, <2>2 DEF Frame
<1>10. Inside(j)'
  BY <1>2, <1>6, <1>7, <1>8, <1>9 DEF Inside, JobOK, Frame
<1>11. ASSUME NEW d \in S
       PROVE  InArea(d)'
  <2>1. Sound(d) /\ Served(d)
    BY Parts
  <2>2. \A r \in Jobs : r # j /\ d \in job'[r].docs => d \in suspect'
    BY <1>2 DEF Frame
  <2>3. Rows(d)' = Rows(d) /\ suspect \subseteq suspect'
    BY <1>2 DEF Rows, Frame
  <2>4. OldOf(j, d)' = Rows(d)
    BY <1>2, <1>5, RowsOwned DEF OldOf
  <2>5. \A r \in Jobs : Exchanged(r)' \subseteq job'[r].docs
    BY DEF Exchanged
  <2>6. Exchanged(j)' = {}
    BY <1>2 DEF Exchanged
  <2>7. SUFFICES ASSUME d \notin suspect'
                 PROVE  Sound(d)' /\ Served(d)'
    BY DEF InArea, Sound, Served
  <2>8. Sound(d)'
    BY <2>1, <2>2, <2>3, <2>4, <2>5, <2>6, <2>7 DEF Sound
  <2>9. ASSUME NEW r \in Jobs, Cleared(r, d)
        PROVE  FALSE
    <3>1. d \in job[r].docs
      BY <2>9 DEF Cleared
    <3>2. r # j
      BY <1>1, <3>1 DEF Begin, JobOK, Holds, Idle
    <3> QED
      BY <1>2, <2>7, <3>1, <3>2 DEF Frame
  <2>10. Served(d)'
    BY <1>2, <2>1, <2>3, <2>7, <2>9 DEF Served, Frame
  <2> QED
    BY <2>8, <2>10
<1>12. ASSUME NEW c \in Chunks, owner'[c] \in Area(j)
       PROVE  Refers(c)' /\ Located(c)'
  <2>1. Refers(c) /\ Located(c) /\ owner[c] \in S
    BY <1>2, <1>12, Parts
  <2>2. Refers(c)'
    BY <2>1 DEF Refers
  <2>3. \A r \in Jobs : c \in job[r].fresh => c \in job'[r].fresh
    BY <1>1, <1>2 DEF Frame, Begin, JobOK, Holds, Idle
  <2>4. Located(c)'
    BY <1>2, <2>1, <2>3 DEF Located, Frame
  <2> QED
    BY <2>2, <2>4
<1> QED
  BY <1>1, <1>2, <1>4, <1>10, <1>11, <1>12, LocalStep

LEMMA DocUntouched ==
  ASSUME IInv, NEW d \in Docs, doc' = doc, chunk' = chunk, profile' = profile,
         retired' = retired, tries'[d] \in {tries[d], 0}
  PROVE  DocOK(d)'
<1>1. DocOK(d)
  BY Parts
<1>2. Embedded(d)' = Embedded(d)
  BY DEF Embedded, Rows
<1> QED
  BY <1>1, <1>2 DEF DocOK

\* A job on completed documents, which the tables do not show yet.
LEMMA ScopeBegins ==
  ASSUME IInv, NEW j \in Jobs, NEW kind \in {"rebuild", "rechunk"}, NEW S \in SUBSET Docs,
         NEW start \in {"embed", "drop"}, kind = "rebuild" <=> start = "embed",
         Begin(j, kind, S, start), \A d \in S : doc[d].status = "completed",
         UNCHANGED <<doc, file, chunk, vectors, dim, profile, tries, owner, retired, cut>>
  PROVE  IInv'
<1>1. start \in {"parse", "drop", "embed", "vectors"}
  OBVIOUS
<1>2. /\ Frame(j)
      /\ job'[j].pc = start /\ job'[j].kind = kind /\ job'[j].docs = S /\ job'[j].todo = S
      /\ job'[j].fresh = {} /\ job'[j].gone = {}
  <2>1. profile' = profile /\ retired' = retired /\ owner' = owner /\ cut' = cut
    OBVIOUS
  <2> QED
    BY <1>1, <2>1, BeginDoes
<1>3. TablesLocal(j)
  BY <1>2, TriesType, TablesUntouched
<1>4. Exchanged(j)' = {}
  BY <1>2 DEF Exchanged
<1>5. {owner[c] : c \in job[j].fresh}' = {}
  BY <1>2
<1>6. Ingests(j)' /\ Rebuilds(j)' /\ Deletes(j)'
  BY <1>2 DEF Ingests, Rebuilds, Deletes
<1>7. Rechunks(j)'
  BY <1>2, <1>4, <1>5 DEF Rechunks
<1>8. \A d \in S : DocOK(d)' /\ Owned(d)'
  BY DocUntouched DEF Owned
<1>9. \A d \in S : Exists(d) => Exists(d)'
  BY DEF Exists
<1> QED
  BY <1>1, <1>3, <1>6, <1>7, <1>8, <1>9, BeginInv

LEMMA RebuildBeginInv ==
  ASSUME IInv, NEW j \in Jobs, NEW S \in SUBSET Docs, RebuildBegin(j, S)
  PROVE  IInv'
<1>1. \A d \in S : doc[d].status = "completed"
  BY DEF RebuildBegin, Scope, RequiresReindex
<1> QED
  <2>1. Begin(j, "rebuild", S, "embed")
    BY DEF RebuildBegin
  <2>2. UNCHANGED <<doc, file, chunk, vectors, dim, profile, tries, owner, retired, cut>>
    BY DEF RebuildBegin
  <2> QED
    BY <1>1, <2>1, <2>2, ScopeBegins

LEMMA RechunkBeginInv ==
  ASSUME IInv, NEW j \in Jobs, NEW S \in SUBSET Docs, RechunkBegin(j, S)
  PROVE  IInv'
<1>1. \A d \in S : doc[d].status = "completed"
  BY DEF RechunkBegin, Scope
<1> QED
  <2>1. Begin(j, "rechunk", S, "drop")
    BY DEF RechunkBegin
  <2>2. UNCHANGED <<doc, file, chunk, vectors, dim, profile, tries, owner, retired, cut>>
    BY DEF RechunkBegin
  <2> QED
    BY <1>1, <2>1, <2>2, ScopeBegins

LEMMA DeleteBeginInv ==
  ASSUME IInv, NEW j \in Jobs, NEW d \in Docs, DeleteBegin(j, d)
  PROVE  IInv'
<1>1. /\ Begin(j, "delete", {d}, "vectors")
      /\ UNCHANGED <<doc, file, chunk, vectors, dim, profile, tries, owner, retired, cut>>
      /\ Exists(d)
  BY DEF DeleteBegin
<1>2. /\ Frame(j)
      /\ job'[j].pc = "vectors" /\ job'[j].kind = "delete" /\ job'[j].docs = {d}
      /\ job'[j].fresh = {} /\ job'[j].gone = {}
  <2>1. {d} \in SUBSET Docs
    OBVIOUS
  <2> QED
    BY <1>1, <2>1, BeginDoes
<1>3. TablesLocal(j)
  BY <1>1, <1>2, TriesType, TablesUntouched
<1>4. Ingests(j)' /\ Rebuilds(j)' /\ Rechunks(j)' /\ Deletes(j)'
  BY <1>1, <1>2 DEF Ingests, Rebuilds, Rechunks, Deletes, Exists
<1>5. DocOK(d)'
  BY <1>1, DocUntouched
<1>6. Owned(d)'
  <2>1. Owned(d) /\ JobOK(j)
    BY Parts DEF ProcessingIsOwned, Owned
  <2>2. job[j].kind # "ingest"
    BY <1>1, <2>1 DEF Begin, JobOK, Holds, Idle
  <2> QED
    BY <1>1, <1>2, <2>1, <2>2 DEF Owned, Frame
<1>7. Exists(d)'
  BY <1>1 DEF Exists
<1> QED
  BY <1>1, <1>3, <1>4, <1>5, <1>6, <1>7, BeginInv

\* What SetStatus makes of the row.
LEMMA StatusSet ==
  ASSUME Types, NEW d \in Docs, NEW status \in Statuses, SetStatus(d, status)
  PROVE  /\ doc' \in [Docs -> Document]
         /\ \A e \in Docs \ {d} : doc'[e] = doc[e]
         /\ doc'[d].status = status /\ doc'[d].count = doc[d].count
         /\ doc'[d].profile = doc[d].profile
BY DEF Types, SetStatus, Document

LEMMA IngestBeginInv ==
  ASSUME IInv, NEW j \in Jobs, NEW d \in Docs, IngestBegin(j, d)
  PROVE  IInv'
<1>1. Types /\ DocOK(d) /\ Attempts \in Nat
  BY Parts, IngestionAssumption
<1>2. /\ Begin(j, "ingest", {d}, "parse") /\ SetStatus(d, "processing")
      /\ tries[d] > 0 /\ Exists(d)
      /\ \A r \in Jobs : job[r].kind = "ingest" => d \notin job[r].docs
      /\ UNCHANGED <<file, chunk, vectors, dim, profile, owner, retired, cut>>
      /\ tries' = [tries EXCEPT ![d] = tries[d] - 1]
  BY DEF IngestBegin
<1>3. /\ Frame(j) /\ Area(j) = {d}
      /\ job'[j].pc = "parse" /\ job'[j].kind = "ingest" /\ job'[j].docs = {d}
      /\ job'[j].fresh = {} /\ job'[j].gone = {}
  <2>1. {d} \in SUBSET Docs
    OBVIOUS
  <2> QED
    BY <1>2, <2>1, BeginDoes
<1>4. /\ doc' \in [Docs -> Document]
      /\ \A e \in Docs \ {d} : doc'[e] = doc[e]
      /\ doc'[d].status = "processing" /\ doc'[d].count = doc[d].count
      /\ doc'[d].profile = doc[d].profile
  BY <1>1, <1>2, StatusSet DEF Statuses
<1>5. tries' \in [Docs -> 0 .. Attempts] /\ \A e \in Docs \ {d} : tries'[e] = tries[e]
  BY <1>1, <1>2 DEF Types
<1>6. doc[d].status \notin {"completed", "none", "deleted"}
  BY <1>1, <1>2 DEF DocOK, Exists
<1>7. ASSUME NEW r \in Jobs \ {j}, NEW e \in job[r].docs
      PROVE  \/ doc'[e].status \in {doc[e].status, "deleted"}
             \/ job[r].kind = "delete" /\ doc'[e].status # "none"
  <2>1. JobOK(r) /\ e \in Docs
    BY <1>1, Parts, JobTypes
  <2>2. CASE e # d
    BY <2>1, <2>2, <1>4
  <2>3. CASE e = d
    <3>1. job[r].kind # "none"
      BY <2>1 DEF JobOK, Holds, Busy, Idle
    <3>2. job[r].kind \in {"ingest", "rebuild", "rechunk", "delete"}
      BY <1>1, <3>1, JobTypes DEF JobState
    <3> QED
      BY <1>2, <1>4, <1>6, <2>1, <2>3, <3>2 DEF JobOK, Rebuilds, Rechunks
  <2> QED
    BY <2>2, <2>3
<1>8. ASSUME NEW r \in Jobs \ {j}, NEW c \in job[r].fresh
      PROVE  doc'[owner[c]].status \notin {"none", "deleted"}
  <2>1. Exists(owner[c]) /\ owner[c] \in Docs
    BY <1>3, <1>8, Parts, OwnersKept DEF JobOK, Holds
  <2> QED
    BY <1>4, <2>1 DEF Exists
<1>9. \A c \in Chunks : chunk'[c].doc \in {NoDoc, owner'[c]}
  BY <1>2, Parts DEF Refers
<1>10. TablesLocal(j)
  BY <1>1, <1>2, <1>3, <1>4, <1>5, <1>7, <1>8, <1>9 DEF TablesLocal, Types
<1>11. Ingests(j)' /\ Rebuilds(j)' /\ Rechunks(j)' /\ Deletes(j)'
  BY <1>3, <1>4 DEF Ingests, Rebuilds, Rechunks, Deletes
<1>12. DocOK(d)'
  <2>1. Embedded(d)' = Embedded(d)
    BY <1>2 DEF Embedded, Rows
  <2> QED
    BY <1>1, <1>2, <1>4, <1>6, <2>1 DEF DocOK
<1>13. Owned(d)'
  BY <1>3 DEF Owned
<1>14. Exists(d)'
  BY <1>4 DEF Exists
<1> QED
  BY <1>2, <1>4, <1>6, <1>10, <1>11, <1>12, <1>13, <1>14, BeginInv

-----------------------------------------------------------------------------
(* Steps at the stores: the tables stay *)

\* A step changes pc, todo and at only.
Carries(j, new) ==
  /\ new.kind = job[j].kind /\ new.docs = job[j].docs /\ new.profile = job[j].profile
  /\ new.old = job[j].old /\ new.changed = job[j].changed
  /\ new.changedDocs = job[j].changedDocs
  /\ new.fresh = job[j].fresh /\ new.gone = job[j].gone

\* A chunk a job loaded of a document that is not suspect is a row still.
LEMMA LoadedRows ==
  ASSUME IInv, NEW j \in Jobs, NEW c \in job[j].old, owner[c] \notin suspect
  PROVE  c \in Rows(owner[c]) /\ chunk[c].doc = owner[c] /\ owner[c] \in job[j].docs
<1>1. c \in Chunks /\ owner[c] \in job[j].docs /\ owner[c] \in Docs
  BY Parts, JobTypes DEF JobOK, Holds
<1>2. Rows(owner[c]) = OldOf(j, owner[c])
  BY <1>1, Parts DEF Sound
<1> QED
  BY <1>1, <1>2 DEF OldOf, Rows

LEMMA StoreStep ==
  ASSUME IInv, NEW j \in Jobs, Busy(j), NEW new \in JobState, Step(j, new), Carries(j, new),
         new.pc # "idle", new.todo \subseteq job[j].docs,
         UNCHANGED <<doc, chunk, profile, tries, owner, retired, suspect, cut>>,
         file' \in [Docs -> BOOLEAN],
         NEW C \in SUBSET (job[j].old \cup job[j].fresh), Spares(C),
         Ingests(j)', Rebuilds(j)', Rechunks(j)', Deletes(j)', Stands(j)',
         Exchanged(j)' = Exchanged(j),
         \A d \in job[j].docs :
           \/ Cleared(j, d)'
           \/ /\ ~Cleared(j, d)
              /\ \A c \in Rows(d) : vectors[c] \in Current => vectors'[c] \in Current
  PROVE  IInv'
<1>1. Types /\ JobOK(j) /\ job[j].docs \subseteq Docs
      /\ owner \in [Chunks -> Docs \cup {NoDoc}]
  BY Parts, JobTypes DEF Types
<1>2. Frame(j) /\ job'[j] = new /\ Area(j) = job[j].docs
  BY <1>1, Overlaps, StepFrame DEF Carries
<1>3. TablesLocal(j)
  BY <1>2, TriesType, TablesUntouched
<1>4. Local(j)
  BY <1>2, <1>3, SparesOthers DEF Local
<1>5. Holds(j)'
  BY <1>1, <1>2 DEF Holds, JobOK, Carries, Busy, Exists
<1>6. ASSUME NEW r \in Jobs \ {j}
      PROVE  /\ job[j].fresh \cap job[r].fresh = {} /\ job[j].gone \cap job[r].gone = {}
             /\ job[j].kind = "ingest" /\ job[r].kind = "ingest" => job[j].docs \cap job[r].docs = {}
             /\ job[j].fresh \cap job[r].old = {} /\ job[r].fresh \cap job[j].old = {}
             /\ job'[r] = job[r]
  BY <1>2, Parts DEF Apart, Frame
<1>7. job[j].fresh \cap job[j].old = {}
  BY Parts
<1>8. Inside(j)'
  BY <1>2, <1>5, <1>6, <1>7 DEF Inside, JobOK, Carries
<1>9. ASSUME NEW d \in job[j].docs
      PROVE  InArea(d)'
  <2>1. d \in Docs /\ Sound(d) /\ Served(d) /\ Owned(d)
    BY <1>1, Parts DEF ProcessingIsOwned, Owned
  <2>2. DocOK(d)'
    BY <2>1, DocUntouched
  <2>3. Owned(d)'
    BY <1>2, <2>1 DEF Owned, Carries, Frame
  <2>4. ASSUME NEW r \in Jobs
        PROVE  /\ Exchanged(r)' = Exchanged(r) /\ OldOf(r, d)' = OldOf(r, d)
               /\ job'[r].docs = job[r].docs /\ job'[r].kind = job[r].kind
               /\ job'[r].gone = job[r].gone
    <3>1. CASE r = j
      BY <3>1, <1>2 DEF OldOf, Carries
    <3>2. CASE r # j
      BY <3>2, <1>2 DEF OldOf, Exchanged, Frame
    <3> QED
      BY <3>1, <3>2
  <2>5. Rows(d)' = Rows(d)
    BY DEF Rows
  <2>6. Sound(d)'
    BY <2>1, <2>4, <2>5 DEF Sound
  <2>7. \A r \in Jobs \ {j} : Cleared(r, d)' <=> Cleared(r, d)
    BY <1>2 DEF Frame, Cleared
  <2>8. Served(d)'
    <3>1. CASE Cleared(j, d)'
      BY <3>1 DEF Served
    <3>2. CASE /\ ~Cleared(j, d)
               /\ \A c \in Rows(d) : vectors[c] \in Current => vectors'[c] \in Current
      BY <3>2, <2>1, <2>5, <2>7, CurrentStays DEF Served
    <3> QED
      BY <3>1, <3>2
  <2> QED
    BY <2>2, <2>3, <2>6, <2>8 DEF InArea
<1>10. ASSUME NEW c \in Chunks, owner'[c] \in Area(j)
       PROVE  Refers(c)' /\ Located(c)'
  <2>1. Refers(c) /\ Located(c) /\ owner[c] \in Docs /\ NoDoc \notin Docs
    BY <1>1, <1>2, <1>10, Parts, IngestionAssumption
  <2>2. Refers(c)'
    BY <2>1 DEF Refers, Exists
  <2>3. \A r \in Jobs : c \in job[r].fresh => c \in job'[r].fresh
    BY <1>2 DEF Frame, Carries
  <2>4. CASE c \in C /\ c \in job[j].old
    <3>1. owner[c] \notin suspect => chunk[c].doc # NoDoc
      BY <2>1, <2>4, LoadedRows
    <3> QED
      BY <2>2, <3>1 DEF Located, Spares
  <2>5. CASE c \in C /\ c \in job[j].fresh
    BY <2>2, <2>3, <2>5 DEF Located, Spares
  <2>6. CASE c \notin C
    BY <2>1, <2>2, <2>3, <2>6 DEF Located, Spares
  <2> QED
    BY <2>4, <2>5, <2>6
<1> QED
  BY <1>2, <1>4, <1>8, <1>9, <1>10, LocalStep

LEMMA DeployedProfile ==
  ASSUME IInv, NEW j \in Jobs, job[j].pc # "idle"
  PROVE  Busy(j) /\ job[j].profile = profile
BY Parts DEF JobOK, Holds, Busy

LEMMA IngestEmbedInv ==
  ASSUME IInv, NEW j \in Jobs, IngestEmbed(j)
  PROVE  IInv'
<1>1. Types /\ JobOK(j) /\ job[j] \in JobState /\ job[j].fresh \subseteq Chunks
      /\ job \in [Jobs -> JobState]
  BY Parts, JobTypes DEF Types
<1> DEFINE new == [job[j] EXCEPT !.pc = "commit"]
<1>2. /\ job[j].kind = "ingest" /\ job[j].pc = "embed" /\ Step(j, new)
      /\ UNCHANGED <<doc, file, chunk, profile, tries, owner, retired, suspect, cut>>
  BY DEF IngestEmbed
<1>3. Busy(j) /\ job[j].profile = profile
  BY <1>2, DeployedProfile
<1>4. Spares(job[j].fresh) /\ \A c \in job[j].fresh : vectors'[c] \in Current
  BY <1>1, <1>3, UpsertStores DEF IngestEmbed
<1>5. new \in JobState /\ Carries(j, new) /\ new.pc = "commit" /\ new.todo = job[j].todo
      /\ new.at = job[j].at
  BY <1>1 DEF JobState, Carries
<1>6. job'[j] = new
  BY <1>1, <1>2 DEF Step
<1> HIDE DEF new
<1>7. job'[j].kind = "ingest" /\ job'[j].pc = "commit"
  BY <1>2, <1>5, <1>6 DEF Carries
<1>8. Ingests(j)'
  BY <1>1, <1>2, <1>5, <1>6 DEF JobOK, Ingests, Carries
<1>9. Rebuilds(j)' /\ Rechunks(j)' /\ Deletes(j)'
  BY <1>7 DEF Rebuilds, Rechunks, Deletes
<1>10. Stands(j)'
  BY <1>2, <1>4, <1>5, <1>6, <1>7, CurrentStays DEF Stands, Cleared, Carries
<1>11. Exchanged(j)' = Exchanged(j)
  BY <1>2, <1>5, <1>6, <1>7 DEF Exchanged, Carries
<1>12. ASSUME NEW d \in job[j].docs
       PROVE  ~Cleared(j, d) /\ \A c \in Rows(d) : vectors[c] \in Current => vectors'[c] \in Current
  BY <1>2, <1>4 DEF Cleared, Spares, Rows
<1>13. new.todo \subseteq job[j].docs /\ file' \in [Docs -> BOOLEAN]
  BY <1>1, <1>2, <1>5 DEF JobOK, Holds, Types
<1> QED
  BY <1>2, <1>3, <1>4, <1>5, <1>7, <1>8, <1>9, <1>10, <1>11, <1>12, <1>13, StoreStep

LEMMA RebuildEmbedInv ==
  ASSUME IInv, NEW j \in Jobs, RebuildEmbed(j)
  PROVE  IInv'
<1>1. Types /\ JobOK(j) /\ job[j] \in JobState /\ job[j].old \subseteq Chunks
      /\ job \in [Jobs -> JobState]
  BY Parts, JobTypes DEF Types
<1> DEFINE new == [job[j] EXCEPT !.pc = "commit"]
<1>2. /\ job[j].kind = "rebuild" /\ job[j].pc = "embed" /\ Step(j, new)
      /\ UNCHANGED <<doc, file, chunk, profile, tries, owner, retired, suspect, cut>>
  BY DEF RebuildEmbed
<1>3. Busy(j) /\ job[j].profile = profile
  BY <1>2, DeployedProfile
<1>4. Spares(job[j].old) /\ \A c \in job[j].old : vectors'[c] \in Current
  BY <1>1, <1>3, UpsertStores DEF RebuildEmbed
<1>5. new \in JobState /\ Carries(j, new) /\ new.pc = "commit" /\ new.todo = job[j].todo
      /\ new.at = job[j].at
  BY <1>1 DEF JobState, Carries
<1>6. job'[j] = new
  BY <1>1, <1>2 DEF Step
<1> HIDE DEF new
<1>7. job'[j].kind = "rebuild" /\ job'[j].pc = "commit" /\ job'[j].fresh = {}
  BY <1>1, <1>2, <1>5, <1>6 DEF Carries, JobOK, Rebuilds
<1>8. Rebuilds(j)'
  BY <1>1, <1>2, <1>5, <1>6 DEF JobOK, Rebuilds, Carries
<1>9. Ingests(j)' /\ Rechunks(j)' /\ Deletes(j)'
  BY <1>7 DEF Ingests, Rechunks, Deletes
<1>10. Stands(j)'
  BY <1>2, <1>4, <1>5, <1>6, <1>7, CurrentStays DEF Stands, Cleared, Carries
<1>11. Exchanged(j)' = Exchanged(j)
  BY <1>2, <1>5, <1>6, <1>7 DEF Exchanged, Carries
<1>12. ASSUME NEW d \in job[j].docs
       PROVE  ~Cleared(j, d) /\ \A c \in Rows(d) : vectors[c] \in Current => vectors'[c] \in Current
  BY <1>2, <1>4 DEF Cleared, Spares, Rows
<1>13. new.todo \subseteq job[j].docs /\ file' \in [Docs -> BOOLEAN]
  BY <1>1, <1>2, <1>5 DEF JobOK, Holds, Types
<1> QED
  BY <1>2, <1>3, <1>4, <1>5, <1>7, <1>8, <1>9, <1>10, <1>11, <1>12, <1>13, StoreStep

LEMMA RechunkEmbedInv ==
  ASSUME IInv, NEW j \in Jobs, RechunkEmbed(j)
  PROVE  IInv'
<1>1. Types /\ JobOK(j) /\ Stands(j) /\ job[j] \in JobState /\ job[j].fresh \subseteq Chunks
      /\ job[j].old \subseteq Chunks /\ job \in [Jobs -> JobState]
  BY Parts, JobTypes DEF Types
<1> DEFINE new == [job[j] EXCEPT !.pc = IF job[j].todo = {} THEN "commit" ELSE "drop"]
<1>2. /\ job[j].kind = "rechunk" /\ job[j].pc = "embed" /\ Step(j, new)
      /\ UNCHANGED <<doc, file, chunk, profile, tries, owner, retired, suspect, cut>>
  BY DEF RechunkEmbed
<1>3. Busy(j) /\ job[j].profile = profile
  BY <1>2, DeployedProfile
<1>a. NewOf(j) \subseteq job[j].fresh
  BY DEF NewOf
<1>4. Spares(NewOf(j)) /\ \A c \in NewOf(j) : vectors'[c] \in Current
  BY <1>1, <1>3, <1>a, UpsertStores DEF RechunkEmbed
<1>5. new \in JobState /\ Carries(j, new) /\ new.pc = (IF job[j].todo = {} THEN "commit" ELSE "drop")
      /\ new.todo = job[j].todo /\ new.at = job[j].at
  BY <1>1 DEF JobState, Carries
<1>6. job'[j] = new
  BY <1>1, <1>2 DEF Step
<1> HIDE DEF new
<1>7. job'[j].kind = "rechunk" /\ job'[j].pc \in {"commit", "drop"}
      /\ job'[j].fresh = job[j].fresh /\ job'[j].gone = job[j].gone
  BY <1>1, <1>2, <1>5, <1>6 DEF Carries
<1>8. Exchanged(j)' = Exchanged(j)
  BY <1>2, <1>5, <1>6, <1>7 DEF Exchanged, Carries
<1>9. {owner[c] : c \in job[j].fresh}' = {owner[c] : c \in job[j].fresh}
  BY <1>2, <1>7
<1>b. Rechunks(j)'
  BY <1>1, <1>2, <1>5, <1>6, <1>7, <1>8, <1>9 DEF JobOK, Rechunks, Carries
<1>c. Ingests(j)' /\ Rebuilds(j)' /\ Deletes(j)'
  BY <1>7 DEF Ingests, Rebuilds, Deletes
<1>10. \A d : Cleared(j, d)' <=> Cleared(j, d)
  BY <1>2, <1>5, <1>6, <1>7 DEF Cleared, Carries
<1>d. ASSUME NEW c \in job[j].old, owner[c] \notin suspect, Cleared(j, owner[c])
      PROVE  vectors'[c] = NoProfile
  <2>1. c \notin NewOf(j)
    BY <1>a, Parts
  <2> QED
    BY <1>1, <1>4, <1>d, <2>1 DEF Stands, Spares
<1>e. ASSUME NEW c \in job[j].fresh
      PROVE  vectors'[c] \in Current
  <2>1. CASE c \in NewOf(j)
    BY <1>4, <2>1
  <2>2. CASE c \notin NewOf(j)
    <3>1. vectors[c] \in Current
      BY <1>1, <1>2, <2>2 DEF NewOf, Stands, Written
    <3> QED
      BY <1>1, <1>4, <2>2, <3>1 DEF Spares
  <2> QED
    BY <2>1, <2>2
<1>11. Stands(j)'
  BY <1>2, <1>5, <1>6, <1>7, <1>10, <1>d, <1>e, CurrentStays DEF Stands, Carries
<1>12. ASSUME NEW d \in job[j].docs
       PROVE  Cleared(j, d)' \/ (~Cleared(j, d)
                /\ \A c \in Rows(d) : vectors[c] \in Current => vectors'[c] \in Current)
  BY <1>10, <1>4 DEF Spares, Rows
<1>13. new.todo \subseteq job[j].docs /\ file' \in [Docs -> BOOLEAN]
  BY <1>1, <1>2, <1>5 DEF JobOK, Holds, Types
<1>14. new.pc # "idle"
  BY <1>5
<1> QED
  BY <1>2, <1>3, <1>4, <1>5, <1>a, <1>b, <1>c, <1>8, <1>11, <1>12, <1>13, <1>14, StoreStep

LEMMA DeleteVectorsInv ==
  ASSUME IInv, NEW j \in Jobs, DeleteVectors(j)
  PROVE  IInv'
<1>1. Types /\ JobOK(j) /\ job[j] \in JobState /\ job[j].old \subseteq Chunks
      /\ job \in [Jobs -> JobState]
  BY Parts, JobTypes DEF Types
<1> DEFINE new == [job[j] EXCEPT !.pc = "file"]
<1>2. /\ job[j].kind = "delete" /\ job[j].pc = "vectors" /\ Step(j, new)
      /\ UNCHANGED <<doc, file, chunk, profile, tries, owner, retired, suspect, cut>>
  BY DEF DeleteVectors
<1>3. Busy(j)
  BY <1>2, DeployedProfile
<1>4. Spares(job[j].old) /\ \A c \in job[j].old : vectors'[c] = NoProfile
  BY <1>1, RemoveDeletes DEF DeleteVectors
<1>5. new \in JobState /\ Carries(j, new) /\ new.pc = "file" /\ new.todo = job[j].todo
  BY <1>1 DEF JobState, Carries
<1>6. job'[j] = new
  BY <1>1, <1>2 DEF Step
<1> HIDE DEF new
<1>7. job'[j].kind = "delete" /\ job'[j].pc = "file" /\ job'[j].fresh = {}
      /\ job'[j].docs = job[j].docs
  BY <1>1, <1>2, <1>5, <1>6 DEF Carries, JobOK, Deletes
<1>8. Deletes(j)'
  BY <1>1, <1>2, <1>5, <1>6 DEF JobOK, Deletes, Carries
<1>9. Ingests(j)' /\ Rebuilds(j)' /\ Rechunks(j)'
  BY <1>7 DEF Ingests, Rebuilds, Rechunks
<1>10. Stands(j)'
  BY <1>4, <1>5, <1>6, <1>7 DEF Stands, Carries
<1>11. Exchanged(j)' = Exchanged(j)
  BY <1>2, <1>5, <1>6, <1>7 DEF Exchanged, Carries
<1>12. \A d \in job[j].docs : Cleared(j, d)'
  BY <1>7 DEF Cleared
<1>13. new.todo \subseteq job[j].docs /\ file' \in [Docs -> BOOLEAN]
  BY <1>1, <1>2, <1>5 DEF JobOK, Holds, Types
<1> QED
  BY <1>2, <1>3, <1>4, <1>5, <1>8, <1>9, <1>10, <1>11, <1>12, <1>13, StoreStep

LEMMA DeleteFileInv ==
  ASSUME IInv, NEW j \in Jobs, NEW d \in Docs, DeleteFile(j, d)
  PROVE  IInv'
<1>1. Types /\ JobOK(j) /\ Stands(j) /\ job[j] \in JobState /\ job \in [Jobs -> JobState]
  BY Parts, JobTypes DEF Types
<1> DEFINE new == [job[j] EXCEPT !.pc = "commit"]
<1>2. /\ job[j].kind = "delete" /\ job[j].pc = "file" /\ Step(j, new)
      /\ UNCHANGED <<doc, chunk, vectors, dim, profile, tries, owner, retired, suspect, cut>>
      /\ file' = [file EXCEPT ![d] = FALSE]
  BY DEF DeleteFile
<1>3. Busy(j)
  BY <1>2, DeployedProfile
<1>4. Spares({})
  BY <1>2, VectorsUntouched
<1>5. new \in JobState /\ Carries(j, new) /\ new.pc = "commit" /\ new.todo = job[j].todo
  BY <1>1 DEF JobState, Carries
<1>6. job'[j] = new
  BY <1>1, <1>2 DEF Step
<1> HIDE DEF new
<1>7. job'[j].kind = "delete" /\ job'[j].pc = "commit" /\ job'[j].fresh = {}
      /\ job'[j].docs = job[j].docs
  BY <1>1, <1>2, <1>5, <1>6 DEF Carries, JobOK, Deletes
<1>8. Deletes(j)'
  BY <1>1, <1>2, <1>5, <1>6 DEF JobOK, Deletes, Carries
<1>9. Ingests(j)' /\ Rebuilds(j)' /\ Rechunks(j)'
  BY <1>7 DEF Ingests, Rebuilds, Rechunks
<1>10. \A e : Cleared(j, e)' <=> Cleared(j, e)
  BY <1>2, <1>7 DEF Cleared
<1>a. Stands(j)'
  BY <1>1, <1>2, <1>5, <1>6, <1>7, <1>10 DEF Stands, Carries
<1>11. Exchanged(j)' = Exchanged(j)
  BY <1>2, <1>5, <1>6, <1>7 DEF Exchanged, Carries
<1>12. \A e \in job[j].docs : Cleared(j, e)'
  BY <1>7 DEF Cleared
<1>13. new.todo \subseteq job[j].docs /\ file' \in [Docs -> BOOLEAN]
  BY <1>1, <1>2, <1>5 DEF JobOK, Holds, Types
<1> QED
  BY <1>2, <1>3, <1>4, <1>5, <1>8, <1>9, <1>a, <1>11, <1>12, <1>13, StoreStep

LEMMA RechunkDropInv ==
  ASSUME IInv, NEW j \in Jobs, NEW d \in Docs, RechunkDrop(j, d)
  PROVE  IInv'
<1>1. Types /\ JobOK(j) /\ Stands(j) /\ job[j] \in JobState /\ job[j].old \subseteq Chunks
      /\ job \in [Jobs -> JobState] /\ job[j].todo \subseteq job[j].docs
  BY Parts, JobTypes DEF Types, JobOK, Holds
<1> DEFINE new == [job[j] EXCEPT !.pc = "swap", !.at = d, !.todo = job[j].todo \ {d}]
<1>2. /\ job[j].kind = "rechunk" /\ job[j].pc = "drop" /\ Step(j, new) /\ d \in job[j].todo
      /\ UNCHANGED <<doc, file, chunk, profile, tries, owner, retired, suspect, cut>>
  BY DEF RechunkDrop
<1>3. Busy(j)
  BY <1>2, DeployedProfile
<1>a. OldOf(j, d) \subseteq job[j].old
  BY DEF OldOf
<1>4. Spares(OldOf(j, d)) /\ \A c \in OldOf(j, d) : vectors'[c] = NoProfile
  BY <1>1, <1>a, RemoveDeletes DEF RechunkDrop
<1>b. \A c \in Chunks \ OldOf(j, d) : vectors'[c] = vectors[c]
  BY <1>1 DEF RechunkDrop, Remove
<1>5. new \in JobState /\ Carries(j, new) /\ new.pc = "swap" /\ new.todo = job[j].todo \ {d}
      /\ new.at = d
  BY <1>1, JobTypes DEF JobState, Carries
<1>6. job'[j] = new
  BY <1>1, <1>2 DEF Step
<1> HIDE DEF new
<1>7. /\ job'[j].kind = "rechunk" /\ job'[j].pc = "swap" /\ job'[j].at = d
      /\ job'[j].todo = job[j].todo \ {d} /\ job'[j].docs = job[j].docs
      /\ job'[j].fresh = job[j].fresh /\ job'[j].gone = job[j].gone
      /\ job'[j].old = job[j].old
  BY <1>1, <1>2, <1>5, <1>6 DEF Carries
<1>8. Exchanged(j)' = Exchanged(j)
  BY <1>1, <1>2, <1>7 DEF Exchanged
<1>9. {owner[c] : c \in job[j].fresh}' = {owner[c] : c \in job[j].fresh}
  BY <1>2, <1>7
<1>c. Rechunks(j)'
  BY <1>1, <1>2, <1>7, <1>8, <1>9 DEF JobOK, Rechunks
<1>d. Ingests(j)' /\ Rebuilds(j)' /\ Deletes(j)'
  BY <1>7 DEF Ingests, Rebuilds, Deletes
<1>e. ASSUME NEW c \in job[j].old, owner[c] \notin suspect, Cleared(j, owner[c])'
      PROVE  vectors'[c] = NoProfile
  <2>1. CASE c \in OldOf(j, d)
    BY <1>4, <2>1
  <2>2. CASE c \notin OldOf(j, d)
    <3>1. Cleared(j, owner[c])
      BY <1>2, <1>7, <1>e, <2>2 DEF Cleared, OldOf
    <3> QED
      BY <1>1, <1>b, <1>e, <2>2, <3>1 DEF Stands
  <2> QED
    BY <2>1, <2>2
<1>f. ASSUME NEW c \in job[j].fresh
      PROVE  vectors'[c] \in Current
  <2>1. c \notin OldOf(j, d) /\ c \in Chunks
    BY <1>1, <1>a, Parts, JobTypes
  <2> QED
    BY <1>1, <1>2, <1>b, <2>1 DEF Stands, Written
<1>10. Stands(j)'
  BY <1>2, <1>7, <1>e, <1>f, CurrentStays DEF Stands
<1>11. ASSUME NEW e \in job[j].docs
       PROVE  Cleared(j, e)' \/ (~Cleared(j, e)
                /\ \A c \in Rows(e) : vectors[c] \in Current => vectors'[c] \in Current)
  <2>1. CASE e = d \/ Cleared(j, e)
    BY <1>1, <1>2, <1>7, <2>1 DEF Cleared
  <2>2. CASE e # d /\ ~Cleared(j, e)
    <3>1. e \in Docs
      BY <1>1, JobTypes
    <3>2. \A c \in Rows(e) : c \in Chunks /\ c \notin OldOf(j, d)
      BY <2>2, <3>1, RowsOwned DEF OldOf
    <3> QED
      BY <1>b, <2>2, <3>2
  <2> QED
    BY <2>1, <2>2
<1>12. new.todo \subseteq job[j].docs /\ file' \in [Docs -> BOOLEAN]
  BY <1>1, <1>2, <1>5 DEF Types
<1>13. new.pc # "idle"
  BY <1>5
<1> QED
  BY <1>2, <1>3, <1>4, <1>5, <1>a, <1>c, <1>d, <1>8, <1>10, <1>11, <1>12, <1>13, StoreStep

-----------------------------------------------------------------------------
(* Steps that insert a chunk *)

\* A chunk that was not made yet is nowhere.
LEMMA UnmadeChunk ==
  ASSUME IInv, NEW c \in Chunks, owner[c] = NoDoc
  PROVE  /\ chunk[c].doc = NoDoc /\ vectors[c] = NoProfile
         /\ \A r \in Jobs : c \notin job[r].old /\ c \notin job[r].fresh
<1>1. Types /\ Refers(c) /\ NoDoc \notin Docs
  BY Parts, IngestionAssumption
<1>2. chunk[c].doc = NoDoc /\ vectors[c] = NoProfile
  BY <1>1 DEF Refers, Types, ChunkRow
<1>3. \A r \in Jobs : \A k \in job[r].old \cup job[r].fresh : owner[k] \in Docs
  BY <1>1, Parts, JobTypes DEF JobOK, Holds
<1> QED
  BY <1>1, <1>2, <1>3

LEMMA InsertStep ==
  ASSUME IInv, NEW j \in Jobs, NEW d \in job[j].docs, NEW c \in Chunks, NewChunk(c, d), Exists(d),
         NEW new \in JobState, Step(j, new),
         new.kind = job[j].kind, new.docs = job[j].docs, new.profile = job[j].profile,
         new.old = job[j].old, new.changed = job[j].changed,
         new.changedDocs = job[j].changedDocs, new.todo = job[j].todo, new.at = job[j].at,
         new.pc = "embed", new.fresh = job[j].fresh \cup {c}, new.gone \subseteq job[j].old,
         Busy(j), job[j].kind = "ingest" \/ (job[j].kind = "rechunk" /\ job[j].at = d),
         job[j].kind = "ingest" => job[j].fresh = {},
         job[j].pc # "embed", \A k \in job[j].fresh : owner[k] # d,
         \A r \in Jobs \ {j} : new.gone \cap job[r].gone = {},
         UNCHANGED <<doc, file, chunk, vectors, dim, profile, tries, retired, suspect, cut>>,
         Ingests(j)', Rebuilds(j)', Rechunks(j)', Deletes(j)',
         job[j].kind = "rechunk" =>
           \A e \in Exchanged(j)' : e \notin suspect => Rows(e) \subseteq new.gone
  PROVE  IInv'
<1>1. Types /\ JobOK(j) /\ job[j].docs \subseteq Docs
      /\ owner \in [Chunks -> Docs \cup {NoDoc}] /\ NoDoc \notin Docs
  BY Parts, JobTypes, IngestionAssumption DEF Types
<1>2. owner[c] = NoDoc /\ owner' = [owner EXCEPT ![c] = d]
  BY DEF NewChunk
<1>3. /\ owner' \in [Chunks -> Docs \cup {NoDoc}] /\ owner'[c] = d
      /\ \A k \in Chunks : owner[k] # NoDoc => owner'[k] = owner[k]
      /\ \A k \in Chunks \ {c} : owner'[k] = owner[k]
  BY <1>1, <1>2
<1>4. Frame(j) /\ job'[j] = new /\ Area(j) = job[j].docs
  BY <1>1, <1>3, Overlaps, StepFrame
<1>5. Local(j)
  BY <1>4, TriesType, TablesUntouched, VectorsUntouched, SparesOthers DEF Local
<1>6. /\ chunk[c].doc = NoDoc /\ vectors[c] = NoProfile
      /\ \A r \in Jobs : c \notin job[r].old /\ c \notin job[r].fresh
  BY <1>2, UnmadeChunk
<1>7. \A k \in job[j].old \cup job[j].fresh :
        k \in Chunks /\ owner[k] \in job[j].docs /\ owner'[k] = owner[k]
  BY <1>4, OwnersKept
<1>8. Holds(j)'
  <2>1. \A k \in new.old \cup new.fresh : owner'[k] \in new.docs
    BY <1>3, <1>7
  <2>2. \A k \in new.fresh : chunk[k].doc = NoDoc /\ Exists(owner'[k])
    BY <1>1, <1>3, <1>6, <1>7 DEF JobOK, Holds
  <2>3. \A k, x \in new.fresh : owner'[k] = owner'[x] => k = x
    BY <1>1, <1>3, <1>7 DEF JobOK, Holds
  <2>4. /\ job[j].profile = profile /\ job[j].kind # "none"
        /\ new.changed \subseteq new.old /\ new.changedDocs \subseteq new.docs
        /\ new.todo \subseteq new.docs
    BY <1>1 DEF JobOK, Holds, Busy
  <2> QED
    BY <1>4, <2>1, <2>2, <2>3, <2>4 DEF Holds, Busy, Exists
<1>9. \A e : Cleared(j, e)' <=> Cleared(j, e)
  BY <1>4 DEF Cleared
<1>10. Stands(j)'
  <2>1. Stands(j)
    BY Parts
  <2>2. ASSUME NEW k \in new.fresh, Written(j, k)'
        PROVE  vectors[k] \in Current
    <3>1. job[j].kind = "rechunk" /\ owner'[k] # d
      BY <1>4, <2>2 DEF Written
    <3>2. k \in job[j].fresh
      BY <1>3, <3>1
    <3> QED
      BY <2>1, <3>2 DEF Stands, Written
  <2> QED
    BY <1>4, <1>7, <1>9, <2>1, <2>2, CurrentStays DEF Stands
<1>11. ASSUME NEW r \in Jobs \ {j}
       PROVE  /\ new.fresh \cap job[r].fresh = {} /\ new.gone \cap job[r].gone = {}
              /\ job[j].kind = "ingest" /\ job[r].kind = "ingest" => job[j].docs \cap job[r].docs = {}
              /\ new.fresh \cap job[r].old = {} /\ job[r].fresh \cap job[j].old = {}
              /\ job'[r] = job[r]
  BY <1>4, <1>6, Parts DEF Apart, Frame
<1>12. new.fresh \cap new.old = {}
  BY <1>6, Parts
<1>13. Inside(j)'
  BY <1>4, <1>8, <1>10, <1>11, <1>12 DEF Inside, JobOK
<1>14. ASSUME NEW e \in job[j].docs
       PROVE  InArea(e)'
  <2>1. e \in Docs /\ Sound(e) /\ Served(e) /\ Owned(e)
    BY <1>1, Parts DEF ProcessingIsOwned, Owned
  <2>2. DocOK(e)'
    BY <2>1, DocUntouched
  <2>3. Owned(e)'
    BY <1>4, <2>1 DEF Owned, Frame
  <2>4. Rows(e)' = Rows(e)
    BY DEF Rows
  <2>5. \A r \in Jobs \ {j} : e \in job'[r].docs => e \in suspect'
    BY <1>4 DEF Frame
  <2>6. \A r \in Jobs : Exchanged(r)' \subseteq job'[r].docs
    BY DEF Exchanged
  <2>7. OldOf(j, e)' = OldOf(j, e)
    BY <1>4, <1>7 DEF OldOf
  <2>8. Sound(e)'
    BY <1>4, <2>1, <2>4, <2>5, <2>6, <2>7 DEF Sound
  <2>9. \A r \in Jobs : Cleared(r, e)' <=> Cleared(r, e)
    BY <1>4, <1>9 DEF Frame, Cleared
  <2>10. Served(e)'
    BY <2>1, <2>4, <2>9, CurrentStays DEF Served
  <2> QED
    BY <2>2, <2>3, <2>8, <2>10 DEF InArea
<1>15. ASSUME NEW k \in Chunks, owner'[k] \in Area(j)
       PROVE  Refers(k)' /\ Located(k)'
  <2>1. CASE k = c
    BY <1>1, <1>3, <1>6, <2>1 DEF Refers, Located
  <2>2. CASE k # c
    <3>1. Refers(k) /\ Located(k) /\ owner'[k] = owner[k]
      BY <1>3, <2>2, Parts
    <3>2. \A r \in Jobs : k \in job[r].fresh => k \in job'[r].fresh
      BY <1>4 DEF Frame
    <3> QED
      BY <3>1, <3>2 DEF Refers, Located, Exists
  <2> QED
    BY <2>1, <2>2
<1>16. file' \in [Docs -> BOOLEAN]
  BY <1>1 DEF Types
<1> QED
  BY <1>4, <1>5, <1>13, <1>14, <1>15, <1>16, LocalStep

\* The step a job is at tells its kind.
LEMMA KindOfStep ==
  ASSUME IInv, NEW j \in Jobs
  PROVE  /\ job[j].pc = "parse" => job[j].kind = "ingest"
         /\ job[j].pc = "swap" => job[j].kind = "rechunk"
<1>1. JobOK(j)
  BY Parts
<1>2. job[j].kind \in {"none", "ingest", "rebuild", "rechunk", "delete"}
  BY Parts, JobTypes DEF JobState
<1> QED
  BY <1>1, <1>2 DEF JobOK, Holds, Ingests, Rebuilds, Rechunks, Deletes

LEMMA IngestFlushInv ==
  ASSUME IInv, NEW j \in Jobs, NEW d \in Docs, NEW c \in Chunks, IngestFlush(j, d, c)
  PROVE  IInv'
<1>1. Types /\ JobOK(j) /\ job[j] \in JobState /\ job \in [Jobs -> JobState]
  BY Parts, JobTypes DEF Types
<1> DEFINE new == [job[j] EXCEPT !.pc = "embed", !.fresh = {c}]
<1>2. /\ job[j].pc = "parse" /\ job[j].docs = {d} /\ Exists(d) /\ NewChunk(c, d) /\ Step(j, new)
      /\ UNCHANGED <<doc, file, chunk, vectors, dim, profile, tries, retired, suspect, cut>>
  BY DEF IngestFlush
<1>3. job[j].kind = "ingest" /\ Busy(j) /\ job[j].fresh = {} /\ job[j].gone = {}
  BY <1>1, <1>2, KindOfStep, DeployedProfile DEF JobOK, Ingests
<1>4. /\ new \in JobState /\ new.pc = "embed" /\ new.kind = job[j].kind
      /\ new.docs = job[j].docs /\ new.profile = job[j].profile
      /\ new.old = job[j].old /\ new.changed = job[j].changed
      /\ new.changedDocs = job[j].changedDocs /\ new.todo = job[j].todo /\ new.at = job[j].at
      /\ new.fresh = {c} /\ new.gone = job[j].gone
  BY <1>1 DEF JobState
<1>5. job'[j] = new
  BY <1>1, <1>2 DEF Step
<1> HIDE DEF new
<1>6. Ingests(j)'
  BY <1>1, <1>2, <1>3, <1>4, <1>5 DEF JobOK, Ingests
<1>7. Rebuilds(j)' /\ Rechunks(j)' /\ Deletes(j)'
  BY <1>3, <1>4, <1>5 DEF Rebuilds, Rechunks, Deletes
<1>8. /\ d \in job[j].docs /\ new.fresh = job[j].fresh \cup {c} /\ new.gone \subseteq job[j].old
      /\ job[j].pc # "embed" /\ \A k \in job[j].fresh : owner[k] # d
      /\ \A r \in Jobs \ {j} : new.gone \cap job[r].gone = {}
  BY <1>2, <1>3, <1>4
<1> QED
  BY <1>2, <1>3, <1>4, <1>6, <1>7, <1>8, InsertStep

LEMMA RechunkSwapInv ==
  ASSUME IInv, NEW j \in Jobs, NEW c \in Chunks, RechunkSwap(j, c)
  PROVE  IInv'
<1>1. Types /\ JobOK(j) /\ job[j] \in JobState /\ job \in [Jobs -> JobState]
  BY Parts, JobTypes DEF Types
<1> DEFINE d == job[j].at
           new == [job[j] EXCEPT !.pc = "embed", !.fresh = job[j].fresh \cup {c},
                                 !.gone = job[j].gone \cup Swapped(j)]
<1>2. /\ job[j].pc = "swap" /\ Exists(d) /\ NewChunk(c, d) /\ Step(j, new)
      /\ \A o \in OldOf(j, d) : ~DeletedByOther(j, o)
      /\ UNCHANGED <<doc, file, chunk, vectors, dim, profile, tries, retired, suspect, cut>>
  BY DEF RechunkSwap
<1>3. job[j].kind = "rechunk" /\ Busy(j)
  BY <1>2, KindOfStep, DeployedProfile
<1>4. /\ d \in job[j].docs \ job[j].todo
      /\ \A e \in job[j].docs : doc[e].status \in {"completed", "deleted"}
      /\ {owner[k] : k \in job[j].fresh} = Exchanged(j)
      /\ \A k \in job[j].gone : owner[k] \in Exchanged(j)
      /\ job[j].gone \subseteq job[j].old /\ job[j].old \subseteq Chunks
      /\ job[j].fresh \subseteq Chunks
  BY <1>1, <1>2, <1>3, JobTypes DEF JobOK, Holds, Rechunks
<1>5. Swapped(j) \subseteq job[j].old /\ \A k \in Swapped(j) : owner[k] = d
  BY DEF Swapped, OldOf
<1>6. /\ new \in JobState /\ new.pc = "embed" /\ new.kind = job[j].kind
      /\ new.docs = job[j].docs /\ new.profile = job[j].profile
      /\ new.old = job[j].old /\ new.changed = job[j].changed
      /\ new.changedDocs = job[j].changedDocs /\ new.todo = job[j].todo /\ new.at = d
      /\ new.fresh = job[j].fresh \cup {c} /\ new.gone = job[j].gone \cup Swapped(j)
  BY <1>1, <1>4, <1>5 DEF JobState
<1>7. job'[j] = new
  BY <1>1, <1>2 DEF Step
<1> HIDE DEF new
<1>8. Exchanged(j) = job[j].docs \ (job[j].todo \cup {d})
  BY <1>2 DEF Exchanged
<1>9. Exchanged(j)' = Exchanged(j) \cup {d}
  BY <1>4, <1>6, <1>7, <1>8 DEF Exchanged
<1>10. owner[c] = NoDoc /\ owner' = [owner EXCEPT ![c] = d]
       /\ owner \in [Chunks -> Docs \cup {NoDoc}]
  BY <1>1, <1>2 DEF NewChunk, Types
<1>11. c \notin job[j].old /\ c \notin job[j].fresh
  BY <1>10, UnmadeChunk
<1>12. owner'[c] = d /\ \A k \in job[j].old \cup job[j].fresh : owner'[k] = owner[k]
  BY <1>4, <1>10, <1>11
<1>13. {owner'[k] : k \in new.fresh} = {owner[k] : k \in job[j].fresh} \cup {d}
  BY <1>6, <1>12
<1>14. {owner[k] : k \in job[j].fresh}' = {owner'[k] : k \in new.fresh}
  BY <1>7
<1>15. \A k \in new.gone : owner'[k] \in Exchanged(j)'
  BY <1>4, <1>5, <1>6, <1>9, <1>12
<1>16. Rechunks(j)'
  BY <1>2, <1>3, <1>4, <1>6, <1>7, <1>9, <1>13, <1>14, <1>15 DEF Rechunks
<1>17. Ingests(j)' /\ Rebuilds(j)' /\ Deletes(j)'
  BY <1>3, <1>6, <1>7 DEF Ingests, Rebuilds, Deletes
<1>18. \A k \in job[j].fresh : owner[k] # d
  BY <1>4, <1>8
<1>19. ASSUME NEW r \in Jobs \ {j}
       PROVE  new.gone \cap job[r].gone = {}
  <2>1. job[j].gone \cap job[r].gone = {}
    BY Parts DEF Apart
  <2>2. Swapped(j) \cap job[r].gone = {}
    BY <1>2 DEF Swapped, DeletedByOther
  <2> QED
    BY <1>6, <2>1, <2>2
<1>20. ASSUME NEW e \in Exchanged(j)', e \notin suspect
       PROVE  Rows(e) \subseteq new.gone
  <2>1. e \in Docs /\ e \in job[j].docs /\ Sound(e)
    BY <1>1, <1>4, <1>8, <1>9, Parts, JobTypes
  <2>2. CASE e \in Exchanged(j)
    BY <1>3, <1>6, <1>20, <2>1, <2>2 DEF Sound
  <2>3. CASE e = d
    <3>1. Rows(e) = OldOf(j, e)
      BY <1>20, <2>1 DEF Sound
    <3>2. \A k \in Rows(e) : chunk[k].doc # NoDoc
      BY <2>1, RowsOwned, IngestionAssumption
    <3> QED
      BY <1>6, <2>3, <3>1, <3>2 DEF Swapped
  <2> QED
    BY <1>9, <2>2, <2>3
<1>21. new.gone \subseteq job[j].old /\ job[j].pc # "embed"
  BY <1>2, <1>4, <1>5, <1>6
<1> QED
  BY <1>2, <1>3, <1>4, <1>6, <1>16, <1>17, <1>18, <1>19, <1>20, <1>21, InsertStep

-----------------------------------------------------------------------------
(* Commits *)

LEMMA EndStep ==
  ASSUME IInv, NEW j \in Jobs, NEW ok \in BOOLEAN, End(j, ok),
         UNCHANGED <<file, profile, owner, retired, cut>>, TablesLocal(j),
         NEW C \in SUBSET (job[j].old \cup job[j].fresh), Spares(C),
         \A d \in job[j].docs : InArea(d)',
         \A c \in Chunks : owner[c] \in job[j].docs => Refers(c)' /\ Located(c)'
  PROVE  IInv'
<1>1. Frame(j) /\ job'[j] = Idle /\ Area(j) = job[j].docs
  BY EndFrame
<1>2. Local(j)
  BY <1>1, SparesOthers DEF Local
<1>3. Inside(j)'
  BY <1>1, IdleInside
<1>4. file' \in [Docs -> BOOLEAN]
  BY Parts DEF Types
<1> QED
  BY <1>1, <1>2, <1>3, <1>4, LocalStep

\* After the job no other one has a document of it that is not suspect.
LEMMA EndSound ==
  ASSUME IInv, NEW j \in Jobs, NEW ok \in BOOLEAN, End(j, ok),
         UNCHANGED <<profile, owner, retired, cut>>, NEW d \in job[j].docs,
         d \notin suspect' =>
           IF doc'[d].status = "completed" THEN \E c \in Chunks : Rows(d)' = {c} ELSE Rows(d)' = {}
  PROVE  Sound(d)'
<1>1. /\ job'[j] = Idle /\ Idle.docs = {} /\ Area(j) = job[j].docs
      /\ \A r \in Jobs \ {j} : job'[r] = job[r] /\ Area(j) \cap job[r].docs \subseteq suspect'
  BY EndFrame DEF Idle, Frame
<1>2. \A r \in Jobs : d \in job'[r].docs => d \in suspect'
  BY <1>1
<1>3. \A r \in Jobs : Exchanged(r)' \subseteq job'[r].docs
  BY DEF Exchanged
<1> QED
  BY <1>2, <1>3 DEF Sound

\* A chunk of the area that the job neither inserted nor deleted stays where it is.
LEMMA EndLocated ==
  ASSUME IInv, NEW j \in Jobs, NEW ok \in BOOLEAN, End(j, ok),
         UNCHANGED <<vectors, dim, profile, owner, retired, cut>>,
         NEW c \in Chunks \ job[j].fresh,
         chunk'[c].doc = NoDoc => chunk[c].doc = NoDoc
  PROVE  Located(c)'
<1>1. Located(c)
  BY Parts
<1>2. \A r \in Jobs : c \in job[r].fresh => c \in job'[r].fresh
  BY EndFrame DEF Frame
<1>3. suspect \subseteq suspect'
  BY EndFrame DEF Frame
<1> QED
  BY <1>1, <1>2, <1>3 DEF Located

\* What an ingestion writes of its document, and into its own chunks.
LEMMA IngestWrites ==
  ASSUME IInv, NEW j \in Jobs, NEW d \in Docs, job[j].kind = "ingest", job[j].docs = {d},
         Frame(j), Area(j) = {d}, owner' = owner,
         doc' \in [Docs -> Document], \A e \in Docs \ {d} : doc'[e] = doc[e],
         doc' = doc \/ (Exists(d) /\ doc'[d].status \notin {"none", "deleted"}),
         chunk' \in [Chunks -> ChunkRow],
         \A c \in Chunks : IF c \in job[j].fresh THEN chunk'[c].doc = d ELSE chunk'[c] = chunk[c],
         tries' \in [Docs -> 0 .. Attempts], \A e \in Docs \ {d} : tries'[e] = tries[e]
  PROVE  TablesLocal(j)
<1>1. Types /\ JobOK(j) /\ \A c \in Chunks : Refers(c)
  BY Parts
<1>2. \A c \in job[j].fresh : owner[c] = d
  BY <1>1 DEF JobOK, Holds
<1>3. doc[d].status \in {"processing", "deleted"}
  BY <1>1 DEF JobOK, Ingests
<1>4. \A c \in Chunks : chunk'[c].doc \in {NoDoc, owner[c]}
  BY <1>1, <1>2 DEF Refers
<1>5. \A c \in Chunks : owner[c] # d => chunk'[c] = chunk[c]
  BY <1>2
<1>6. ASSUME NEW r \in Jobs \ {j}, NEW e \in job[r].docs
      PROVE  \/ doc'[e].status \in {doc[e].status, "deleted"}
             \/ job[r].kind = "delete" /\ doc'[e].status # "none"
  <2>1. JobOK(r) /\ e \in Docs /\ Apart(j, r)
    BY <1>1, <1>6, Parts, JobTypes
  <2>2. CASE e # d \/ doc' = doc
    BY <2>1, <2>2
  <2>3. CASE e = d /\ Exists(d) /\ doc'[d].status \notin {"none", "deleted"}
    <3>1. job[r].kind \in {"rebuild", "rechunk", "ingest", "delete"}
      BY <2>1, <1>1, <1>6, JobTypes DEF JobOK, Holds, Busy, Idle, JobState
    <3>2. job[r].kind \notin {"rebuild", "rechunk"}
      BY <1>3, <2>1, <2>3 DEF JobOK, Rebuilds, Rechunks, Exists
    <3>3. job[r].kind # "ingest"
      BY <1>6, <2>1, <2>3 DEF Apart
    <3> QED
      BY <2>3, <3>1, <3>2, <3>3
  <2> QED
    BY <2>2, <2>3
<1>7. ASSUME NEW r \in Jobs \ {j}, NEW c \in job[r].fresh
      PROVE  chunk'[c] = chunk[c] /\ doc'[owner[c]].status \notin {"none", "deleted"}
  <2>1. c \in Chunks /\ c \notin job[j].fresh /\ owner[c] \in Docs /\ Exists(owner[c])
    BY <1>1, <1>7, Parts, OwnersKept DEF Apart, JobOK, Holds
  <2> QED
    BY <2>1 DEF Exists
<1> QED
  BY <1>4, <1>5, <1>6, <1>7 DEF TablesLocal

LEMMA IngestFailsEarlyInv ==
  ASSUME IInv, NEW j \in Jobs, NEW d \in Docs, IngestFailsEarly(j, d)
  PROVE  IInv'
<1>1. Types /\ JobOK(j) /\ DocOK(d) /\ Sound(d) /\ Owned(d)
  BY Parts DEF ProcessingIsOwned, Owned
<1>2. /\ job[j].pc = "parse" /\ job[j].docs = {d} /\ End(j, TRUE)
      /\ UNCHANGED <<file, chunk, vectors, dim, profile, tries, owner, retired, cut>>
  BY DEF IngestFailsEarly
<1>3. job[j].kind = "ingest" /\ job[j].fresh = {} /\ doc[d].status \in {"processing", "deleted"}
  BY <1>1, <1>2, KindOfStep DEF JobOK, Ingests
<1>4. Frame(j) /\ job'[j] = Idle /\ Area(j) = {d} /\ suspect' = suspect
  BY <1>2, EndFrame
<1>5. /\ doc' \in [Docs -> Document] /\ \A e \in Docs \ {d} : doc'[e] = doc[e]
      /\ doc'[d].count = doc[d].count /\ doc'[d].profile = doc[d].profile
      /\ Exists(d) /\ doc'[d].status = "failed"
  BY <1>1, StatusSet DEF IngestFailsEarly, Statuses
<1>6. TablesLocal(j)
  <2>1. chunk' \in [Chunks -> ChunkRow] /\ tries' \in [Docs -> 0 .. Attempts]
    BY <1>1, <1>2 DEF Types
  <2>2. \A c \in Chunks : IF c \in job[j].fresh THEN chunk'[c].doc = d ELSE chunk'[c] = chunk[c]
    BY <1>2, <1>3
  <2> QED
    BY <1>2, <1>3, <1>4, <1>5, <2>1, <2>2, IngestWrites
<1>7. Rows(d)' = Rows(d) /\ Embedded(d)' = Embedded(d)
  BY <1>2 DEF Rows, Embedded
<1>8. Sound(d)'
  <2>1. d \notin suspect' => Rows(d)' = {}
    BY <1>1, <1>3, <1>4, <1>7 DEF Sound
  <2> QED
    BY <1>2, <1>5, <2>1, EndSound
<1>9. InArea(d)'
  BY <1>1, <1>2, <1>3, <1>5, <1>7, <1>8 DEF InArea, DocOK, Owned, Served
<1>10. ASSUME NEW c \in Chunks, owner[c] \in job[j].docs
       PROVE  Refers(c)' /\ Located(c)'
  <2>1. Refers(c)'
    BY <1>2, <1>5, <1>10, Parts DEF Refers, Exists
  <2>2. Located(c)'
    BY <1>2, <1>3, EndLocated
  <2> QED
    BY <2>1, <2>2
<1> QED
  BY <1>2, <1>6, <1>9, <1>10, VectorsUntouched, EndStep

LEMMA IngestFailsLateInv ==
  ASSUME IInv, NEW j \in Jobs, NEW d \in Docs, IngestFailsLate(j, d)
  PROVE  IInv'
<1>1. Types /\ JobOK(j) /\ DocOK(d) /\ job[j].fresh \subseteq Chunks
      /\ NoProfile \notin Profiles /\ NoDoc \notin Docs
  BY Parts, JobTypes, IngestionAssumption
<1>2. /\ job[j].kind = "ingest" /\ job[j].pc = "embed" /\ job[j].docs = {d} /\ End(j, FALSE)
      /\ SetStatus(d, "failed")
      /\ UNCHANGED <<file, profile, tries, owner, retired, cut>>
      /\ chunk' = [c \in Chunks |->
           IF c \in job[j].fresh THEN [doc |-> d, profile |-> NoProfile] ELSE chunk[c]]
  BY DEF IngestFailsLate
<1>3. /\ job[j].fresh # {} /\ doc[d].status \in {"processing", "deleted"}
      /\ \A c \in job[j].fresh : owner[c] = d /\ chunk[c].doc = NoDoc /\ Exists(owner[c])
  BY <1>1, <1>2 DEF JobOK, Ingests, Holds
<1>4. Exists(d) /\ doc[d].status = "processing"
  BY <1>3 DEF Exists
<1>5. Frame(j) /\ job'[j] = Idle /\ Area(j) = {d} /\ d \in suspect'
  BY <1>2, EndFrame
<1>6. /\ doc' \in [Docs -> Document] /\ \A e \in Docs \ {d} : doc'[e] = doc[e]
      /\ doc'[d].status = "failed" /\ doc'[d].count = doc[d].count
      /\ doc'[d].profile = doc[d].profile
  BY <1>1, <1>2, StatusSet DEF Statuses
<1>7. /\ chunk' \in [Chunks -> ChunkRow]
      /\ \A c \in job[j].fresh : chunk'[c].doc = d /\ chunk'[c].profile = NoProfile
      /\ \A c \in Chunks \ job[j].fresh : chunk'[c] = chunk[c]
  BY <1>1, <1>2 DEF Types, ChunkRow
<1>8. TablesLocal(j)
  BY <1>1, <1>2, <1>4, <1>5, <1>6, <1>7, TriesType, IngestWrites
<1>9. Embedded(d)' = {}
  <2>1. Embedded(d) = {}
    BY <1>1, <1>4 DEF DocOK
  <2> QED
    BY <1>7, <2>1 DEF Embedded, Rows
<1>10. InArea(d)'
  BY <1>1, <1>2, <1>4, <1>5, <1>6, <1>9 DEF InArea, DocOK, Owned, Served, Sound
<1>11. job[j].profile = profile
  BY <1>2, DeployedProfile
<1>12. Spares(job[j].fresh)
  BY <1>1, <1>11, UpsertBreaksSpares DEF IngestFailsLate
<1>13. ASSUME NEW c \in Chunks, owner[c] \in job[j].docs
       PROVE  Refers(c)' /\ Located(c)'
  <2>1. owner[c] = d /\ Refers(c)
    BY <1>2, <1>13, Parts
  <2>2. Refers(c)'
    BY <1>1, <1>2, <1>6, <1>7, <2>1 DEF Refers, Exists
  <2>3. Located(c)'
    BY <1>2, <1>5, <1>12, <2>1 DEF Located, Spares
  <2> QED
    BY <2>2, <2>3
<1> QED
  BY <1>2, <1>8, <1>10, <1>12, <1>13, EndStep

LEMMA IngestCommitInv ==
  ASSUME IInv, NEW j \in Jobs, NEW d \in Docs, IngestCommit(j, d)
  PROVE  IInv'
<1>1. Types /\ JobOK(j) /\ DocOK(d) /\ Sound(d) /\ Stands(j) /\ job[j].fresh \subseteq Chunks
      /\ NoProfile \notin Profiles /\ NoDoc \notin Docs /\ profile \in Profiles
      /\ Attempts \in Nat
  BY Parts, JobTypes, IngestionAssumption DEF Types
<1>2. /\ job[j].kind = "ingest" /\ job[j].pc = "commit" /\ job[j].docs = {d} /\ End(j, TRUE)
      /\ chunk' = [c \in Chunks |->
           IF c \in job[j].fresh THEN [doc |-> d, profile |-> job[j].profile] ELSE chunk[c]]
      /\ doc' = [doc EXCEPT ![d] = Completed(job[j].profile)]
      /\ tries' = [tries EXCEPT ![d] = 0]
      /\ UNCHANGED <<file, vectors, dim, profile, owner, retired, cut>>
  BY DEF IngestCommit
<1>3. /\ job[j].fresh # {} /\ doc[d].status \in {"processing", "deleted"}
      /\ \A c \in job[j].fresh : owner[c] = d /\ chunk[c].doc = NoDoc /\ Exists(owner[c])
      /\ \A c, k \in job[j].fresh : owner[c] = owner[k] => c = k
      /\ job[j].profile = profile
  BY <1>1, <1>2 DEF JobOK, Ingests, Holds, Busy
<1>4. PICK k \in Chunks : job[j].fresh = {k}
  BY <1>1, <1>3
<1>5. Exists(d) /\ doc[d].status = "processing"
  BY <1>3 DEF Exists
<1>6. Frame(j) /\ job'[j] = Idle /\ Area(j) = {d} /\ suspect' = suspect
  BY <1>2, EndFrame
<1>7. Completed(profile) \in Document
  BY <1>1 DEF Completed, Document, Statuses
<1>8. /\ doc' \in [Docs -> Document] /\ \A e \in Docs \ {d} : doc'[e] = doc[e]
      /\ doc'[d].status = "completed" /\ doc'[d].count = 1 /\ doc'[d].profile = profile
  BY <1>1, <1>2, <1>3, <1>7 DEF Types, Completed
<1>9. /\ chunk' \in [Chunks -> ChunkRow]
      /\ chunk'[k].doc = d /\ chunk'[k].profile = profile
      /\ \A c \in Chunks \ {k} : chunk'[c] = chunk[c]
  BY <1>1, <1>2, <1>3, <1>4 DEF Types, ChunkRow
<1>10. tries' \in [Docs -> 0 .. Attempts] /\ tries'[d] = 0 /\ \A e \in Docs \ {d} : tries'[e] = tries[e]
  BY <1>1, <1>2 DEF Types
<1>11. TablesLocal(j)
  BY <1>2, <1>4, <1>5, <1>6, <1>8, <1>9, <1>10, IngestWrites
<1>12. DocOK(d)'
  <2>1. k \in Embedded(d)'
    BY <1>1, <1>9 DEF Embedded, Rows
  <2> QED
    BY <1>2, <1>8, <1>10, <2>1 DEF DocOK
<1>13. d \notin suspect' => Rows(d)' = {k}
  <2>1. d \notin suspect' => Rows(d) = {}
    BY <1>1, <1>5, <1>6 DEF Sound
  <2> QED
    BY <1>9, <2>1 DEF Rows
<1>14. Sound(d)'
  BY <1>2, <1>8, <1>13, EndSound
<1>15. vectors[k] \in Current
  BY <1>1, <1>2, <1>4 DEF Stands, Written
<1>16. InArea(d)'
  BY <1>2, <1>8, <1>12, <1>13, <1>14, <1>15, CurrentStays DEF InArea, Served, Owned
<1>17. ASSUME NEW c \in Chunks, owner[c] \in job[j].docs
       PROVE  Refers(c)' /\ Located(c)'
  <2>1. owner[c] = d /\ Refers(c) /\ Located(c)
    BY <1>2, <1>17, Parts
  <2>2. Refers(c)'
    BY <1>1, <1>2, <1>8, <1>9, <2>1 DEF Refers, Exists
  <2>3. CASE c = k
    BY <1>1, <1>2, <1>9, <2>1, <2>2, <2>3 DEF Located
  <2>4. CASE c # k
    BY <1>2, <1>4, <1>9, <2>2, <2>4, EndLocated
  <2> QED
    BY <2>3, <2>4, <2>2
<1> QED
  BY <1>2, <1>11, <1>16, <1>17, VectorsUntouched, EndStep

\* The row of a document that is deleted or was never uploaded has no chunk rows.
LEMMA RowsExist ==
  ASSUME IInv, NEW d \in Docs, Rows(d) # {}
  PROVE  Exists(d)
BY RowsOwned, Parts, IngestionAssumption DEF Refers

LEMMA RebuildCommitInv ==
  ASSUME IInv, NEW j \in Jobs, RebuildCommit(j)
  PROVE  IInv'
<1>1. Types /\ JobOK(j) /\ Stands(j) /\ NoProfile \notin Profiles /\ NoDoc \notin Docs
      /\ profile \in Profiles
      /\ job[j].docs \subseteq Docs /\ job[j].old \subseteq Chunks
  BY Parts, JobTypes, IngestionAssumption DEF Types
<1>2. job[j].kind = "rebuild" /\ job[j].pc = "commit"
      /\ UNCHANGED <<file, vectors, dim, profile, tries, owner, retired, cut>>
  BY DEF RebuildCommit
<1>3. CASE ~(/\ \A c \in job[j].changed : chunk[c].doc # NoDoc
             /\ \A d \in job[j].changedDocs : Exists(d))
  <2>1. UNCHANGED <<chunk, doc>> /\ End(j, FALSE)
    BY <1>3 DEF RebuildCommit
  <2> QED
    BY <1>2, <2>1, VectorsUntouched, TriesType, BrokenEnd
<1>4. CASE /\ \A c \in job[j].changed : chunk[c].doc # NoDoc
           /\ \A d \in job[j].changedDocs : Exists(d)
  <2>1. /\ chunk' = [c \in Chunks |->
             IF c \in job[j].changed
             THEN [doc |-> chunk[c].doc, profile |-> job[j].profile] ELSE chunk[c]]
        /\ doc' = [d \in Docs |->
             IF d \in job[j].changedDocs
             THEN [status |-> doc[d].status, count |-> doc[d].count,
                   profile |-> job[j].profile]
             ELSE doc[d]]
        /\ End(j, TRUE)
    BY <1>4 DEF RebuildCommit
  <2>2. /\ job[j].profile = profile /\ job[j].changed \subseteq job[j].old
        /\ job[j].changedDocs \subseteq job[j].docs
        /\ job[j].fresh = {} /\ \A c \in job[j].old : owner[c] \in job[j].docs
        /\ \A d \in job[j].docs : doc[d].status \in {"completed", "deleted"}
    BY <1>1, <1>2 DEF JobOK, Holds, Rebuilds, Busy
  <2>3. Frame(j) /\ job'[j] = Idle /\ Area(j) = job[j].docs /\ suspect' = suspect
    BY <1>2, <2>1, EndFrame
  <2>4. /\ doc' \in [Docs -> Document]
        /\ \A d \in Docs : doc'[d].status = doc[d].status /\ doc'[d].count = doc[d].count
        /\ \A d \in Docs : doc'[d].profile \in {doc[d].profile, profile}
        /\ \A d \in Docs \ job[j].docs : doc'[d] = doc[d]
    BY <1>1, <2>1, <2>2 DEF Types, Document
  <2>5. /\ chunk' \in [Chunks -> ChunkRow]
        /\ \A c \in Chunks : chunk'[c].doc = chunk[c].doc
        /\ \A c \in Chunks : chunk'[c].profile = chunk[c].profile \/ chunk'[c].profile = profile
        /\ \A c \in Chunks \ job[j].old : chunk'[c] = chunk[c]
    BY <1>1, <2>1, <2>2 DEF Types, ChunkRow
  <2>6. TablesLocal(j)
    <3>1. \A c \in Chunks : chunk'[c].doc \in {NoDoc, owner'[c]}
      BY <1>2, <2>5, Parts DEF Refers
    <3>2. \A c \in Chunks : owner'[c] \notin Area(j) => chunk'[c] = chunk[c]
      BY <1>2, <2>2, <2>3, <2>5
    <3>3. ASSUME NEW r \in Jobs \ {j}, NEW e \in job[r].docs
          PROVE  doc'[e].status = doc[e].status
      BY <1>1, <2>4, JobTypes
    <3>4. ASSUME NEW r \in Jobs \ {j}, NEW c \in job[r].fresh
          PROVE  chunk'[c] = chunk[c] /\ doc'[owner[c]].status \notin {"none", "deleted"}
      <4>1. c \in Chunks /\ c \notin job[j].old /\ Exists(owner[c]) /\ owner[c] \in Docs
        BY <2>3, <3>4, Parts, OwnersKept DEF JobOK, Holds
      <4> QED
        BY <2>4, <2>5, <4>1 DEF Exists
    <3> QED
      BY <1>2, <2>3, <2>4, <2>5, <3>1, <3>2, <3>3, <3>4, TriesType DEF TablesLocal
  <2>7. ASSUME NEW d \in job[j].docs
        PROVE  InArea(d)'
    <3>1. d \in Docs /\ DocOK(d) /\ Sound(d) /\ Owned(d)
      BY <1>1, Parts DEF ProcessingIsOwned, Owned
    <3>2. Rows(d)' = Rows(d)
      BY <2>5 DEF Rows
    <3>3. Embedded(d) \subseteq Embedded(d)' /\ Embedded(d)' \subseteq Rows(d)
      BY <1>1, <2>5, <3>2 DEF Embedded, Rows
    <3>4. CASE doc[d].status = "completed"
      <4>1. DocOK(d)'
        <5>1. /\ doc[d].count = 1 /\ tries[d] = 0 /\ Embedded(d) # {}
              /\ doc[d].profile \in retired \cup {profile, NoProfile}
          BY <3>1, <3>4 DEF DocOK
        <5>2. /\ doc'[d].status = "completed" /\ doc'[d].count = 1
              /\ doc'[d].profile \in {doc[d].profile, profile}
          BY <2>4, <3>1, <3>4, <5>1
        <5> QED
          BY <1>2, <3>3, <5>1, <5>2 DEF DocOK
      <4>2. Sound(d)'
        <5>1. ASSUME d \notin suspect
              PROVE  \E c \in Chunks : Rows(d)' = {c}
          BY <3>1, <3>2, <3>4, <5>1 DEF Sound
        <5>2. doc'[d].status = "completed" /\ suspect' = suspect
          BY <2>3, <2>4, <3>1, <3>4
        <5> QED
          BY <1>2, <2>1, <5>1, <5>2, EndSound
      <4>3. ASSUME d \notin suspect, NEW c \in Rows(d)
            PROVE  vectors[c] \in Current
        <5>1. c \in job[j].old /\ owner[c] = d
          BY <3>1, <4>3 DEF Sound, OldOf
        <5> QED
          BY <1>1, <1>2, <4>3, <5>1 DEF Stands
      <4>4. Served(d)'
        BY <1>2, <2>3, <3>2, <4>3, CurrentStays DEF Served
      <4>5. Owned(d)'
        BY <2>4, <3>1, <3>4 DEF Owned
      <4> QED
        BY <4>1, <4>2, <4>4, <4>5 DEF InArea
    <3>5. CASE doc[d].status = "deleted"
      <4>1. Rows(d) = {}
        BY <3>1, <3>5, RowsExist DEF Exists
      <4>2. DocOK(d)'
        BY <1>2, <2>4, <3>1, <3>3, <3>5, <4>1 DEF DocOK
      <4>3. Sound(d)'
        BY <1>2, <2>1, <2>4, <3>1, <3>2, <3>5, <4>1, EndSound
      <4>4. Served(d)' /\ Owned(d)'
        BY <2>4, <3>1, <3>5 DEF Served, Owned
      <4> QED
        BY <4>2, <4>3, <4>4 DEF InArea
    <3> QED
      BY <2>2, <3>4, <3>5
  <2>8. ASSUME NEW c \in Chunks, owner[c] \in job[j].docs
        PROVE  Refers(c)' /\ Located(c)'
    <3>1. Refers(c)'
      <4>1. Refers(c) /\ owner[c] \in Docs
        BY <1>1, <2>8, Parts
      <4> QED
        BY <1>2, <2>4, <2>5, <4>1 DEF Refers, Exists
    <3>2. Located(c)'
      BY <1>2, <2>1, <2>2, <2>5, EndLocated
    <3> QED
      BY <3>1, <3>2
  <2> QED
    BY <1>2, <2>1, <2>6, <2>7, <2>8, VectorsUntouched, EndStep
<1> QED
  BY <1>3, <1>4

LEMMA RechunkCommitInv ==
  ASSUME IInv, NEW j \in Jobs, RechunkCommit(j)
  PROVE  IInv'
<1>1. Types /\ JobOK(j) /\ Stands(j) /\ NoProfile \notin Profiles /\ NoDoc \notin Docs
      /\ profile \in Profiles /\ owner \in [Chunks -> Docs \cup {NoDoc}]
      /\ job[j].docs \subseteq Docs /\ job[j].old \subseteq Chunks /\ job[j].fresh \subseteq Chunks
  BY Parts, JobTypes, IngestionAssumption DEF Types
<1>2. /\ job[j].kind = "rechunk" /\ job[j].pc = "commit" /\ End(j, TRUE)
      /\ chunk' = [c \in Chunks |->
           IF c \in job[j].fresh THEN [doc |-> owner[c], profile |-> job[j].profile]
           ELSE IF c \in job[j].gone THEN NoRow ELSE chunk[c]]
      /\ doc' = [d \in Docs |->
           IF d \in job[j].docs THEN [status |-> doc[d].status, count |-> 1,
                                      profile |-> job[j].profile]
           ELSE doc[d]]
      /\ UNCHANGED <<file, vectors, dim, profile, tries, owner, retired, cut>>
  BY DEF RechunkCommit
<1>3. /\ job[j].profile = profile /\ job[j].gone \subseteq job[j].old
      /\ \A c \in job[j].old \cup job[j].fresh : owner[c] \in job[j].docs
      /\ \A c \in job[j].fresh : chunk[c].doc = NoDoc /\ Exists(owner[c])
      /\ \A c, x \in job[j].fresh : owner[c] = owner[x] => c = x
      /\ {owner[c] : c \in job[j].fresh} = Exchanged(j)
      /\ \A d \in job[j].docs : doc[d].status \in {"completed", "deleted"}
      /\ job[j].todo = {}
  BY <1>1, <1>2 DEF JobOK, Holds, Rechunks, Busy
<1>4. Exchanged(j) = job[j].docs
  BY <1>2, <1>3 DEF Exchanged
<1>5. \A d \in job[j].docs : \E k \in job[j].fresh : owner[k] = d
  BY <1>3, <1>4
<1>6. \A d \in job[j].docs : doc[d].status = "completed"
  BY <1>3, <1>5 DEF Exists
<1>7. Frame(j) /\ job'[j] = Idle /\ Area(j) = job[j].docs /\ suspect' = suspect
  BY <1>2, EndFrame
<1>8. /\ doc' \in [Docs -> Document]
      /\ \A d \in Docs : doc'[d].status = doc[d].status
      /\ \A d \in job[j].docs : doc'[d].count = 1 /\ doc'[d].profile = profile
      /\ \A d \in Docs \ job[j].docs : doc'[d] = doc[d]
  BY <1>1, <1>2, <1>3 DEF Types, Document
<1>9. /\ chunk' \in [Chunks -> ChunkRow]
      /\ \A c \in job[j].fresh : chunk'[c].doc = owner[c] /\ chunk'[c].profile = profile
      /\ \A c \in job[j].gone \ job[j].fresh : chunk'[c].doc = NoDoc
      /\ \A c \in Chunks \ (job[j].fresh \cup job[j].gone) : chunk'[c] = chunk[c]
  BY <1>1, <1>2, <1>3 DEF Types, ChunkRow, NoRow
<1>10. TablesLocal(j)
  <2>1. \A c \in Chunks : chunk'[c].doc \in {NoDoc, owner'[c]}
    BY <1>2, <1>9, Parts DEF Refers
  <2>2. \A c \in Chunks : owner'[c] \notin Area(j) => chunk'[c] = chunk[c]
    BY <1>2, <1>3, <1>7, <1>9
  <2>3. ASSUME NEW r \in Jobs \ {j}, NEW e \in job[r].docs
        PROVE  doc'[e].status = doc[e].status
    BY <1>1, <1>8, JobTypes
  <2>4. ASSUME NEW r \in Jobs \ {j}, NEW c \in job[r].fresh
        PROVE  chunk'[c] = chunk[c] /\ doc'[owner[c]].status \notin {"none", "deleted"}
    <3>1. c \in Chunks /\ c \notin job[j].old /\ c \notin job[j].fresh
          /\ Exists(owner[c]) /\ owner[c] \in Docs
      BY <1>7, <2>4, Parts, OwnersKept DEF JobOK, Holds, Apart
    <3> QED
      BY <1>3, <1>8, <1>9, <3>1 DEF Exists
  <2> QED
    BY <1>2, <1>7, <1>8, <1>9, <2>1, <2>2, <2>3, <2>4, TriesType DEF TablesLocal
<1>11. ASSUME NEW d \in job[j].docs
       PROVE  InArea(d)'
  <2>1. d \in Docs /\ DocOK(d) /\ Sound(d) /\ d # NoDoc
    BY <1>1, Parts
  <2>2. PICK k \in job[j].fresh : owner[k] = d
    BY <1>5
  <2>3. k \in Chunks /\ chunk'[k].doc = d /\ chunk'[k].profile = profile
    BY <1>1, <1>9, <2>2
  <2>4. DocOK(d)'
    <3>1. k \in Embedded(d)'
      BY <1>1, <2>3 DEF Embedded, Rows
    <3> QED
      BY <1>2, <1>6, <1>8, <2>1, <3>1 DEF DocOK
  <2>5. d \notin suspect' => Rows(d)' = {k}
    <3>1. SUFFICES ASSUME d \notin suspect'
                   PROVE  Rows(d)' = {k}
      OBVIOUS
    <3>2. Rows(d) \subseteq job[j].gone
      BY <1>2, <1>4, <1>7, <2>1, <3>1 DEF Sound
    <3>3. \A c \in job[j].fresh : chunk'[c].doc = d => c = k
      BY <1>3, <1>9, <2>2
    <3>4. \A c \in Chunks : chunk'[c].doc = d => c = k
      BY <1>9, <2>1, <3>2, <3>3 DEF Rows
    <3> QED
      BY <2>3, <3>4 DEF Rows
  <2>6. Sound(d)'
    BY <1>2, <1>6, <1>8, <2>1, <2>3, <2>5, EndSound
  <2>7. vectors[k] \in Current
    BY <1>1, <1>2, <2>2 DEF Stands, Written
  <2>8. Served(d)' /\ Owned(d)'
    BY <1>2, <1>6, <1>8, <2>1, <2>5, <2>7, CurrentStays DEF Served, Owned
  <2> QED
    BY <2>4, <2>6, <2>8 DEF InArea
<1>12. ASSUME NEW c \in Chunks, owner[c] \in job[j].docs
       PROVE  Refers(c)' /\ Located(c)'
  <2>1. Refers(c) /\ Located(c) /\ owner[c] \in Docs /\ owner[c] # NoDoc
    BY <1>1, <1>12, Parts
  <2>2. Refers(c)'
    BY <1>2, <1>3, <1>8, <1>9, <2>1 DEF Refers, Exists
  <2>3. CASE c \in job[j].fresh
    BY <1>2, <1>9, <2>1, <2>2, <2>3 DEF Located
  <2>4. CASE c \in job[j].gone \ job[j].fresh
    <3>1. owner[c] \notin suspect => vectors[c] = NoProfile
      <4>1. Cleared(j, owner[c]) /\ c \in job[j].old
        BY <1>2, <1>3, <1>12, <2>4 DEF Cleared
      <4> QED
        BY <1>1, <4>1 DEF Stands
    <3> QED
      BY <1>2, <1>7, <2>1, <2>2, <3>1 DEF Located
  <2>5. CASE c \notin job[j].fresh \cup job[j].gone
    BY <1>2, <1>9, <2>2, <2>5, EndLocated
  <2> QED
    BY <2>2, <2>3, <2>4, <2>5
<1> QED
  BY <1>2, <1>10, <1>11, <1>12, VectorsUntouched, EndStep

LEMMA DeleteCommitInv ==
  ASSUME IInv, NEW j \in Jobs, NEW d \in Docs, DeleteCommit(j, d)
  PROVE  IInv'
<1>1. Types /\ JobOK(j) /\ Stands(j) /\ NoProfile \notin Profiles /\ NoDoc \notin Docs
      /\ DocOK(d)
  BY Parts, IngestionAssumption
<1>2. /\ job[j].kind = "delete" /\ job[j].pc = "commit" /\ job[j].docs = {d}
      /\ ~Pinned(j, d)
      /\ doc' = [doc EXCEPT ![d] = [status |-> "deleted", count |-> 0, profile |-> NoProfile]]
      /\ chunk' = [c \in Chunks |-> IF c \in Rows(d) THEN NoRow ELSE chunk[c]]
      /\ End(j, TRUE)
      /\ UNCHANGED <<file, vectors, dim, profile, tries, owner, retired, cut>>
  BY DEF DeleteCommit, Cascaded
<1>3. job[j].fresh = {}
  BY <1>1, <1>2 DEF JobOK, Deletes
<1>4. Frame(j) /\ job'[j] = Idle /\ Area(j) = {d} /\ suspect' = suspect
  BY <1>2, EndFrame
<1>5. /\ doc' \in [Docs -> Document] /\ \A e \in Docs \ {d} : doc'[e] = doc[e]
      /\ doc'[d].status = "deleted" /\ doc'[d].count = 0 /\ doc'[d].profile = NoProfile
  BY <1>1, <1>2 DEF Types, Document, Statuses
<1>6. /\ chunk' \in [Chunks -> ChunkRow]
      /\ \A c \in Rows(d) : chunk'[c].doc = NoDoc
      /\ \A c \in Chunks \ Rows(d) : chunk'[c] = chunk[c]
  BY <1>1, <1>2 DEF Types, ChunkRow, NoRow, Rows
<1>7. \A c \in Rows(d) : c \in Chunks /\ owner[c] = d /\ chunk[c].doc = d
  BY RowsOwned
<1>8. TablesLocal(j)
  <2>1. \A c \in Chunks : chunk'[c].doc \in {NoDoc, owner'[c]}
    BY <1>2, <1>6, Parts DEF Refers
  <2>2. \A c \in Chunks : owner'[c] \notin Area(j) => chunk'[c] = chunk[c]
    BY <1>2, <1>4, <1>6, <1>7
  <2>3. ASSUME NEW r \in Jobs \ {j}, NEW e \in job[r].docs
        PROVE  doc'[e].status \in {doc[e].status, "deleted"}
    BY <1>1, <1>5, JobTypes
  <2>4. ASSUME NEW r \in Jobs \ {j}, NEW c \in job[r].fresh
        PROVE  chunk'[c] = chunk[c] /\ doc'[owner[c]].status \notin {"none", "deleted"}
    <3>1. c \in Chunks /\ Exists(owner[c]) /\ owner[c] \in Docs /\ owner[c] # d
      BY <1>2, <1>4, <2>4, Parts, OwnersKept DEF JobOK, Holds, Pinned
    <3> QED
      BY <1>5, <1>6, <1>7, <3>1 DEF Exists
  <2> QED
    BY <1>2, <1>4, <1>5, <1>6, <2>1, <2>2, <2>3, <2>4, TriesType DEF TablesLocal
<1>9. Rows(d)' = {}
  BY <1>1, <1>6 DEF Rows
<1>10. InArea(d)'
  <2>1. DocOK(d)'
    BY <1>2, <1>5, <1>9 DEF DocOK, Embedded
  <2>2. Sound(d)'
    BY <1>2, <1>5, <1>9, EndSound
  <2> QED
    BY <1>5, <2>1, <2>2 DEF InArea, Served, Owned
<1>11. ASSUME NEW c \in Chunks, owner[c] \in job[j].docs
       PROVE  Refers(c)' /\ Located(c)'
  <2>1. Refers(c) /\ Located(c) /\ owner[c] = d
    BY <1>2, <1>11, Parts
  <2>2. chunk'[c].doc = NoDoc
    BY <1>1, <1>6, <2>1 DEF Refers, Rows
  <2>3. Refers(c)'
    BY <1>1, <1>2, <2>1, <2>2 DEF Refers
  <2>4. CASE c \in Rows(d)
    <3>1. d \notin suspect => vectors[c] = NoProfile
      <4>1. SUFFICES ASSUME d \notin suspect
                     PROVE  vectors[c] = NoProfile
        OBVIOUS
      <4>2. c \in job[j].old
        BY <1>2, <2>4, <4>1, Parts DEF Sound, OldOf
      <4>3. Cleared(j, d)
        BY <1>2 DEF Cleared
      <4> QED
        BY <1>1, <2>1, <4>1, <4>2, <4>3 DEF Stands
    <3> QED
      BY <1>2, <1>4, <2>1, <2>3, <3>1 DEF Located
  <2>5. CASE c \notin Rows(d)
    <3>1. chunk'[c] = chunk[c]
      BY <1>6, <2>5
    <3> QED
      BY <1>2, <1>3, <2>3, <3>1, EndLocated
  <2> QED
    BY <2>3, <2>4, <2>5
<1> QED
  BY <1>2, <1>8, <1>10, <1>11, VectorsUntouched, EndStep

-----------------------------------------------------------------------------
(* The environment *)

\* Jobs have documents that were uploaded.
LEMMA DocsUploaded ==
  ASSUME IInv, NEW j \in Jobs, NEW d \in job[j].docs
  PROVE  d \in Docs /\ doc[d].status # "none"
<1>1. JobOK(j) /\ d \in Docs
  BY Parts, JobTypes
<1>2. job[j].kind \in {"none", "ingest", "rebuild", "rechunk", "delete"}
  BY Parts, JobTypes DEF JobState
<1>3. job[j].kind # "none"
  BY <1>1 DEF JobOK, Holds, Busy, Idle
<1> QED
  BY <1>1, <1>2, <1>3 DEF JobOK, Ingests, Rebuilds, Rechunks, Deletes

LEMMA UploadInv ==
  ASSUME IInv, NEW d \in Docs, Upload(d)
  PROVE  IInv'
<1>1. Types /\ Attempts \in Nat /\ NoProfile \notin Profiles
  BY Parts, IngestionAssumption
<1>2. /\ doc[d].status = "none"
      /\ file' = [file EXCEPT ![d] = TRUE]
      /\ doc' = [doc EXCEPT ![d] = [status |-> "uploaded", count |-> 0, profile |-> NoProfile]]
      /\ tries' = [tries EXCEPT ![d] = Attempts]
      /\ UNCHANGED <<chunk, vectors, dim, profile, job, owner, retired, suspect, cut>>
  BY DEF Upload
<1>3. /\ doc' \in [Docs -> Document] /\ \A e \in Docs \ {d} : doc'[e] = doc[e]
      /\ doc'[d].status = "uploaded" /\ doc'[d].count = 0 /\ doc'[d].profile = NoProfile
  BY <1>1, <1>2 DEF Types, Document, Statuses
<1>4. /\ tries' \in [Docs -> 0 .. Attempts] /\ \A e \in Docs \ {d} : tries'[e] = tries[e]
      /\ file' \in [Docs -> BOOLEAN]
  BY <1>1, <1>2 DEF Types
<1>5. Types'
  BY <1>1, <1>2, <1>3, <1>4 DEF Types
<1>6. \A e \in Docs : Exists(e) => Exists(e)'
  BY <1>3 DEF Exists
<1>7. \A j \in Jobs : \A e \in job[j].docs : doc'[e] = doc[e] /\ e # d /\ e \in Docs
  BY <1>2, <1>3, DocsUploaded
<1>8. ASSUME NEW j \in Jobs
      PROVE  JobOK(j)' /\ Stands(j)'
  <2>1. JobOK(j) /\ Stands(j)
    BY Parts
  <2>2. \A c \in job[j].fresh : owner[c] \in Docs
    BY <1>1, <2>1, JobTypes DEF JobOK, Holds
  <2>3. Holds(j)'
    BY <1>2, <1>6, <2>1, <2>2 DEF JobOK, Holds, Busy
  <2>4. Ingests(j)' /\ Rebuilds(j)' /\ Deletes(j)'
    BY <1>2, <1>7, <2>1 DEF JobOK, Ingests, Rebuilds, Deletes
  <2>5. Exchanged(j)' = Exchanged(j)
    BY <1>2 DEF Exchanged
  <2>6. Rechunks(j)'
    BY <1>2, <1>7, <2>1, <2>5 DEF JobOK, Rechunks
  <2>7. Stands(j)'
    BY <1>2, <2>1, CurrentStays DEF Stands, Cleared, Written
  <2> QED
    BY <2>3, <2>4, <2>6, <2>7 DEF JobOK
<1>9. Workings'
  <2>1. \A j, r \in Jobs : j # r => Apart(j, r)'
    BY <1>2, Parts DEF Apart
  <2> QED
    BY <1>2, <1>8, <2>1, Parts DEF Workings, Unloaded
<1>10. ASSUME NEW c \in Chunks
       PROVE  Refers(c)' /\ Located(c)'
  <2>1. Refers(c) /\ Located(c) /\ owner[c] \in Docs \cup {NoDoc}
    BY <1>1, Parts DEF Types
  <2> QED
    BY <1>2, <1>6, <2>1 DEF Refers, Located, Types, ChunkRow
<1>11. ASSUME NEW e \in Docs
       PROVE  DocOK(e)' /\ Sound(e)' /\ Served(e)' /\ Owned(e)'
  <2>1. DocOK(e) /\ Sound(e) /\ Served(e) /\ Owned(e)
    BY Parts DEF ProcessingIsOwned, Owned
  <2>2. Rows(e)' = Rows(e) /\ Embedded(e)' = Embedded(e)
    BY <1>2 DEF Rows, Embedded
  <2>3. \A r \in Jobs : OldOf(r, e)' = OldOf(r, e) /\ Exchanged(r)' = Exchanged(r)
    BY <1>2 DEF OldOf, Exchanged
  <2>4. \A r \in Jobs : Cleared(r, e)' <=> Cleared(r, e)
    BY <1>2 DEF Cleared
  <2>5. CASE e # d
    BY <1>2, <1>3, <1>4, <2>1, <2>2, <2>3, <2>4, <2>5, CurrentStays DEF DocOK, Sound, Served, Owned
  <2>6. CASE e = d
    BY <1>2, <1>3, <2>1, <2>2, <2>3, <2>6 DEF DocOK, Sound, Served, Owned
  <2> QED
    BY <2>5, <2>6
<1>12. ProcessingIsOwned'
  BY <1>11 DEF ProcessingIsOwned, Owned
<1> QED
  BY <1>5, <1>8, <1>9, <1>10, <1>11, <1>12 DEF IInv, Tables, Documents, Vectors

LEMMA DeployInv ==
  ASSUME IInv, NEW p \in Profiles, Deploy(p)
  PROVE  IInv'
<1>1. Types /\ NoProfile \notin Profiles
  BY Parts, IngestionAssumption
<1>2. /\ \A j \in Jobs : ~Busy(j)
      /\ p # profile /\ profile' = p /\ retired' = retired \cup {profile}
      /\ UNCHANGED <<doc, file, chunk, vectors, dim, tries, job, owner, suspect, cut>>
  BY DEF Deploy
<1>3. \A j \in Jobs : job[j] = Idle
  BY <1>2, Parts DEF JobOK, Holds
<1>4. Types'
  BY <1>1, <1>2 DEF Types
<1>5. ASSUME NEW j \in Jobs
      PROVE  JobOK(j)' /\ Stands(j)'
  <2> DEFINE i == job'[j]
  <2>1. /\ i.pc = "idle" /\ i.kind = "none" /\ i.docs = {} /\ i.todo = {} /\ i.old = {}
        /\ i.changed = {} /\ i.changedDocs = {} /\ i.fresh = {} /\ i.gone = {} /\ i = Idle
    BY <1>2, <1>3 DEF Idle
  <2>2. Holds(j)'
    BY <2>1 DEF Holds, Busy
  <2>3. JobOK(j)'
    BY <2>1, <2>2 DEF JobOK, Ingests, Rebuilds, Rechunks, Deletes
  <2> QED
    BY <2>1, <2>3 DEF Stands
<1>6. Workings'
  <2>1. \A j, r \in Jobs : j # r => Apart(j, r)'
    BY <1>2, Parts DEF Apart
  <2> QED
    BY <1>2, <1>5, <2>1, Parts DEF Workings, Unloaded
<1>7. \A c \in Chunks : Refers(c)' /\ Located(c)'
  BY <1>2, Parts DEF Refers, Located, Exists
<1>8. ASSUME NEW e \in Docs
      PROVE  DocOK(e)' /\ Sound(e)' /\ Served(e)' /\ Owned(e)'
  <2>1. DocOK(e) /\ Sound(e) /\ Served(e) /\ Owned(e)
    BY Parts DEF ProcessingIsOwned, Owned
  <2>2. Rows(e)' = Rows(e) /\ Embedded(e)' = Embedded(e)
    BY <1>2 DEF Rows, Embedded
  <2>3. \A r \in Jobs : OldOf(r, e)' = OldOf(r, e) /\ Exchanged(r)' = Exchanged(r)
    BY <1>2 DEF OldOf, Exchanged
  <2>4. DocOK(e)'
    BY <1>2, <2>1, <2>2 DEF DocOK
  <2>5. Sound(e)' /\ Owned(e)'
    BY <1>2, <2>1, <2>2, <2>3 DEF Sound, Owned
  <2>6. doc[e].profile = p => p \in retired'
    BY <1>1, <1>2, <2>1 DEF DocOK
  <2>7. Served(e)'
    BY <1>2, <2>6 DEF Served
  <2> QED
    BY <2>4, <2>5, <2>7
<1>9. ProcessingIsOwned'
  BY <1>8 DEF ProcessingIsOwned, Owned
<1> QED
  BY <1>4, <1>5, <1>6, <1>7, <1>8, <1>9 DEF IInv, Tables, Documents, Vectors

-----------------------------------------------------------------------------
(* The invariant holds *)

LEMMA InitIInv ==
  ASSUME Init
  PROVE  IInv
<1>1. NoDoc \notin Docs /\ NoProfile \notin Profiles /\ First \in Profiles /\ Attempts \in Nat
  BY IngestionAssumption
<1>2. Types
  BY <1>1, IdleState DEF Init, Types, Document, Statuses, ChunkRow, NoRow
<1>3. \A c \in Chunks : chunk[c].doc = NoDoc /\ vectors[c] = NoProfile /\ owner[c] = NoDoc
  BY DEF Init, NoRow
<1>4. \A c \in Chunks : Refers(c) /\ Located(c)
  BY <1>3 DEF Refers, Located
<1>5. ASSUME NEW j \in Jobs
      PROVE  /\ JobOK(j) /\ Stands(j)
             /\ job[j].docs = {} /\ job[j].fresh = {} /\ job[j].gone = {} /\ job[j].kind = "none"
  <2>1. job[j] = Idle
    BY DEF Init
  <2>2. Holds(j)
    BY <2>1 DEF Holds, Busy, Idle
  <2>3. JobOK(j)
    BY <2>1, <2>2 DEF JobOK, Ingests, Rebuilds, Rechunks, Deletes, Idle
  <2> QED
    BY <2>1, <2>3 DEF Stands, Idle
<1>6. Workings
  BY <1>5 DEF Workings, Apart, Unloaded
<1>7. ASSUME NEW d \in Docs
      PROVE  DocOK(d) /\ Sound(d) /\ Served(d) /\ Owned(d)
  <2>1. doc[d].status = "none" /\ doc[d].count = 0 /\ doc[d].profile = NoProfile
    BY DEF Init
  <2>2. Rows(d) = {} /\ Embedded(d) = {}
    BY <1>1, <1>3 DEF Rows, Embedded
  <2>3. \A r \in Jobs : d \notin Exchanged(r)
    BY <1>5 DEF Exchanged
  <2> QED
    BY <1>5, <2>1, <2>2, <2>3 DEF DocOK, Sound, Served, Owned
<1>8. ProcessingIsOwned
  BY <1>7 DEF ProcessingIsOwned, Owned
<1> QED
  BY <1>2, <1>4, <1>5, <1>6, <1>7, <1>8 DEF IInv, Tables, Documents, Vectors

LEMMA AdvanceInv ==
  ASSUME IInv, NEW j \in Jobs, Advance(j)
  PROVE  IInv'
<1>1. CASE \E d \in Docs, c \in Chunks : IngestFlush(j, d, c)
  BY <1>1, IngestFlushInv
<1>2. CASE \E d \in Docs : IngestFailsEarly(j, d)
  BY <1>2, IngestFailsEarlyInv
<1>3. CASE \E d \in Docs : IngestFailsLate(j, d)
  BY <1>3, IngestFailsLateInv
<1>4. CASE \E d \in Docs : IngestCommit(j, d)
  BY <1>4, IngestCommitInv
<1>5. CASE \E d \in Docs : RechunkDrop(j, d)
  BY <1>5, RechunkDropInv
<1>6. CASE \E d \in Docs : DeleteFile(j, d)
  BY <1>6, DeleteFileInv
<1>7. CASE \E d \in Docs : DeleteCommit(j, d)
  BY <1>7, DeleteCommitInv
<1>8. CASE IngestEmbed(j) \/ RebuildEmbed(j) \/ RebuildBreaks(j) \/ RebuildCommit(j)
  BY <1>8, IngestEmbedInv, RebuildEmbedInv, RebuildBreaksInv, RebuildCommitInv
<1>9. CASE \E c \in Chunks : RechunkSwap(j, c)
  BY <1>9, RechunkSwapInv
<1>10. CASE RechunkEmbed(j) \/ RechunkCommit(j) \/ RechunkBreaks(j)
  BY <1>10, RechunkEmbedInv, RechunkCommitInv, RechunkBreaksInv
<1>11. CASE DeleteVectors(j) \/ DeleteBreaks(j)
  BY <1>11, DeleteVectorsInv, DeleteBreaksInv
<1>12. CASE \E d \in Docs : IngestRefused(j, d)
  BY <1>12, IngestRefusedInv
<1> QED
  BY <1>1, <1>2, <1>3, <1>4, <1>5, <1>6, <1>7, <1>8, <1>9, <1>10, <1>11, <1>12 DEF Advance

LEMMA UnchangedIInv ==
  ASSUME IInv, UNCHANGED vars
  PROVE  IInv'
<1>1. /\ doc' = doc /\ file' = file /\ chunk' = chunk /\ vectors' = vectors /\ dim' = dim
      /\ profile' = profile /\ tries' = tries /\ job' = job /\ owner' = owner
      /\ retired' = retired /\ suspect' = suspect /\ cut' = cut /\ Current' = Current
  BY CurrentStays DEF vars
<1>2. Tables' /\ ProcessingIsOwned'
  BY <1>1 DEF IInv, Tables, Types, Refers, Exists, ProcessingIsOwned
<1>3. Workings'
  BY <1>1 DEF IInv, Workings, JobOK, Holds, Busy, Ingests, Rebuilds, Rechunks, Exchanged,
              Deletes, Apart, Unloaded, Exists
<1>4. Documents'
  BY <1>1 DEF IInv, Documents, DocOK, Sound, Served, Rows, Embedded, OldOf, Exchanged, Cleared
<1>5. Vectors'
  BY <1>1 DEF IInv, Vectors, Located, Stands, Cleared, Written
<1> QED
  BY <1>2, <1>3, <1>4, <1>5 DEF IInv

LEMMA StepIInv ==
  ASSUME IInv, [Next]_vars
  PROVE  IInv'
<1>1. CASE \E d \in Docs : Upload(d)
  BY <1>1, UploadInv
<1>2. CASE \E j \in Jobs, d \in Docs : IngestBegin(j, d)
  BY <1>2, IngestBeginInv
<1>3. CASE \E j \in Jobs, d \in Docs : DeleteBegin(j, d)
  BY <1>3, DeleteBeginInv
<1>4. CASE \E j \in Jobs, S \in SUBSET Docs : RebuildBegin(j, S)
  BY <1>4, RebuildBeginInv
<1>5. CASE \E j \in Jobs, S \in SUBSET Docs : RechunkBegin(j, S)
  BY <1>5, RechunkBeginInv
<1>6. CASE \E j \in Jobs : Advance(j)
  BY <1>6, AdvanceInv
<1>7. CASE \E j \in Jobs : Die(j)
  BY <1>7, DieInv
<1>8. CASE \E p \in Profiles : Deploy(p)
  BY <1>8, DeployInv
<1>9. CASE UNCHANGED vars
  BY <1>9, UnchangedIInv
<1> QED
  BY <1>1, <1>2, <1>3, <1>4, <1>5, <1>6, <1>7, <1>8, <1>9 DEF Next

LEMMA IngestionInv == Spec => []IInv
BY InitIInv, StepIInv, PTL DEF Spec

\* Every variable keeps its type, and no two jobs ever insert or delete the same
\* chunk row.
THEOREM IngestionTypes == Spec => []TypeOK
<1>1. IInv => TypeOK
  BY Parts DEF Types, TypeOK, Apart
<1> QED
  BY <1>1, IngestionInv, PTL

\* Rows and vectors: a completed document keeps the rows chunk_count counts, other
\* documents have rows without vectors only, and a vector that has no row is a
\* document's whose jobs overlapped, broke off or are under way.
THEOREM RowsSurviveJobs == Spec => []StoreMatchesRows
<1>1. ASSUME IInv
      PROVE  StoreMatchesRows
  <2>1. Types /\ IsFiniteSet(Chunks)
    BY <1>1, Parts, IngestionAssumption
  <2>2. ASSUME NEW d \in Docs
        PROVE  IF doc[d].status = "completed"
               THEN Cardinality({c \in Rows(d) : chunk[c].profile # NoProfile}) >= doc[d].count
               ELSE \A c \in Rows(d) : chunk[c].profile = NoProfile
    <3>1. DocOK(d)
      BY <1>1, Parts
    <3>2. CASE doc[d].status = "completed"
      <4>1. PICK k : k \in Embedded(d)
        BY <3>1, <3>2 DEF DocOK
      <4>2. Embedded(d) \subseteq Chunks
        BY DEF Embedded, Rows
      <4>3. IsFiniteSet(Embedded(d))
        BY <2>1, <4>2, FS_Subset
      <4>4. Cardinality(Embedded(d)) \in Nat /\ Cardinality(Embedded(d)) # 0
        BY <4>1, <4>3, FS_CardinalityType, FS_EmptySet
      <4> QED
        BY <3>1, <3>2, <4>4 DEF DocOK, Embedded
    <3>3. CASE doc[d].status # "completed"
      BY <3>1, <3>3 DEF DocOK, Embedded
    <3> QED
      BY <3>2, <3>3
  <2>3. NothingLost
    BY <2>2 DEF NothingLost
  <2>4. ASSUME NEW c \in Chunks, vectors[c] # NoProfile, chunk[c].doc = NoDoc
        PROVE  owner[c] \in suspect \/ InProgress(owner[c])
    <3>1. Located(c)
      BY <1>1, Parts
    <3>2. \A j \in Jobs : c \in job[j].fresh => owner[c] \in job[j].docs
      BY <1>1, Parts DEF JobOK, Holds
    <3> QED
      BY <2>4, <3>1, <3>2 DEF Located, InProgress
  <2> QED
    BY <2>3, <2>4 DEF StoreMatchesRows, NoStrayVectors
<1> QED
  BY <1>1, IngestionInv, PTL

\* Retrieval of a document at rest: exactly the counted rows, and for each a vector of
\* the deployed model name and length unless a reindex is asked for.
THEOREM RestingDocumentsAreServed == Spec => []ServedWhole
<1>1. ASSUME IInv
      PROVE  ServedWhole
  <2>1. ASSUME NEW d \in Docs, doc[d].status = "completed", ~InProgress(d), d \notin suspect
        PROVE  /\ Cardinality(Rows(d)) = doc[d].count
               /\ \/ RequiresReindex(d, profile)
                  \/ profile \in retired
                  \/ \A c \in Rows(d) : vectors[c] \in Current
    <3>1. DocOK(d) /\ Sound(d) /\ Served(d)
      BY <1>1, Parts
    <3>2. doc[d].count = 1
      BY <2>1, <3>1 DEF DocOK
    <3>3. PICK c \in Chunks : Rows(d) = {c}
      BY <2>1, <3>1 DEF Sound
    <3>4. Cardinality(Rows(d)) = 1
      BY <3>3, FS_Singleton
    <3>5. \A j \in Jobs : ~Cleared(j, d)
      BY <2>1 DEF InProgress, Cleared
    <3> QED
      BY <2>1, <3>1, <3>2, <3>4, <3>5 DEF Served, RequiresReindex
  <2> QED
    BY <2>1 DEF ServedWhole, Current, Origins
<1> QED
  BY <1>1, IngestionInv, PTL

\* A document left in "processing" is being ingested, or its last execution ended
\* without writing a status: its process died, or the database refused the write.
THEOREM ProcessingHasOwner == Spec => []ProcessingIsOwned
<1>1. IInv => ProcessingIsOwned
  BY DEF IInv
<1> QED
  BY <1>1, IngestionInv, PTL

=============================================================================
