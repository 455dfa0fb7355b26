----------------------------- MODULE Ingestion -----------------------------
(***************************************************************************)
(* services/ingestion/pipeline.py: the jobs that keep a document's chunk   *)
(* rows (PostgreSQL), its file (object storage) and its vectors (Milvus)   *)
(* together.  The database is transactional; the two stores are not, and   *)
(* each job writes to them in the middle of its transaction.               *)
(*                                                                         *)
(* A chunk stands for all chunks one run of the chunker makes of a file:   *)
(* they are inserted in one flush, embedded in one call and deleted in     *)
(* one call.                                                               *)
(***************************************************************************)
EXTENDS Naturals, FiniteSets

CONSTANTS
  Docs,       \* documents
  Chunks,     \* chunk ids (uuid4: never used twice); bounds the chunker's runs
  Jobs,       \* jobs in progress at the same time
  Profiles,   \* embedding profiles (model, dimension, gateway, encoding)
  Dimension,  \* profile -> dimension of its vectors
  Model,      \* profile -> model name; other profiles may have it too
  First,      \* the profile deployed first
  Attempts,   \* executions of the ingestion task of one document
  Kinds,      \* the operations in use
  NoDoc, NoProfile, NoDim

ASSUME IngestionAssumption ==
  /\ IsFiniteSet(Chunks)
  /\ Dimension \in [Profiles -> Nat]
  /\ First \in Profiles
  /\ Attempts \in Nat
  /\ Kinds \subseteq {"ingest", "rebuild", "rechunk", "delete"}
  /\ NoDoc \notin Docs /\ NoProfile \notin Profiles /\ NoDim \notin Nat

VARIABLES
  doc,      \* knowledge_document: document -> row
  file,     \* object storage: document -> is its file there
  chunk,    \* knowledge_chunk, committed: id -> row
  vectors,  \* the collection: chunk id -> the profile it was embedded with
  dim,      \* the collection's dimension
  profile,  \* the deployed embedding profile
  tries,    \* executions of the ingestion task still to come
  job,      \* the jobs in progress
  owner,    \* history: chunk id -> the document it was made for
  retired,  \* profiles that were replaced
  suspect,  \* history: documents with jobs that overlapped or broke off
  cut       \* history: documents whose ingestion ended without writing a status

vars == <<doc, file, chunk, vectors, dim, profile, tries, job, owner, retired, suspect,
          cut>>

-----------------------------------------------------------------------------

Statuses == {"none", "uploaded", "processing", "completed", "failed", "deleted"}

\* profile: attributes_json["embedding_profile"]
Document == [status : Statuses, count : {0, 1}, profile : Profiles \cup {NoProfile}]

\* profile: the same of the chunk; vector_id is set with it.
ChunkRow == [doc : Docs \cup {NoDoc}, profile : Profiles \cup {NoProfile}]

NoRow == [doc |-> NoDoc, profile |-> NoProfile]

Exists(d) == doc[d].status \notin {"none", "deleted"}
Rows(d)   == {c \in Chunks : chunk[c].doc = d}

\* Mutant: models with vectors of one length are taken for the same.
ComparesDimension(d, current) ==
  /\ doc[d].status = "completed" /\ doc[d].count > 0
  /\ doc[d].profile = NoProfile \/ Dimension[doc[d].profile] # Dimension[current]

RequiresReindex(d, current) ==
  doc[d].status = "completed" /\ doc[d].count > 0 /\ doc[d].profile # current

\* A job works on docs with the profile of its process; todo and at are the
\* documents a rechunk has ahead and the one it is at; old are the chunks it
\* loaded, changed and changedDocs the loaded rows its UPDATE will touch; fresh
\* and gone are the rows it inserted and deleted and has not committed.
Idle == [pc |-> "idle", kind |-> "none", docs |-> {}, todo |-> {}, at |-> NoDoc,
         profile |-> NoProfile, old |-> {}, changed |-> {}, changedDocs |-> {},
         fresh |-> {}, gone |-> {}]

Busy(j) == job[j].pc # "idle"

\* An uncommitted INSERT of a chunk keeps the row of its document in place.
Pinned(j, d) == \E r \in Jobs \ {j} : \E c \in job[r].fresh : owner[c] = d

\* A row deleted in an uncommitted transaction.
DeletedByOther(j, c) == \E r \in Jobs \ {j} : c \in job[r].gone

Init ==
  /\ doc = [d \in Docs |-> [status |-> "none", count |-> 0, profile |-> NoProfile]]
  /\ file = [d \in Docs |-> FALSE]
  /\ chunk = [c \in Chunks |-> NoRow]
  /\ vectors = [c \in Chunks |-> NoProfile]
  /\ dim = NoDim
  /\ profile = First
  /\ tries = [d \in Docs |-> 0]
  /\ job = [j \in Jobs |-> Idle]
  /\ owner = [c \in Chunks |-> NoDoc]
  /\ retired = {}
  /\ suspect = {}
  /\ cut = {}

-----------------------------------------------------------------------------
(* The vector store *)

\* _ensure_collection drops a collection of another dimension.
Mismatched(p) == dim # NoDim /\ dim # Dimension[p]

\* The vectors of other chunks that a call under profile p leaves.
Kept(p) == [c \in Chunks |-> IF Mismatched(p) THEN NoProfile ELSE vectors[c]]

\* Mutant: the key is the text alone.
OriginsByText(p) == {p} \cup {q \in retired : Dimension[q] = Dimension[p]}

\* texts_to_embeddings takes a vector from the cache when model name, text and length
\* agree.  A profile deployed before may have left it: the gateway is no part of the
\* key, and any text can have been embedded then, in a document or as a question.
Origins(p) ==
  {p} \cup {q \in retired : Model[q] = Model[p] /\ Dimension[q] = Dimension[p]}

\* Where the vectors of a run come from several profiles, one of them stands for all.
Upsert(C, p) ==
  /\ \E from \in [C -> Origins(p)] :
       vectors' = [c \in Chunks |-> IF c \in C THEN from[c] ELSE Kept(p)[c]]
  /\ dim' = Dimension[p]

\* upsert deletes, inserts and flushes: it may break off after each of them.  (A delete
\* whose flush raises has been done: DeleteVectors and RechunkDrop, then a break.)
UpsertHalf(C, p) ==
  /\ vectors' = [c \in Chunks |-> IF c \in C THEN NoProfile ELSE Kept(p)[c]]
  /\ dim' = Dimension[p]

UpsertBreaks(C, p) == UpsertHalf(C, p) \/ Upsert(C, p) \/ UNCHANGED <<vectors, dim>>

Remove(C) ==
  /\ vectors' = [c \in Chunks |-> IF c \in C THEN NoProfile ELSE vectors[c]]
  /\ UNCHANGED dim

-----------------------------------------------------------------------------
(* Jobs begin and end *)

Begin(j, kind, S, start) ==
  /\ ~Busy(j)
  /\ kind \in Kinds
  /\ job' = [job EXCEPT ![j] =
       [pc |-> start, kind |-> kind, docs |-> S, todo |-> S, at |-> NoDoc,
        profile |-> profile,
        old |-> UNION {Rows(d) : d \in S},
        changed |-> {c \in UNION {Rows(d) : d \in S} : chunk[c].profile # profile},
        changedDocs |-> {d \in S : doc[d].profile # profile},
        fresh |-> {}, gone |-> {}]]
  /\ suspect' = suspect \cup UNION {S \cap job[r].docs : r \in Jobs}

Step(j, new) == job' = [job EXCEPT ![j] = new]

\* The job is over; ok: everything it began was completed.
End(j, ok) ==
  /\ job' = [job EXCEPT ![j] = Idle]
  /\ suspect' = IF ok THEN suspect ELSE suspect \cup job[j].docs

NewChunk(c, d) ==
  /\ owner[c] = NoDoc
  /\ owner' = [owner EXCEPT ![c] = d]

\* The scope of a reindex or rechunk: one completed document, or all of them.
Scope(S) ==
  LET completed == {d \in Docs : doc[d].status = "completed"}
  IN  S # {} /\ (S = completed \/ \E d \in completed : S = {d})

-----------------------------------------------------------------------------
(* create_ingestion_job, run_ingestion_job *)

Upload(d) ==
  /\ doc[d].status = "none"
  /\ file' = [file EXCEPT ![d] = TRUE]
  /\ doc' = [doc EXCEPT ![d] = [status |-> "uploaded", count |-> 0, profile |-> NoProfile]]
  /\ tries' = [tries EXCEPT ![d] = Attempts]
  /\ UNCHANGED <<chunk, vectors, dim, profile, job, owner, retired, suspect, cut>>

SetStatus(d, status) ==
  doc' = [doc EXCEPT ![d] = [status |-> status, count |-> doc[d].count,
                             profile |-> doc[d].profile]]

\* Executions of one task follow each other (TaskRuns!SingleExecution).  One that
\* finds no document ends at once.
IngestBegin(j, d) ==
  /\ tries[d] > 0
  /\ Exists(d)
  /\ \A r \in Jobs : job[r].kind = "ingest" => d \notin job[r].docs
  /\ Begin(j, "ingest", {d}, "parse")
  /\ SetStatus(d, "processing")
  /\ tries' = [tries EXCEPT ![d] = tries[d] - 1]
  /\ UNCHANGED <<file, chunk, vectors, dim, profile, owner, retired, cut>>

\* The file is read, parsed and chunked, and the chunk rows are flushed.
IngestFlush(j, d, c) ==
  /\ job[j].pc = "parse" /\ job[j].docs = {d}
  /\ Exists(d) /\ file[d]
  /\ NewChunk(c, d)
  /\ Step(j, [job[j] EXCEPT !.pc = "embed", !.fresh = {c}])
  /\ UNCHANGED <<doc, file, chunk, vectors, dim, profile, tries, retired, suspect, cut>>

\* Mutant: the failure is not recorded.
FailsSilently(j, d) ==
  /\ job[j].pc = "parse" /\ job[j].docs = {d}
  /\ Exists(d)
  /\ UNCHANGED doc
  /\ End(j, TRUE)
  /\ UNCHANGED <<file, chunk, vectors, dim, profile, tries, owner, retired, cut>>

\* Reading or parsing raises, and the document is marked.
IngestFailsEarly(j, d) ==
  /\ job[j].pc = "parse" /\ job[j].docs = {d}
  /\ Exists(d)
  /\ SetStatus(d, "failed")
  /\ End(j, TRUE)
  /\ UNCHANGED <<file, chunk, vectors, dim, profile, tries, owner, retired, cut>>

\* The database refuses a write: the flush of the chunk rows (a title longer than its
\* column, a document deleted meanwhile), the final UPDATE, or the except clause's own.
\* The session then wants a rollback, which nobody does: the except clause's commit
\* raises, nothing is written, and autoretry_for does not name that exception.
IngestRefused(j, d) ==
  /\ job[j].kind = "ingest" /\ job[j].docs = {d}
  /\ IF job[j].pc = "embed" THEN UpsertBreaks(job[j].fresh, job[j].profile)
     ELSE UNCHANGED <<vectors, dim>>
  /\ tries' = [tries EXCEPT ![d] = 0]
  /\ cut' = cut \cup {d}
  /\ End(j, FALSE)
  /\ UNCHANGED <<doc, file, chunk, profile, owner, retired>>

IngestEmbed(j) ==
  /\ job[j].kind = "ingest" /\ job[j].pc = "embed"
  /\ Upsert(job[j].fresh, job[j].profile)
  /\ Step(j, [job[j] EXCEPT !.pc = "commit"])
  /\ UNCHANGED <<doc, file, chunk, profile, tries, owner, retired, suspect, cut>>

\* The except clause commits the session as it is, flushed chunk rows included.
IngestFailsLate(j, d) ==
  /\ job[j].kind = "ingest" /\ job[j].pc = "embed" /\ job[j].docs = {d}
  /\ UpsertBreaks(job[j].fresh, job[j].profile)
  /\ chunk' = [c \in Chunks |->
       IF c \in job[j].fresh THEN [doc |-> d, profile |-> NoProfile] ELSE chunk[c]]
  /\ SetStatus(d, "failed")
  /\ End(j, FALSE)
  /\ UNCHANGED <<file, profile, tries, owner, retired, cut>>

Completed(p) == [status |-> "completed", count |-> 1, profile |-> p]

IngestCommit(j, d) ==
  /\ job[j].kind = "ingest" /\ job[j].pc = "commit" /\ job[j].docs = {d}
  /\ chunk' = [c \in Chunks |->
       IF c \in job[j].fresh THEN [doc |-> d, profile |-> job[j].profile] ELSE chunk[c]]
  /\ doc' = [doc EXCEPT ![d] = Completed(job[j].profile)]
  /\ tries' = [tries EXCEPT ![d] = 0]
  /\ End(j, TRUE)
  /\ UNCHANGED <<file, vectors, dim, profile, owner, retired, cut>>

-----------------------------------------------------------------------------
(* rebuild_knowledge_index *)

RebuildBegin(j, S) ==
  /\ Scope(S) \/ (S # {} /\ S = {d \in Docs : RequiresReindex(d, profile)})
  /\ \E d \in S : Rows(d) # {}
  /\ Begin(j, "rebuild", S, "embed")
  /\ UNCHANGED <<doc, file, chunk, vectors, dim, profile, tries, owner, retired, cut>>

RebuildEmbed(j) ==
  /\ job[j].kind = "rebuild" /\ job[j].pc = "embed"
  /\ Upsert(job[j].old, job[j].profile)
  /\ Step(j, [job[j] EXCEPT !.pc = "commit"])
  /\ UNCHANGED <<doc, file, chunk, profile, tries, owner, retired, suspect, cut>>

RebuildBreaks(j) ==
  /\ job[j].kind = "rebuild" /\ job[j].pc = "embed"
  /\ UpsertBreaks(job[j].old, job[j].profile)
  /\ End(j, FALSE)
  /\ UNCHANGED <<doc, file, chunk, profile, tries, owner, retired, cut>>

\* An UPDATE of a row another transaction is deleting waits; one that finds its row
\* deleted is a StaleDataError and rolls everything back.
RebuildCommit(j) ==
  /\ job[j].kind = "rebuild" /\ job[j].pc = "commit"
  /\ \A c \in job[j].changed : ~DeletedByOther(j, c)
  /\ IF /\ \A c \in job[j].changed : chunk[c].doc # NoDoc
        /\ \A d \in job[j].changedDocs : Exists(d)
     THEN /\ chunk' = [c \in Chunks |->
               IF c \in job[j].changed
               THEN [doc |-> chunk[c].doc, profile |-> job[j].profile] ELSE chunk[c]]
          /\ doc' = [d \in Docs |->
               IF d \in job[j].changedDocs
               THEN [status |-> doc[d].status, count |-> doc[d].count,
                     profile |-> job[j].profile]
               ELSE doc[d]]
          /\ End(j, TRUE)
     ELSE UNCHANGED <<chunk, doc>> /\ End(j, FALSE)
  /\ UNCHANGED <<file, vectors, dim, profile, tries, owner, retired, cut>>

-----------------------------------------------------------------------------
(* rechunk_knowledge_document: one transaction over all documents in scope *)

RechunkBegin(j, S) ==
  /\ Scope(S)
  /\ Begin(j, "rechunk", S, "drop")
  /\ UNCHANGED <<doc, file, chunk, vectors, dim, profile, tries, owner, retired, cut>>

\* The chunks of a document, as loaded when the job began.
OldOf(j, d) == {c \in job[j].old : owner[c] = d}

\* Mutant: the vectors stay.
DropKeepsVectors(j, d) ==
  /\ job[j].kind = "rechunk" /\ job[j].pc = "drop" /\ d \in job[j].todo
  /\ file[d]
  /\ Step(j, [job[j] EXCEPT !.pc = "swap", !.at = d, !.todo = job[j].todo \ {d}])
  /\ UNCHANGED <<doc, file, chunk, vectors, dim, profile, tries, owner, retired, suspect, cut>>

\* The file is read and the vectors of the loaded chunks are deleted.
RechunkDrop(j, d) ==
  /\ job[j].kind = "rechunk" /\ job[j].pc = "drop" /\ d \in job[j].todo
  /\ file[d]
  /\ Remove(OldOf(j, d))
  /\ Step(j, [job[j] EXCEPT !.pc = "swap", !.at = d, !.todo = job[j].todo \ {d}])
  /\ UNCHANGED <<doc, file, chunk, profile, tries, owner, retired, suspect, cut>>

\* The loaded rows are deleted: those that are still there.
Swapped(j) == {c \in OldOf(j, job[j].at) : chunk[c].doc # NoDoc}

RechunkSwap(j, c) ==
  /\ job[j].pc = "swap"
  /\ Exists(job[j].at)
  /\ \A o \in OldOf(j, job[j].at) : ~DeletedByOther(j, o)
  /\ NewChunk(c, job[j].at)
  /\ Step(j, [job[j] EXCEPT !.pc = "embed", !.fresh = job[j].fresh \cup {c},
                            !.gone = job[j].gone \cup Swapped(j)])
  /\ UNCHANGED <<doc, file, chunk, vectors, dim, profile, tries, retired, suspect, cut>>

\* The chunk that was just inserted.
NewOf(j) == {c \in job[j].fresh : owner[c] = job[j].at}

RechunkEmbed(j) ==
  /\ job[j].kind = "rechunk" /\ job[j].pc = "embed"
  /\ Upsert(NewOf(j), job[j].profile)
  /\ Step(j, [job[j] EXCEPT !.pc = IF job[j].todo = {} THEN "commit" ELSE "drop"])
  /\ UNCHANGED <<doc, file, chunk, profile, tries, owner, retired, suspect, cut>>

RechunkCommit(j) ==
  /\ job[j].kind = "rechunk" /\ job[j].pc = "commit"
  /\ chunk' = [c \in Chunks |->
       IF c \in job[j].fresh THEN [doc |-> owner[c], profile |-> job[j].profile]
       ELSE IF c \in job[j].gone THEN NoRow ELSE chunk[c]]
  /\ doc' = [d \in Docs |->
       IF d \in job[j].docs THEN [status |-> doc[d].status, count |-> 1,
                                  profile |-> job[j].profile]
       ELSE doc[d]]
  /\ End(j, TRUE)
  /\ UNCHANGED <<file, vectors, dim, profile, tries, owner, retired, cut>>

\* A missing file, a failing store, a document deleted meanwhile: the session is
\* closed and the database rolled back, the store is not.
RechunkBreaks(j) ==
  /\ job[j].kind = "rechunk" /\ job[j].pc \in {"drop", "swap", "embed"}
  /\ IF job[j].pc = "embed" THEN UpsertBreaks(NewOf(j), job[j].profile)
     ELSE UNCHANGED <<vectors, dim>>
  /\ End(j, FALSE)
  /\ UNCHANGED <<doc, file, chunk, profile, tries, owner, retired, cut>>

-----------------------------------------------------------------------------
(* delete_knowledge_document *)

DeleteBegin(j, d) ==
  /\ Exists(d)
  /\ Begin(j, "delete", {d}, "vectors")
  /\ UNCHANGED <<doc, file, chunk, vectors, dim, profile, tries, owner, retired, cut>>

DeleteVectors(j) ==
  /\ job[j].kind = "delete" /\ job[j].pc = "vectors"
  /\ Remove(job[j].old)
  /\ Step(j, [job[j] EXCEPT !.pc = "file"])
  /\ UNCHANGED <<doc, file, chunk, profile, tries, owner, retired, suspect, cut>>

DeleteFile(j, d) ==
  /\ job[j].kind = "delete" /\ job[j].pc = "file" /\ job[j].docs = {d}
  /\ file' = [file EXCEPT ![d] = FALSE]
  /\ Step(j, [job[j] EXCEPT !.pc = "commit"])
  /\ UNCHANGED <<doc, chunk, vectors, dim, profile, tries, owner, retired, suspect, cut>>

\* Mutant: without the foreign key only the loaded rows go.
LoadedOnly(j, d) == job[j].old

\* ON DELETE CASCADE takes chunk rows the job has not loaded.
Cascaded(j, d) == Rows(d)

DeleteCommit(j, d) ==
  /\ job[j].kind = "delete" /\ job[j].pc = "commit" /\ job[j].docs = {d}
  /\ ~Pinned(j, d)
  /\ doc' = [doc EXCEPT ![d] = [status |-> "deleted", count |-> 0, profile |-> NoProfile]]
  /\ chunk' = [c \in Chunks |-> IF c \in Cascaded(j, d) THEN NoRow ELSE chunk[c]]
  /\ End(j, TRUE)
  /\ UNCHANGED <<file, vectors, dim, profile, tries, owner, retired, cut>>

DeleteBreaks(j) ==
  /\ job[j].kind = "delete" /\ job[j].pc \in {"vectors", "file"}
  /\ End(j, FALSE)
  /\ UNCHANGED <<doc, file, chunk, vectors, dim, profile, tries, owner, retired, cut>>

-----------------------------------------------------------------------------
(* The environment *)

\* The process dies: its transaction is rolled back and a task execution is lost.  For
\* a job that is no ingestion, a commit the database refuses is the same step.
Die(j) ==
  /\ Busy(j)
  /\ tries' = [d \in Docs |->
       IF job[j].kind = "ingest" /\ d \in job[j].docs THEN 0 ELSE tries[d]]
  /\ cut' = IF job[j].kind = "ingest" THEN cut \cup job[j].docs ELSE cut
  /\ End(j, FALSE)
  /\ UNCHANGED <<doc, file, chunk, vectors, dim, profile, owner, retired>>

\* The backend and its workers are restarted with other embedding settings.
Deploy(p) ==
  /\ \A j \in Jobs : ~Busy(j)
  /\ p # profile
  /\ profile' = p
  /\ retired' = retired \cup {profile}
  /\ UNCHANGED <<doc, file, chunk, vectors, dim, tries, job, owner, suspect, cut>>

-----------------------------------------------------------------------------

Advance(j) ==
  \/ \E d \in Docs, c \in Chunks : IngestFlush(j, d, c)
  \/ \E d \in Docs :
       \/ IngestFailsEarly(j, d) \/ IngestFailsLate(j, d) \/ IngestRefused(j, d)
       \/ IngestCommit(j, d)
       \/ RechunkDrop(j, d)
       \/ DeleteFile(j, d) \/ DeleteCommit(j, d)
  \/ IngestEmbed(j)
  \/ RebuildEmbed(j) \/ RebuildBreaks(j) \/ RebuildCommit(j)
  \/ \E c \in Chunks : RechunkSwap(j, c)
  \/ RechunkEmbed(j) \/ RechunkCommit(j) \/ RechunkBreaks(j)
  \/ DeleteVectors(j) \/ DeleteBreaks(j)

Next ==
  \/ \E d \in Docs : Upload(d)
  \/ \E j \in Jobs, d \in Docs : IngestBegin(j, d) \/ DeleteBegin(j, d)
  \/ \E j \in Jobs, S \in SUBSET Docs : RebuildBegin(j, S) \/ RechunkBegin(j, S)
  \/ \E j \in Jobs : Advance(j) \/ Die(j)
  \/ \E p \in Profiles : Deploy(p)

Spec == Init /\ [][Next]_vars

-----------------------------------------------------------------------------
(* Properties *)

JobState ==
  [pc : {"idle", "parse", "drop", "swap", "embed", "vectors", "file", "commit"},
   kind : {"none", "ingest", "rebuild", "rechunk", "delete"},
   docs : SUBSET Docs, todo : SUBSET Docs, at : Docs \cup {NoDoc},
   profile : Profiles \cup {NoProfile}, old : SUBSET Chunks, changed : SUBSET Chunks,
   changedDocs : SUBSET Docs, fresh : SUBSET Chunks, gone : SUBSET Chunks]

\* Every variable has its type, and no two jobs insert or delete the same row.
TypeOK ==
  /\ doc \in [Docs -> Document]
  /\ file \in [Docs -> BOOLEAN]
  /\ chunk \in [Chunks -> ChunkRow]
  /\ vectors \in [Chunks -> Profiles \cup {NoProfile}]
  /\ dim \in Nat \cup {NoDim}
  /\ profile \in Profiles
  /\ tries \in [Docs -> 0 .. Attempts]
  /\ job \in [Jobs -> JobState]
  /\ owner \in [Chunks -> Docs \cup {NoDoc}]
  /\ retired \subseteq Profiles
  /\ suspect \subseteq Docs
  /\ cut \subseteq Docs
  /\ \A j, r \in Jobs : j # r =>
       job[j].fresh \cap job[r].fresh = {} /\ job[j].gone \cap job[r].gone = {}

InProgress(d) == \E j \in Jobs : d \in job[j].docs

\* A completed document never has fewer chunk rows than its chunk_count says,
\* whatever jobs overlapped, failed or died; the rows of a document that is not
\* completed are leftovers of failed attempts, without vectors of their own.
NothingLost ==
  \A d \in Docs :
    IF doc[d].status = "completed"
    THEN Cardinality({c \in Rows(d) : chunk[c].profile # NoProfile}) >= doc[d].count
    ELSE \A c \in Rows(d) : chunk[c].profile = NoProfile

\* A completed document at rest, all of whose jobs ran alone and to their end, has
\* exactly the rows chunk_count counts, and either is marked for a reindex or has for
\* each a vector of the model name and length that are deployed.  The vector is the
\* deployed profile's own unless a profile replaced earlier had that name and length
\* (another gateway, say): then the cache may have given the earlier one's, and the mark
\* does not tell.  A profile deployed a second time is the exception: a document that
\* kept its mark may have lost its vectors in between.
ServedWhole ==
  \A d \in Docs :
    doc[d].status = "completed" /\ ~InProgress(d) /\ d \notin suspect =>
      /\ Cardinality(Rows(d)) = doc[d].count
      /\ \/ RequiresReindex(d, profile)
         \/ profile \in retired
         \/ \A c \in Rows(d) :
              \/ vectors[c] = profile
              \/ /\ vectors[c] \in retired
                 /\ Model[vectors[c]] = Model[profile]
                 /\ Dimension[vectors[c]] = Dimension[profile]

\* A vector without a chunk row is left only by jobs that overlapped or broke off.
NoStrayVectors ==
  \A c \in Chunks :
    vectors[c] # NoProfile /\ chunk[c].doc = NoDoc =>
      owner[c] \in suspect \/ InProgress(owner[c])

\* Rows and vectors are two stores with one content, but for what broke off.
StoreMatchesRows == NothingLost /\ NoStrayVectors

\* "processing" is committed before the work.  A document that reads so is being
\* ingested, or no execution will come any more and the last one ended without a word:
\* its process died, or the database refused a write and with it the except clause's.
\* No failing file, parser, gateway or store, no retry, overlap or delete leaves it so.
ProcessingIsOwned ==
  \A d \in Docs : doc[d].status = "processing" =>
    \/ \E j \in Jobs : job[j].kind = "ingest" /\ d \in job[j].docs
    \/ tries[d] = 0 /\ d \in cut

=============================================================================
