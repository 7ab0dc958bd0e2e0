----------------------------- MODULE SourceDocs -----------------------------
(***************************************************************************)
(* The index of a project's documents (src/services/knowledge.ts): the     *)
(* index-repo job of src/services/jobs.ts, the same run started by forge   *)
(* outside the job, the clear-knowledge job, and the embedder that falls   *)
(* back to a local model (src/knowledge/embedder.ts).                      *)
(*                                                                         *)
(* A document is cut into chunks.  A run compares them with the rows it    *)
(* reads (prepare), embeds what is new in batches over several documents,  *)
(* and writes each document in a transaction of its own that deletes, and  *)
(* touches, rows by the ids it has read.  Nothing keeps two runs apart.    *)
(*                                                                         *)
(* Abstracted: a text is the sequence of its chunks and its own hash; a    *)
(* vector is the chunk it was made of and the model it was made by; the    *)
(* notes of the index are in Notes, its other sources in VaultWatch, Chat. *)
(***************************************************************************)
EXTENDS Naturals, FiniteSets, Sequences, Functions

CONSTANTS
  DocRefs,      \* the documents, in the order of the walk
  DocTexts,     \* texts: sequences of chunks
  DocsAtFirst,  \* the files when the model starts, by document
  DocRuns,      \* runs of indexRepoDocs
  DocJobs,      \* those started as a job, which can be cancelled
  EmbedBatch,   \* EMBED_BATCH
  DocEdits,     \* bound: changes of the files
  DocRowIds     \* bound: rows at a time

NoDoc == <<>>
DocSet == {DocRefs[i] : i \in DOMAIN DocRefs}
Chunks == UNION {{t[i] : i \in DOMAIN t} : t \in DocTexts}

ASSUME SourceDocsAssumption ==
  /\ EmbedBatch \in Nat \ {0} /\ DocEdits \in Nat /\ DocJobs \subseteq DocRuns /\ "nobody" \notin DocRuns
  /\ DocRefs \in Seq(DocSet) /\ IsInjective(DocRefs)
  /\ DocTexts \subseteq Seq(Chunks) \ {NoDoc} /\ DocsAtFirst \in [DocSet -> DocTexts \cup {NoDoc}]
  /\ DocRowIds \subseteq Nat /\ IsFiniteSet(DocRowIds)

VARIABLES
  files,       \* the text of each document on disk, or NoDoc
  rows,        \* the embeddings table
  docRun,      \* each run: where it is, what it has to do, what it has prepared
  cancelled,   \* jobs with cancelRequested
  cooldown,    \* voyageInFallback
  mixed,       \* history: documents a second writer touched between a prepare and its write
  docEdits

docVars == <<files, rows, docRun, cancelled, cooldown, mixed, docEdits>>

Providers == {"voyage", "local"}
Vectors == [of : Chunks, by : Providers]
DocRows == [id : DocRowIds, ref : DocSet, index : Nat \ {0}, content : Chunks, hash : DocTexts,
            vector : Vectors, tag : Providers]
Stages == {"idle", "docs", "touch", "embed", "write", "single", "singleWrite", "stale", "done"}
IdleRun == [pc |-> "idle", todo |-> <<>>, pending |-> <<>>, chunks |-> <<>>, vectors |-> <<>>, tag |-> "voyage", ok |-> {}]

DocsTypeOK ==
  /\ files \in [DocSet -> DocTexts \cup {NoDoc}]
  /\ rows \subseteq DocRows
  /\ \A r, s \in rows : r.id = s.id => r = s
  /\ \A w \in DocRuns :
       /\ docRun[w].pc \in Stages /\ docRun[w].tag \in Providers /\ docRun[w].ok \subseteq DocSet
  /\ cancelled \subseteq DocJobs /\ cooldown \in BOOLEAN /\ mixed \subseteq DocSet

DocsInit ==
  /\ files = DocsAtFirst /\ rows = {} /\ docRun = [w \in DocRuns |-> IdleRun]
  /\ cancelled = {} /\ cooldown = FALSE /\ mixed = {} /\ docEdits = 0

-----------------------------------------------------------------------------
run(w) == docRun[w]
step(w, change) == docRun' = [docRun EXCEPT ![w] = change]
theWorld == <<files, docEdits>>

EditDoc ==
  /\ docEdits < DocEdits /\ docEdits' = docEdits + 1
  /\ \E d \in DocSet, t \in DocTexts \cup {NoDoc} : files[d] # t /\ files' = [files EXCEPT ![d] = t]
  /\ UNCHANGED <<rows, docRun, cancelled, cooldown, mixed>>

\* The members of a finite set of numbers, in their order.
InOrder(S) == [k \in 1..Cardinality(S) |-> CHOOSE i \in S : Cardinality({j \in S : j <= i}) = k]

\* The files are read, those too large or unreadable left out.
indexRepoDocs(w) ==
  /\ run(w).pc = "idle"
  /\ \E readable \in {DocSet} \cup {DocSet \ {d} : d \in DocSet} :
       LET found == InOrder({i \in DOMAIN DocRefs : DocRefs[i] \in readable /\ files[DocRefs[i]] # NoDoc}) IN
         step(w, [IdleRun EXCEPT !.pc = "docs",
                    !.todo = [k \in DOMAIN found |-> [ref |-> DocRefs[found[k]], text |-> files[DocRefs[found[k]]]]]])
  /\ UNCHANGED <<theWorld, rows, cancelled, cooldown, mixed>>

\* A row is reused when the chunk at its place has its content; the rest of the rows are dead.
prepareSourceDoc(d, text) ==
  LET stored == {row \in rows : row.ref = d}
      same(row) == row.index \in DOMAIN text /\ text[row.index] = row.content
      reused == {row \in stored : same(row)} IN
    [ref |-> d, text |-> text, reuse |-> {row.id : row \in reused}, dead |-> {row.id : row \in stored \ reused},
     fresh |-> InOrder({i \in DOMAIN text : \A row \in reused : row.index # i})]

\* The chunks of a document that have no row yet.
newChunks(prep) == [k \in DOMAIN prep.fresh |-> prep.text[prep.fresh[k]]]

\* A document with nothing new is written at once, the others when there is a batch of chunks.
PrepareDoc(w) ==
  /\ run(w).pc = "docs" /\ run(w).todo # <<>> /\ w \notin cancelled
  /\ LET prep == prepareSourceDoc(run(w).todo[1].ref, run(w).todo[1].text)
         chunks == run(w).chunks \o newChunks(prep) IN
       IF prep.fresh = <<>>
       THEN step(w, [run(w) EXCEPT !.todo = Tail(@), !.pc = "touch", !.pending = <<prep>> \o @])
       ELSE step(w, [run(w) EXCEPT !.todo = Tail(@), !.pending = Append(@, prep), !.chunks = chunks,
                                   !.pc = IF Len(chunks) >= EmbedBatch THEN "embed" ELSE @])
  /\ UNCHANGED <<theWorld, rows, cancelled, cooldown, mixed>>

EndOfDocs(w) ==
  /\ run(w).pc = "docs" /\ (run(w).todo = <<>> \/ w \in cancelled)
  /\ step(w, [run(w) EXCEPT !.pc = IF run(w).pending # <<>> THEN "embed" ELSE "stale", !.todo = <<>>])
  /\ UNCHANGED <<theWorld, rows, cancelled, cooldown, mixed>>

-----------------------------------------------------------------------------
\* Voyage, or the local model while Voyage is given a rest; a run that has once been answered by the
\* local model tags all it writes with it.
Embedded(w, chunks, to) ==
  \/ /\ ~cooldown /\ UNCHANGED cooldown
     /\ step(w, [run(w) EXCEPT !.pc = to, !.chunks = <<>>,
                               !.vectors = [i \in DOMAIN chunks |-> [of |-> chunks[i], by |-> "voyage"]]])
  \/ /\ cooldown' = TRUE
     /\ step(w, [run(w) EXCEPT !.pc = to, !.chunks = <<>>, !.tag = "local",
                               !.vectors = [i \in DOMAIN chunks |-> [of |-> chunks[i], by |-> "local"]]])

\* Neither answers.
EmbedThrows(w) == cooldown' = TRUE /\ UNCHANGED <<rows, mixed>>

EmbedAll(w) ==
  /\ run(w).pc = "embed"
  /\ \/ Embedded(w, run(w).chunks, "write") /\ UNCHANGED <<rows, mixed>>
     \/ EmbedThrows(w) /\ step(w, [run(w) EXCEPT !.pc = "single", !.chunks = <<>>])
  /\ UNCHANGED <<theWorld, cancelled>>

\* When the batch failed, each document is tried by itself.
NextPending(w, rest, pc) == [run(w) EXCEPT !.pending = rest, !.vectors = <<>>, !.pc = IF rest = <<>> THEN "docs" ELSE pc]

EmbedSingle(w) ==
  /\ run(w).pc = "single"
  /\ \/ Embedded(w, newChunks(run(w).pending[1]), "singleWrite") /\ UNCHANGED <<rows, mixed>>
     \/ EmbedThrows(w) /\ step(w, NextPending(w, Tail(run(w).pending), "single"))
  /\ UNCHANGED <<theWorld, cancelled>>

CooldownOver == cooldown /\ cooldown' = FALSE /\ UNCHANGED <<theWorld, rows, docRun, cancelled, mixed>>

-----------------------------------------------------------------------------
Prepared(w) == {run(w).pending[i] : i \in DOMAIN run(w).pending}
HeldIds == UNION {UNION {p.reuse \cup p.dead : p \in Prepared(w)} : w \in DocRuns}
\* Ids are never given twice; which ones a write gets does not matter.
FreeIds == DocRowIds \ (HeldIds \cup {row.id : row \in rows})

\* What is now in the way of another run that has read the rows before.
Disturbed(w, refs) == mixed \cup {d \in refs : \E v \in DocRuns \ {w} : \E p \in Prepared(v) : p.ref = d}

(* Mutant of Touched: the rows that are kept keep their old hash. *)
NotTouched(prep) == {row \in rows : row.id \in prep.reuse}

\* All rows of a document have the hash of its present text.
Touched(prep) == {[row EXCEPT !.hash = prep.text] : row \in {r \in rows : r.id \in prep.reuse}}

writeSourceDoc(w, prep, vectors) ==
  /\ Cardinality(FreeIds) >= Len(prep.fresh)
  /\ rows' = {row \in rows : row.id \notin prep.reuse \cup prep.dead} \cup Touched(prep)
             \cup {[id |-> InOrder(FreeIds)[k], ref |-> prep.ref, index |-> prep.fresh[k], content |-> prep.text[prep.fresh[k]],
                    hash |-> prep.text, vector |-> vectors[k], tag |-> run(w).tag] : k \in DOMAIN prep.fresh}
  /\ mixed' = Disturbed(w, {prep.ref})

\* A document without new chunks.
TouchDoc(w) ==
  /\ run(w).pc = "touch"
  /\ LET prep == run(w).pending[1]
         next == [run(w) EXCEPT !.pc = "docs", !.pending = Tail(@)] IN
       \/ writeSourceDoc(w, prep, <<>>) /\ step(w, [next EXCEPT !.ok = @ \cup {prep.ref}])
       \/ step(w, next) /\ UNCHANGED <<rows, mixed>>
  /\ UNCHANGED <<theWorld, cancelled, cooldown>>

\* The vectors of a batch belong to its documents in turn.
WriteDoc(w) ==
  /\ run(w).pc \in {"write", "singleWrite"}
  /\ LET prep == run(w).pending[1]
         n == Len(prep.fresh)
         vectors == run(w).vectors
         rest == Tail(run(w).pending)
         next == IF run(w).pc = "write"
                 THEN [NextPending(w, rest, "write") EXCEPT !.vectors = SubSeq(vectors, n + 1, Len(vectors))]
                 ELSE NextPending(w, rest, "single") IN
       \/ writeSourceDoc(w, prep, SubSeq(vectors, 1, n)) /\ step(w, [next EXCEPT !.ok = @ \cup {prep.ref}])
       \/ step(w, next) /\ UNCHANGED <<rows, mixed>>
  /\ UNCHANGED <<theWorld, cancelled, cooldown>>

\* What was not indexed now, also because it failed, is no longer in the index; a cancelled job
\* removes nothing.
RemoveStale(w) ==
  /\ run(w).pc = "stale"
  /\ IF w \in cancelled THEN UNCHANGED <<rows, mixed>>
     ELSE LET stale == {row \in rows : row.ref \notin run(w).ok} IN
            rows' = rows \ stale /\ mixed' = Disturbed(w, {row.ref : row \in stale})
  /\ step(w, [run(w) EXCEPT !.pc = "done"])
  /\ UNCHANGED <<theWorld, cancelled, cooldown>>

\* A job whose work is done can no longer be cancelled.
cancelJob(w) ==
  /\ w \in DocJobs \ cancelled /\ run(w).pc \notin {"idle", "done"}
  /\ cancelled' = cancelled \cup {w} /\ UNCHANGED <<theWorld, rows, docRun, cooldown, mixed>>

\* The key of a job that has ended is free again.
startJob(w) ==
  /\ run(w).pc = "done" /\ step(w, IdleRun) /\ cancelled' = cancelled \ {w}
  /\ UNCHANGED <<theWorld, rows, cooldown, mixed>>

clearProjectKnowledge ==
  /\ rows # {} /\ rows' = {} /\ mixed' = Disturbed("nobody", {row.ref : row \in rows})
  /\ UNCHANGED <<theWorld, docRun, cancelled, cooldown>>

DocsNext ==
  \/ \E w \in DocRuns :
       \/ indexRepoDocs(w) \/ PrepareDoc(w) \/ EndOfDocs(w) \/ EmbedAll(w) \/ EmbedSingle(w)
       \/ TouchDoc(w) \/ WriteDoc(w) \/ RemoveStale(w) \/ cancelJob(w) \/ startJob(w)
  \/ EditDoc \/ CooldownOver \/ clearProjectKnowledge

-----------------------------------------------------------------------------
\* The rows of a document are the chunks of one text, each once and all with its hash: chunks of two
\* texts are never mixed in it, whatever failed on the way (knowledge.ts:168-172).  Two writers that
\* prepare the same document may break this, and nothing in the code prevents them.
WholeDocs ==
  \A d \in DocSet \ mixed :
    LET stored == {row \in rows : row.ref = d} IN
      stored # {} => \E t \in DocTexts :
        /\ {<<row.index, row.content>> : row \in stored} = {<<i, t[i]>> : i \in DOMAIN t}
        /\ Cardinality(stored) = Len(t)
        /\ \A row \in stored : row.hash = t

\* A chunk has the vector of its own text, also in a batch over several documents and after some of
\* them failed; and what the local model made is not searched as Voyage's.
VectorsTrue ==
  \A row \in rows : row.vector.of = row.content /\ (row.vector.by = "local" => row.tag = "local")

DocsInv == DocsTypeOK /\ WholeDocs /\ VectorsTrue
=============================================================================
