----------------------------- MODULE Transcripts ------------------------------
(***************************************************************************)
(* Session transcripts of other agents as knowledge: what is read of a     *)
(* file that grows (src/ingest/sessions/tail.ts), which transcripts are    *)
(* taken (claude-code.ts, codex.ts, antigravity.ts, ingest.ts), which are  *)
(* taken out again by the one-time backfill, and to which project a        *)
(* transcript's folder belongs (session-project.ts).                       *)
(*                                                                         *)
(* Abstracted: a transcript is a sequence of records, each with its kind   *)
(* and its length; its hash is its number of records, as it only grows.    *)
(* Folder names are sequences of letters, "/" and "-".                     *)
(***************************************************************************)
EXTENDS Naturals, FiniteSets, SequencesExt, Lists

CONSTANTS
  Transcripts,     \* transcript files
  SubAgents,       \* those named agent-*.jsonl
  RecordKinds,     \* "warmup", "forge", "user", "sandbox" (a turn in a sandbox), "local", "tool"
  RecordSizes,     \* lengths of records
  TailBytes, MaxTailBytes, HeadBytes,  \* the windows
  TranscriptSteps, \* bound: records written
  RepoPaths        \* per project the path of its repository, as a sequence

ASSUME TranscriptsAssumption ==
  /\ RecordSizes \subseteq Nat \ {0} /\ TranscriptSteps \in Nat
  /\ {HeadBytes, TailBytes, MaxTailBytes} \subseteq Nat
  /\ 0 < HeadBytes /\ HeadBytes <= TailBytes /\ TailBytes <= MaxTailBytes
  /\ \A q \in DOMAIN RepoPaths : RepoPaths[q] \in Seq(ToSet(RepoPaths[q]))

VARIABLES
  records,   \* the records of each transcript
  ended,     \* transcripts whose last record has its newline
  indexed,   \* per transcript: the number of records it had when it was taken, or 0
  backfilled \* the backfill has run

transcriptVars == <<records, ended, indexed, backfilled>>

TranscriptsInit ==
  /\ records = [t \in Transcripts |-> <<>>] /\ ended = Transcripts
  /\ indexed = [t \in Transcripts |-> 0] /\ backfilled = FALSE

-------------------------------------------------------------------------------
(* Windows.                                                                 *)

Bytes(rs) ==
  LET upTo[n \in 0..Len(rs)] == IF n = 0 THEN 0 ELSE upTo[n - 1] + rs[n].size IN upTo[Len(rs)]
Unread == [ok |-> FALSE, text |-> <<>>]

\* Records of which the newline is among the last n bytes.
Newlines(rs, closed, n) ==
  {i \in DOMAIN rs : Bytes(SubSeq(rs, 1, i)) > Bytes(rs) - n /\ (i < Len(rs) \/ closed)}

\* The end of a file from its first newline in the window on; with no newline there, of a wider window.
readIndexTail(rs, closed) ==
  LET Within(n) == LET nl == Newlines(rs, closed, n) IN
                   IF Bytes(rs) <= n THEN [ok |-> TRUE, text |-> rs]
                   ELSE IF nl = {} THEN Unread
                   ELSE [ok |-> TRUE, text |-> SubSeq(rs, Min(nl) + 1, Len(rs))]
  IN  IF Within(TailBytes).ok THEN Within(TailBytes) ELSE Within(MaxTailBytes)

\* The beginning of a file, cut back to its last whole record.  Of a record that alone is longer
\* nothing can be parsed.
readHead(rs) == SubSeq(rs, 1, Cardinality({i \in DOMAIN rs : Bytes(rs) <= HeadBytes \/ Bytes(SubSeq(rs, 1, i)) <= HeadBytes}))

-------------------------------------------------------------------------------
(* Which transcripts are taken.                                             *)

Records == [kind : RecordKinds, size : RecordSizes]
userTurnTexts(rs) == OnlyIn(rs, {r \in Records : r.kind \in {"warmup", "forge", "user", "sandbox"}})
isWarmupTranscript(t, rs) ==
  t \in SubAgents /\ userTurnTexts(rs) # <<>> /\ \A i \in DOMAIN userTurnTexts(rs) : userTurnTexts(rs)[i].kind = "warmup"
isForgeAgentTranscript(rs) == userTurnTexts(rs) # <<>> /\ userTurnTexts(rs)[1].kind = "forge"
isLocalModelTranscript(rs) == \E i \in DOMAIN rs : rs[i].kind = "local"
extractText(rs) == OnlyIn(rs, {r \in Records : r.kind # "tool"})
\* The first record that names a folder names one under the sandboxes.
inSandbox(rs) == extractText(rs) # <<>> /\ extractText(rs)[1].kind = "sandbox"

(* Mutant of HeadOf: the check for a worker's transcript reads the tail.    *)
HeadIsTail(rs, closed) == readIndexTail(rs, closed).text
\* Where the first turn is looked for: in the tail when that is the file, else in the head.
HeadOf(rs, closed) == IF Bytes(rs) <= TailBytes THEN readIndexTail(rs, closed).text ELSE readHead(rs)

\* listSessionDocs lists the transcript.
Listed(t) ==
  LET tail == readIndexTail(records[t], t \in ended) IN
  /\ tail.ok /\ ~isLocalModelTranscript(tail.text) /\ ~inSandbox(tail.text) /\ ~isWarmupTranscript(t, tail.text)
  /\ ~isForgeAgentTranscript(HeadOf(records[t], t \in ended)) /\ extractText(tail.text) # <<>>

\* A program adds a record, or the rest of one.
WriteRecord(t, k, s, whole) ==
  /\ FoldSet(LAMBDA x, n : Len(records[x]) + n, 0, Transcripts) < TranscriptSteps /\ t \in ended
  /\ records' = [records EXCEPT ![t] = Append(@, [kind |-> k, size |-> s])]
  /\ ended' = IF whole THEN ended ELSE ended \ {t}
  /\ UNCHANGED <<indexed, backfilled>>

EndRecord(t) == t \notin ended /\ ended' = ended \cup {t} /\ UNCHANGED <<records, indexed, backfilled>>

\* ingestSessions takes a transcript that is listed and changed.  One that is not listed stays as it was taken.
IngestSession(t) ==
  /\ Listed(t) /\ indexed[t] # Len(records[t])
  /\ indexed' = [indexed EXCEPT ![t] = Len(records[t])]
  /\ UNCHANGED <<records, ended, backfilled>>

\* What the backfill takes out: warm-ups by the tail, workers' transcripts by the head.
Deletable(t) ==
  LET tail == readIndexTail(records[t], t \in ended) IN
  \/ tail.ok /\ isWarmupTranscript(t, tail.text)
  \/ isForgeAgentTranscript(readHead(records[t]))

backfillSessionKnowledge ==
  /\ ~backfilled /\ backfilled' = TRUE
  /\ indexed' = [t \in Transcripts |-> IF Deletable(t) THEN 0 ELSE indexed[t]]
  /\ UNCHANGED <<records, ended>>

TranscriptsNext ==
  \/ backfillSessionKnowledge
  \/ \E t \in Transcripts : EndRecord(t) \/ IngestSession(t)
  \/ \E t \in Transcripts, k \in RecordKinds, s \in RecordSizes, whole \in BOOLEAN : WriteRecord(t, k, s, whole)

-------------------------------------------------------------------------------
(* The project of a folder: Claude Code names it after the working          *)
(* directory with every sign that is no letter replaced.                    *)

encodeClaudeProjectDir(p) == [i \in DOMAIN p |-> IF p[i] = "/" THEN "-" ELSE p[i]]
Covers(enc, folder) == enc = folder \/ IsPrefix(Append(enc, "-"), folder)

Candidates(folder) == {q \in DOMAIN RepoPaths : Covers(encodeClaudeProjectDir(RepoPaths[q]), folder)}
\* buildSessionProjectResolver: the longest name wins.
resolveProject(folder) ==
  {q \in Candidates(folder) : \A other \in Candidates(folder) : Len(RepoPaths[other]) <= Len(RepoPaths[q])}

Inside(p, repo) == p = repo \/ IsPrefix(Append(repo, "/"), p)

-------------------------------------------------------------------------------
TranscriptsTypeOK ==
  /\ \A t \in Transcripts : \A i \in DOMAIN records[t] : records[t][i].kind \in RecordKinds
  /\ ended \subseteq Transcripts /\ indexed \in [Transcripts -> Nat] /\ backfilled \in BOOLEAN

\* What is read of a transcript is its end, and holds every record that begins and ends within the last TailBytes.
TailWhole ==
  \A t \in Transcripts : LET rs == records[t]  tail == readIndexTail(rs, t \in ended) IN
    tail.ok => /\ IsSuffix(tail.text, rs)
               /\ \A i \in DOMAIN rs : Bytes(SubSeq(rs, 1, i - 1)) > Bytes(rs) - TailBytes => i > Len(rs) - Len(tail.text)

\* The backfill takes out nothing that the next ingest would put back.
BackfillStays == \A t \in Transcripts : Deletable(t) => ~Listed(t)

\* A folder inside a repository belongs to the innermost such repository, unless a dash in a name
\* makes another repository's name cover it too.
FolderResolved ==
  \A p \in {RepoPaths[q] : q \in DOMAIN RepoPaths} :
    LET folder == encodeClaudeProjectDir(p)
        around == {q \in DOMAIN RepoPaths : Inside(p, RepoPaths[q])}
    IN  Candidates(folder) = around => \A q \in resolveProject(folder) : RepoPaths[q] = p

\* Windows of a growing file, the two checks made with them and the naming of folders agree.
TranscriptsInv == TranscriptsTypeOK /\ TailWhole /\ BackfillStays /\ FolderResolved
===============================================================================
