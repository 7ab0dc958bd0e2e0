------------------------------- MODULE Notes --------------------------------
(***************************************************************************)
(* Notes and their chunks in the search index (src/services/notes.ts,      *)
(* insertNoteEmbedding of knowledge.ts), and the capture of decisions from *)
(* what agents said (memory-capture.ts).                                   *)
(*                                                                         *)
(* A note is truth as soon as its row is written.  Embedding its text is   *)
(* slow and may fail; the chunks are written in a transaction that looks   *)
(* at the note again; and the flag that says so in one more statement,     *)
(* after it.  Savers, editors, the sweep of what is not indexed yet and    *)
(* deletions interleave between these three.                               *)
(*                                                                         *)
(* Abstracted: a text is a number; scope, title, domain and rationale are  *)
(* part of it; events and the row's times are left out.                    *)
(***************************************************************************)
EXTENDS Naturals, FiniteSets

CONSTANTS
  NoteIds,      \* notes that may come to be
  NoteBodies,   \* texts
  NoteEditors,  \* requests that save, change or delete a note
  NoteSweeps,   \* runs of the sweep
  Captures,     \* captures of what one agent said
  CaptureSlots, \* MAX_INFLIGHT
  CaptureItems, \* MAX_ITEMS
  NoteVersions  \* bound: versions of a note

ASSUME NotesAssumption ==
  /\ CaptureSlots \in Nat \ {0} /\ CaptureItems \in Nat \ {0} /\ NoteVersions \in Nat \ {0}
  /\ IsFiniteSet(NoteIds) /\ IsFiniteSet(Captures)
  /\ Captures \cap (NoteEditors \cup NoteSweeps) = {} /\ NoteEditors \cap NoteSweeps = {}

NoText == "none"
NoteWriters == NoteEditors \cup NoteSweeps \cup Captures

VARIABLES
  notes,     \* the rows
  chunked,   \* the text whose chunks are stored for a note, or NoText
  overtaken, \* history: notes flagged as indexed by a writer whose text was no longer theirs
  writer,    \* where each writer is, and the note, text and version it holds
  swept,     \* the rows a sweep has read and not looked at: <<note, text>>
  inflight,  \* captures that hold a slot, as the module counts them
  toSave     \* the decisions a capture has still to save

notesVars == <<notes, chunked, overtaken, writer, swept, inflight, toSave>>

NoteRows == [there : BOOLEAN, text : NoteBodies \cup {NoText}, version : 0..NoteVersions,
             indexed : BOOLEAN, deleted : BOOLEAN]
NoNote == [there |-> FALSE, text |-> NoText, version |-> 0, indexed |-> FALSE, deleted |-> FALSE]
At(pc, n, text, v) == [pc |-> pc, note |-> n, text |-> text, version |-> v]
AtRest(pc) == At(pc, NoText, NoText, 0)

NotesTypeOK ==
  /\ notes \in [NoteIds -> NoteRows] /\ chunked \in [NoteIds -> NoteBodies \cup {NoText}]
  /\ overtaken \subseteq NoteIds /\ inflight \in Nat
  /\ \A w \in NoteWriters :
       /\ writer[w].pc \in {"idle", "opened", "embed", "write", "flag", "next", "settings",
                            "extract", "look", "save", "done"}
       /\ writer[w].note \in NoteIds \cup {NoText} /\ writer[w].text \in NoteBodies \cup {NoText}
  /\ \A w \in NoteSweeps : swept[w] \subseteq NoteIds \X NoteBodies
  /\ \A c \in Captures : toSave[c] \subseteq NoteBodies

NotesInit ==
  /\ notes = [n \in NoteIds |-> NoNote] /\ chunked = [n \in NoteIds |-> NoText] /\ overtaken = {}
  /\ writer = [w \in NoteWriters |-> AtRest("idle")]
  /\ swept = [w \in NoteSweeps |-> {}]
  /\ inflight = 0 /\ toSave = [c \in Captures |-> {}]

-----------------------------------------------------------------------------
goes(w, to) == writer' = [writer EXCEPT ![w] = to]

theRest == <<swept, inflight, toSave>>
theCapture == <<inflight, toSave>>

\* Where a writer goes on when it has done what it could for a note.
Onward(w) ==
  IF w \in NoteSweeps \cup Captures THEN AtRest("next") ELSE AtRest("done")

\* The row is written; the text that will be embedded is the one that was saved.
Inserted(w, text) ==
  \E n \in NoteIds :
    /\ ~notes[n].there
    /\ notes' = [notes EXCEPT ![n] = [NoNote EXCEPT !.there = TRUE, !.text = text, !.version = 1]]
    /\ goes(w, At("embed", n, text, 1))

saveNote(w) ==
  /\ w \in NoteEditors /\ writer[w].pc = "idle"
  /\ \E text \in NoteBodies : Inserted(w, text)
  /\ UNCHANGED <<chunked, overtaken, theRest>>

\* A client has read a note, and will name the version it has seen.
OpenNote(w, n) ==
  /\ w \in NoteEditors /\ writer[w].pc = "idle" /\ notes[n].there /\ ~notes[n].deleted
  /\ goes(w, At("opened", n, NoText, notes[n].version))
  /\ UNCHANGED <<notes, chunked, overtaken, theRest>>

Current(n, v) == ~notes[n].deleted /\ notes[n].version = v

\* Every change, of the title too, asks for the note to be indexed again.
updateNote(w) ==
  /\ writer[w].pc = "opened"
  /\ LET n == writer[w].note
         v == writer[w].version IN
       \/ /\ Current(n, v) /\ v < NoteVersions
          /\ \E text \in NoteBodies :
               /\ notes' = [notes EXCEPT ![n].text = text, ![n].version = v + 1, ![n].indexed = FALSE]
               /\ goes(w, At("embed", n, text, v + 1))
       \/ goes(w, AtRest("done")) /\ UNCHANGED notes   \* refused, or nothing to change
  /\ UNCHANGED <<chunked, overtaken, theRest>>

deleteNote(w) ==
  /\ writer[w].pc = "opened" /\ Current(writer[w].note, writer[w].version)
  /\ writer[w].version < NoteVersions
  /\ LET n == writer[w].note IN
       /\ notes' = [notes EXCEPT ![n].deleted = TRUE, ![n].version = @ + 1]
       /\ chunked' = [chunked EXCEPT ![n] = NoText]
  /\ goes(w, AtRest("done")) /\ UNCHANGED <<overtaken, theRest>>

-----------------------------------------------------------------------------
\* The embedder answers or throws; in the second case the note waits for the next sweep.
EmbedNote(w) ==
  /\ writer[w].pc = "embed"
  /\ goes(w, [writer[w] EXCEPT !.pc = "write"]) \/ goes(w, Onward(w))
  /\ UNCHANGED <<notes, chunked, overtaken, theRest>>

(* Mutant of StillTheNote: the note is not looked at again when its chunks are written. *)
StillANote(n, text) == notes[n].there

StillTheNote(n, text) == ~notes[n].deleted /\ notes[n].text = text

\* The chunks are replaced in one transaction, unless what was embedded is no longer the note.
insertNoteEmbedding(w) ==
  /\ writer[w].pc = "write"
  /\ LET n == writer[w].note IN
       IF StillTheNote(n, writer[w].text)
       THEN chunked' = [chunked EXCEPT ![n] = writer[w].text] /\ goes(w, [writer[w] EXCEPT !.pc = "flag"])
       ELSE goes(w, Onward(w)) /\ UNCHANGED chunked
  /\ UNCHANGED <<notes, overtaken, theRest>>

\* The flag is set by itself.  An editor finds that the note has been deleted since and takes its
\* chunks away; nobody finds that it has been changed since.
MarkIndexed(w) ==
  /\ writer[w].pc = "flag"
  /\ LET n == writer[w].note IN
       IF w \in NoteEditors /\ writer[w].version > 1 /\ notes[n].deleted
       THEN chunked' = [chunked EXCEPT ![n] = NoText] /\ UNCHANGED <<notes, overtaken>>
       ELSE /\ notes' = [notes EXCEPT ![n].indexed = TRUE]
            /\ overtaken' = IF chunked[n] = notes[n].text THEN overtaken \ {n} ELSE overtaken \cup {n}
            /\ UNCHANGED chunked
  /\ goes(w, Onward(w)) /\ UNCHANGED theRest

-----------------------------------------------------------------------------
\* The sweep reads all rows at once and then embeds them one by one, each as it was read.
sweepUnindexedNotes(w) ==
  /\ w \in NoteSweeps /\ writer[w].pc = "idle"
  /\ LET pending == {n \in NoteIds : notes[n].there /\ ~notes[n].deleted /\ ~notes[n].indexed} IN
       swept' = [swept EXCEPT ![w] = {<<n, notes[n].text>> : n \in pending}]
  /\ goes(w, AtRest("next")) /\ UNCHANGED <<notes, chunked, overtaken, theCapture>>

SweepNext(w) ==
  /\ w \in NoteSweeps /\ writer[w].pc = "next"
  /\ \/ \E row \in swept[w] :
          goes(w, At("embed", row[1], row[2], 0)) /\ swept' = [swept EXCEPT ![w] = @ \ {row}]
     \/ swept[w] = {} /\ goes(w, AtRest("done")) /\ UNCHANGED swept
  /\ UNCHANGED <<notes, chunked, overtaken, theCapture>>

\* Nothing is captured of a turn whose tools failed, nor when all slots are taken.
captureMemory(c) ==
  /\ writer[c].pc = "idle"
  /\ \/ inflight < CaptureSlots /\ inflight' = inflight + 1 /\ goes(c, AtRest("settings"))
     \/ goes(c, AtRest("done")) /\ UNCHANGED inflight
  /\ UNCHANGED <<notes, chunked, overtaken, swept, toSave>>

\* However it ends, the slot is given back.
CaptureEnds(c) == goes(c, AtRest("done")) /\ inflight' = inflight - 1

CaptureOn(c) ==
  /\ writer[c].pc = "settings"
  /\ \/ goes(c, AtRest("extract")) /\ UNCHANGED inflight
     \/ CaptureEnds(c)
  /\ UNCHANGED <<notes, chunked, overtaken, swept, toSave>>

\* Only decisions are kept, never the rules the extractor may have made up.
Extract(c) ==
  /\ writer[c].pc = "extract"
  /\ \/ /\ \E items \in SUBSET NoteBodies :
             Cardinality(items) <= CaptureItems /\ toSave' = [toSave EXCEPT ![c] = items]
        /\ goes(c, AtRest("next")) /\ UNCHANGED inflight
     \/ CaptureEnds(c) /\ UNCHANGED toSave
  /\ UNCHANGED <<notes, chunked, overtaken, swept>>

\* What is there is not saved again, but another capture may save it between the look and the save.
CaptureNext(c) ==
  /\ c \in Captures /\ writer[c].pc = "next"
  /\ \/ \E text \in toSave[c] :
          /\ toSave' = [toSave EXCEPT ![c] = @ \ {text}]
          /\ IF \E n \in NoteIds : notes[n].there /\ ~notes[n].deleted /\ notes[n].text = text
             THEN UNCHANGED writer
             ELSE goes(c, At("save", NoText, text, 0))
          /\ UNCHANGED inflight
     \/ CaptureEnds(c) /\ toSave' = [toSave EXCEPT ![c] = {}]   \* all done, or the database threw
  /\ UNCHANGED <<notes, chunked, overtaken, swept>>

CaptureSave(c) ==
  /\ c \in Captures /\ writer[c].pc = "save"
  /\ \/ Inserted(c, writer[c].text) /\ UNCHANGED <<inflight, toSave>>
     \/ /\ CaptureEnds(c) /\ toSave' = [toSave EXCEPT ![c] = {}] /\ UNCHANGED notes
  /\ UNCHANGED <<chunked, overtaken, swept>>

-----------------------------------------------------------------------------
NotesNext ==
  \/ \E w \in NoteWriters : EmbedNote(w) \/ insertNoteEmbedding(w) \/ MarkIndexed(w)
  \/ \E w \in NoteEditors : saveNote(w) \/ updateNote(w) \/ deleteNote(w) \/ \E n \in NoteIds : OpenNote(w, n)
  \/ \E w \in NoteSweeps : sweepUnindexedNotes(w) \/ SweepNext(w)
  \/ \E c \in Captures : captureMemory(c) \/ CaptureOn(c) \/ Extract(c) \/ CaptureNext(c) \/ CaptureSave(c)

-----------------------------------------------------------------------------
\* A deleted note is out of the index and stays out, whoever is still embedding it.
DeletedGone == \A n \in NoteIds : notes[n].deleted => chunked[n] = NoText

\* A note shown as indexed is found by its present text; the exception is a note that was changed
\* after its chunks were written and before that was flagged.  (It is flagged all the same, and no
\* sweep looks at it again if the embedding of the change fails.)
IndexHonest ==
  \A n \in NoteIds \ overtaken : notes[n].indexed /\ ~notes[n].deleted => chunked[n] = notes[n].text

\* No capture leaves with its slot, and there are never more of them than slots.
SlotsHeld ==
  /\ inflight <= CaptureSlots
  /\ inflight = Cardinality({c \in Captures : writer[c].pc \notin {"idle", "done"}})

NotesInv == NotesTypeOK /\ DeletedGone /\ IndexHonest /\ SlotsHeld
=============================================================================
