----------------------------- MODULE BoardProofs -----------------------------
(*****************************************************************************)
(* Proofs about what is on the board, for every number of projects, notes,   *)
(* tickets, writers, imports, sweeps and syncs: notes and their index        *)
(* (Notes), projects made and deleted whole and what is read off them        *)
(* (Projects), and the tickets that follow a tracker (IssueSync).  At the    *)
(* end the components of the database together, as the run that checks them  *)
(* has them take turns (MCData).                                             *)
(*****************************************************************************)
EXTENDS MCData, DataProofs, SequenceTheorems

-----------------------------------------------------------------------------
(* Numbers *)

\* Induction, over the set of the numbers for which it holds.
LEMMA FromZero ==
  ASSUME NEW N \in Nat, NEW S, 0 \in S, \A n \in 1..N : n - 1 \in S => n \in S
  PROVE  \A n \in 0..N : n \in S
<1> DEFINE out == {n \in 0..N : n \notin S}
<1>1. out \subseteq Nat
  OBVIOUS
<1>2. CASE out # {}
  <2>1. PICK m \in out : \A n \in out : m <= n
    <3> HIDE DEF out
    <3>1. QED
      BY <1>1, <1>2, HasLeast
  <2>2. m \in 0..N /\ m \notin S /\ m # 0
    OBVIOUS
  <2>3. m \in 1..N /\ m - 1 \in 0..N /\ ~(m <= m - 1)
    BY <2>2
  <2>4. m - 1 \in S
    BY <2>1, <2>3
  <2>5. QED
    BY <2>2, <2>3, <2>4
<1>3. QED
  BY <1>2

Recursive(f, N, first, next) ==
  /\ f = [n \in 0..N |-> IF n = 0 THEN first ELSE next[<<f[n - 1], n>>]]
  /\ f[0] = first /\ \A n \in 1..N : f[n] = next[<<f[n - 1], n>>]

\* A function may be defined by what it is at the number before; the step is itself a function.
LEMMA StepByStep ==
  ASSUME NEW N \in Nat, NEW first, NEW next
  PROVE  \E f : Recursive(f, N, first, next)
<1> DEFINE Upto(f, m) == DOMAIN f = 0..m /\ f = [n \in 0..m |-> f[n]] /\ f[0] = first /\ \A n \in 1..m : f[n] = next[<<f[n - 1], n>>]
           good == {m \in 0..N : \E f : Upto(f, m)}
<1>1. 0 \in good
  <2> DEFINE f == [n \in 0..0 |-> first]
  <2>1. Upto(f, 0)
    OBVIOUS
  <2> HIDE DEF f, Upto
  <2>2. QED
    BY <2>1
<1>2. ASSUME NEW m \in 1..N, m - 1 \in good PROVE m \in good
  <2>1. PICK f : Upto(f, m - 1)
    BY <1>2
  <2> DEFINE g == [n \in 0..m |-> IF n = m THEN next[<<f[m - 1], m>>] ELSE f[n]]
  <2>2. DOMAIN g = 0..m /\ g = [n \in 0..m |-> g[n]]
    OBVIOUS
  <2>3. g[m] = next[<<f[m - 1], m>>] /\ (\A n \in 0..(m - 1) : g[n] = f[n]) /\ m - 1 \in 0..(m - 1)
    OBVIOUS
  <2> HIDE DEF g
  <2>4. g[0] = first
    BY <2>1, <2>3
  <2>5. ASSUME NEW n \in 1..m PROVE g[n] = next[<<g[n - 1], n>>]
    <3>1. CASE n = m
      BY <3>1, <2>3
    <3>2. CASE n # m
      <4>1. n \in 1..(m - 1) /\ n \in 0..(m - 1) /\ n - 1 \in 0..(m - 1)
        BY <3>2
      <4>2. QED
        BY <4>1, <2>1, <2>3
    <3>3. QED
      BY <3>1, <3>2
  <2>6. Upto(g, m)
    BY <2>2, <2>4, <2>5
  <2> HIDE DEF Upto
  <2>7. QED
    BY <2>6
<1>3. N \in good
  <2> HIDE DEF good
  <2>1. QED
    BY <1>1, <1>2, FromZero
<1>4. PICK f : Upto(f, N)
  BY <1>3
<1>5. f = [n \in 0..N |-> IF n = 0 THEN first ELSE next[<<f[n - 1], n>>]]
  <2>1. \A n \in 0..N : f[n] = IF n = 0 THEN first ELSE next[<<f[n - 1], n>>]
    BY <1>4
  <2>2. f = [n \in 0..N |-> f[n]]
    BY <1>4
  <2> HIDE DEF Upto
  <2>3. QED
    BY <2>1, <2>2
<1>6. Recursive(f, N, first, next)
  BY <1>4, <1>5 DEF Recursive
<1>7. QED
  BY <1>6

-----------------------------------------------------------------------------
(* Notes and their index *)

NotesSpec == NotesInit /\ [][NotesNext]_notesVars

NotePlaces == {"idle", "opened", "embed", "write", "flag", "next", "settings", "extract", "look", "save", "done"}
NoteTurns == [pc : NotePlaces, note : NoteIds \cup {NoText}, text : NoteBodies \cup {NoText}, version : 0..NoteVersions]

\* What there is of rows, writers and what they still have to do, as functions.
NotesTyped ==
  /\ notes \in [NoteIds -> NoteRows] /\ chunked \in [NoteIds -> NoteBodies \cup {NoText}]
  /\ overtaken \subseteq NoteIds /\ inflight \in Nat
  /\ writer \in [NoteWriters -> NoteTurns]
  /\ swept \in [NoteSweeps -> SUBSET (NoteIds \X NoteBodies)] /\ toSave \in [Captures -> SUBSET NoteBodies]
  /\ \A n \in NoteIds : notes[n].there => notes[n].text \in NoteBodies

\* A writer that is at a note has one, one that embeds has a text too, and each is where its kind may be.
TurnsSound ==
  \A w \in NoteWriters :
    /\ writer[w].pc \in {"opened", "embed", "write", "flag"} => writer[w].note \in NoteIds
    /\ writer[w].pc \in {"embed", "write", "flag", "save"} => writer[w].text \in NoteBodies
    /\ writer[w].pc = "opened" => w \in NoteEditors
    /\ writer[w].pc \in {"settings", "extract", "save"} => w \in Captures

NotesInductive == NotesTyped /\ TurnsSound /\ DeletedGone /\ IndexHonest /\ SlotsHeld

\* The captures that hold a slot.
Holding == {c \in Captures : writer[c].pc \notin {"idle", "done"}}

LEMMA NotesNumbers ==
  /\ NoteVersions \in Nat \ {0} /\ CaptureSlots \in Nat \ {0} /\ IsFiniteSet(Captures)
  /\ 0 \in 0..NoteVersions /\ 1 \in 0..NoteVersions
BY NotesAssumption DEF NotesAssumption

LEMMA TurnTyped ==
  ASSUME NEW at \in NotePlaces, NEW n \in NoteIds \cup {NoText}, NEW text \in NoteBodies \cup {NoText},
         NEW v \in 0..NoteVersions
  PROVE  At(at, n, text, v) \in NoteTurns
BY DEF At, NoteTurns

\* A writer without a note is one that rests.
LEMMA RestTyped ==
  ASSUME NEW at \in NotePlaces
  PROVE  AtRest(at) \in NoteTurns /\ AtRest(at).pc = at
BY NotesNumbers, TurnTyped DEF AtRest, At

LEMMA OnwardTyped ==
  ASSUME NEW w \in NoteWriters
  PROVE  /\ Onward(w) \in NoteTurns /\ Onward(w).pc \in {"next", "done"}
         /\ w \in Captures => Onward(w).pc = "next"
BY RestTyped DEF Onward, NotePlaces

\* What one writer does to the slots: a capture takes one when it begins and gives it back when it ends.
LEMMA SlotsStep ==
  ASSUME SlotsHeld, NotesTyped, NEW w \in NoteWriters, NEW to \in NoteTurns, goes(w, to),
         inflight' \in Nat,
         \/ w \notin Captures /\ inflight' = inflight
         \/ /\ w \in Captures /\ writer[w].pc \notin {"idle", "done"} /\ to.pc \notin {"idle", "done"}
            /\ inflight' = inflight
         \/ /\ w \in Captures /\ writer[w].pc = "idle" /\ to.pc = "done" /\ inflight' = inflight
         \/ /\ w \in Captures /\ writer[w].pc = "idle" /\ to.pc \notin {"idle", "done"}
            /\ inflight < CaptureSlots /\ inflight' = inflight + 1
         \/ /\ w \in Captures /\ writer[w].pc \notin {"idle", "done"} /\ to.pc = "done"
            /\ inflight' = inflight - 1
  PROVE  SlotsHeld'
<1>1. /\ writer \in [NoteWriters -> NoteTurns] /\ writer' = [writer EXCEPT ![w] = to] /\ Captures \subseteq NoteWriters
      /\ inflight \in Nat /\ inflight <= CaptureSlots /\ inflight = Cardinality(Holding)
      /\ CaptureSlots \in Nat
  BY NotesNumbers DEF NotesTyped, SlotsHeld, Holding, goes, NoteWriters
<1>2. IsFiniteSet(Holding)
  BY NotesNumbers, FS_Subset DEF Holding
<1>3. SUFFICES inflight' <= CaptureSlots /\ inflight' = Cardinality(Holding')
  BY DEF SlotsHeld, Holding
<1>4. CASE w \notin Captures \/ (writer[w].pc = "idle" /\ to.pc = "done")
           \/ (writer[w].pc \notin {"idle", "done"} /\ to.pc \notin {"idle", "done"})
  <2>1. Holding' = Holding
    BY <1>1, <1>4 DEF Holding
  <2>2. inflight' = inflight
    BY <1>4
  <2>3. QED
    BY <1>1, <2>1, <2>2
<1>5. CASE w \in Captures /\ writer[w].pc = "idle" /\ to.pc \notin {"idle", "done"}
  <2>1. Holding' = Holding \cup {w} /\ w \notin Holding
    BY <1>1, <1>5 DEF Holding
  <2>2. inflight' = inflight + 1 /\ inflight < CaptureSlots
    BY <1>5
  <2>3. Cardinality(Holding') = Cardinality(Holding) + 1
    BY <1>2, <2>1, FS_AddElement
  <2>4. QED
    BY <1>1, <2>2, <2>3
<1>6. CASE w \in Captures /\ writer[w].pc \notin {"idle", "done"} /\ to.pc = "done"
  <2>1. Holding' = Holding \ {w} /\ w \in Holding
    BY <1>1, <1>6 DEF Holding
  <2>2. inflight' = inflight - 1
    BY <1>6
  <2>3. Cardinality(Holding') = Cardinality(Holding) - 1
    BY <1>2, <2>1, FS_RemoveElement
  <2>4. QED
    BY <1>1, <2>2, <2>3
<1>7. QED
  BY <1>4, <1>5, <1>6

\* A writer goes on with the index and the slots as they are.
LEMMA WriterMoves ==
  ASSUME NotesInductive, NEW w \in NoteWriters, NEW to \in NoteTurns, goes(w, to),
         to.pc \in {"opened", "embed", "write", "flag"} => to.note \in NoteIds,
         to.pc \in {"embed", "write", "flag", "save"} => to.text \in NoteBodies,
         to.pc = "opened" => w \in NoteEditors,
         to.pc \in {"settings", "extract", "save"} => w \in Captures
  PROVE  TurnsSound' /\ writer' \in [NoteWriters -> NoteTurns]
<1>1. writer \in [NoteWriters -> NoteTurns] /\ writer' = [writer EXCEPT ![w] = to] /\ TurnsSound
  BY DEF NotesInductive, NotesTyped, goes
<1>2. \A v \in NoteWriters : writer'[v] = IF v = w THEN to ELSE writer[v]
  BY <1>1
<1>3. QED
  BY <1>1, <1>2 DEF TurnsSound

\* The row that is inserted, and what of a saver it leaves to be embedded.
LEMMA InsertedSound ==
  ASSUME NotesInductive, NEW w \in NoteWriters, NEW text \in NoteBodies, Inserted(w, text),
         UNCHANGED <<chunked, overtaken, swept>>, inflight' \in Nat, toSave' = toSave,
         \/ w \notin Captures /\ inflight' = inflight
         \/ w \in Captures /\ writer[w].pc \notin {"idle", "done"} /\ inflight' = inflight
  PROVE  NotesInductive'
<1>1. PICK n \in NoteIds :
        /\ ~notes[n].there
        /\ notes' = [notes EXCEPT ![n] = [NoNote EXCEPT !.there = TRUE, !.text = text, !.version = 1]]
        /\ goes(w, At("embed", n, text, 1))
  BY DEF Inserted
<1> DEFINE row == [NoNote EXCEPT !.there = TRUE, !.text = text, !.version = 1]
<1>2. row \in NoteRows /\ row.there /\ row.text = text /\ ~row.indexed /\ ~row.deleted
  BY NotesNumbers DEF NoNote, NoteRows
<1>3. notes' = [notes EXCEPT ![n] = row]
  BY <1>1
<1> HIDE DEF row
<1>4. NotesTyped /\ TurnsSound /\ DeletedGone /\ IndexHonest /\ SlotsHeld
  BY DEF NotesInductive
<1>5. At("embed", n, text, 1) \in NoteTurns
  BY NotesNumbers, TurnTyped DEF NotePlaces
<1>6. TurnsSound' /\ writer' \in [NoteWriters -> NoteTurns]
  BY <1>1, <1>5, WriterMoves DEF At
<1>7. NotesTyped'
  BY <1>2, <1>3, <1>4, <1>6 DEF NotesTyped
<1>8. DeletedGone' /\ IndexHonest'
  BY <1>2, <1>3, <1>4 DEF NotesTyped, DeletedGone, IndexHonest
<1>9. SlotsHeld'
  <2>1. At("embed", n, text, 1).pc = "embed"
    BY DEF At
  <2>2. QED
    BY <1>1, <1>4, <1>5, <2>1, SlotsStep
<1>10. QED
  BY <1>6, <1>7, <1>8, <1>9 DEF NotesInductive

\* A step that leaves the rows and the index alone.
LEMMA ElsewhereSound ==
  ASSUME NotesInductive, UNCHANGED <<notes, chunked, overtaken>>,
         NEW w \in NoteWriters, NEW to \in NoteTurns, goes(w, to),
         to.pc \in {"opened", "embed", "write", "flag"} => to.note \in NoteIds,
         to.pc \in {"embed", "write", "flag", "save"} => to.text \in NoteBodies,
         to.pc = "opened" => w \in NoteEditors,
         to.pc \in {"settings", "extract", "save"} => w \in Captures,
         swept' \in [NoteSweeps -> SUBSET (NoteIds \X NoteBodies)], toSave' \in [Captures -> SUBSET NoteBodies],
         inflight' \in Nat,
         \/ w \notin Captures /\ inflight' = inflight
         \/ /\ w \in Captures /\ writer[w].pc \notin {"idle", "done"} /\ to.pc \notin {"idle", "done"}
            /\ inflight' = inflight
         \/ /\ w \in Captures /\ writer[w].pc = "idle" /\ to.pc = "done" /\ inflight' = inflight
         \/ /\ w \in Captures /\ writer[w].pc = "idle" /\ to.pc \notin {"idle", "done"}
            /\ inflight < CaptureSlots /\ inflight' = inflight + 1
         \/ /\ w \in Captures /\ writer[w].pc \notin {"idle", "done"} /\ to.pc = "done"
            /\ inflight' = inflight - 1
  PROVE  NotesInductive'
<1>1. TurnsSound' /\ writer' \in [NoteWriters -> NoteTurns]
  BY WriterMoves
<1>2. SlotsHeld'
  BY SlotsStep DEF NotesInductive
<1>3. NotesTyped'
  BY <1>1 DEF NotesInductive, NotesTyped
<1>4. DeletedGone' /\ IndexHonest'
  BY DEF NotesInductive, DeletedGone, IndexHonest
<1>5. QED
  BY <1>1, <1>2, <1>3, <1>4 DEF NotesInductive

\* Who ends gives back a slot it holds.
LEMMA EndsSound ==
  ASSUME NotesInductive, NEW c \in Captures, writer[c].pc \notin {"idle", "done"}, CaptureEnds(c),
         UNCHANGED <<notes, chunked, overtaken, swept>>, toSave' \in [Captures -> SUBSET NoteBodies]
  PROVE  NotesInductive'
<1>1. c \in NoteWriters /\ SlotsHeld /\ NotesTyped
  BY DEF NoteWriters, NotesInductive
<1>2. IsFiniteSet(Holding) /\ c \in Holding
  BY NotesNumbers, FS_Subset DEF Holding
<1>3. Cardinality(Holding) \in Nat /\ Cardinality(Holding) # 0
  BY <1>2, FS_CardinalityType, FS_EmptySet
<1>4. inflight' = inflight - 1 /\ inflight' \in Nat
  BY <1>1, <1>3 DEF SlotsHeld, Holding, CaptureEnds
<1>5. AtRest("done") \in NoteTurns /\ AtRest("done").pc = "done" /\ goes(c, AtRest("done"))
  BY RestTyped DEF NotePlaces, CaptureEnds
<1>6. swept' \in [NoteSweeps -> SUBSET (NoteIds \X NoteBodies)]
  BY <1>1 DEF NotesTyped
<1>7. QED
  BY <1>1, <1>4, <1>5, <1>6, ElsewhereSound

LEMMA EditorsSound ==
  ASSUME NotesInductive, NEW w \in NoteEditors,
         saveNote(w) \/ updateNote(w) \/ deleteNote(w) \/ \E n \in NoteIds : OpenNote(w, n)
  PROVE  NotesInductive'
<1>1. /\ w \in NoteWriters /\ w \notin Captures /\ w \notin NoteSweeps
      /\ NotesTyped /\ TurnsSound /\ DeletedGone /\ IndexHonest /\ SlotsHeld
  BY NotesAssumption DEF NotesAssumption, NoteWriters, NotesInductive
<1>2. CASE saveNote(w)
  BY <1>1, <1>2, InsertedSound DEF saveNote, theRest, NotesTyped
<1>3. CASE updateNote(w)
  <2> DEFINE n == writer[w].note
             v == writer[w].version
  <2>1. writer[w].pc = "opened" /\ n \in NoteIds /\ UNCHANGED <<chunked, overtaken, swept, inflight, toSave>>
    BY <1>1, <1>3 DEF updateNote, theRest, TurnsSound
  <2>2. CASE goes(w, AtRest("done")) /\ UNCHANGED notes
    <3>1. AtRest("done") \in NoteTurns /\ AtRest("done").pc = "done"
      BY RestTyped DEF NotePlaces
    <3>2. QED
      BY <1>1, <2>1, <2>2, <3>1, ElsewhereSound DEF NotesTyped
  <2>3. CASE /\ Current(n, v) /\ v < NoteVersions
             /\ \E text \in NoteBodies :
                  /\ notes' = [notes EXCEPT ![n].text = text, ![n].version = v + 1, ![n].indexed = FALSE]
                  /\ goes(w, At("embed", n, text, v + 1))
    <3>1. PICK text \in NoteBodies :
            /\ notes' = [notes EXCEPT ![n].text = text, ![n].version = v + 1, ![n].indexed = FALSE]
            /\ goes(w, At("embed", n, text, v + 1))
      BY <2>3
    <3>2. v + 1 \in 0..NoteVersions
      BY <1>1, <2>3, NotesNumbers DEF NotesTyped, NoteTurns
    <3>11. PICK later \in 0..NoteVersions : later = v + 1
      BY <3>2
    <3>12. PICK row : row = [notes[n] EXCEPT !.text = text, !.version = later, !.indexed = FALSE]
      OBVIOUS
    <3>3. /\ row \in NoteRows /\ row.text = text /\ ~row.indexed /\ row.deleted = notes[n].deleted
          /\ row.there = notes[n].there
      <4>1. notes[n] \in NoteRows
        BY <1>1, <2>1 DEF NotesTyped
      <4>2. QED
        BY <3>12, <4>1 DEF NoteRows
    <3>4. notes' = [notes EXCEPT ![n] = row]
      BY <1>1, <2>1, <3>1, <3>11, <3>12 DEF NotesTyped, NoteRows
    <3>5. At("embed", n, text, v + 1) \in NoteTurns /\ At("embed", n, text, v + 1).pc = "embed"
      BY <2>1, <3>2, TurnTyped DEF NotePlaces, At
    <3>6. TurnsSound' /\ writer' \in [NoteWriters -> NoteTurns]
      BY <1>1, <2>1, <3>1, <3>5, WriterMoves DEF At
    <3>7. NotesTyped'
      BY <1>1, <2>1, <3>3, <3>4, <3>6 DEF NotesTyped
    <3>8. DeletedGone' /\ IndexHonest'
      BY <1>1, <2>1, <3>3, <3>4 DEF NotesTyped, DeletedGone, IndexHonest
    <3>9. SlotsHeld'
      BY <1>1, <2>1, <3>1, <3>5, SlotsStep DEF NotesTyped
    <3>10. QED
      BY <3>6, <3>7, <3>8, <3>9 DEF NotesInductive
  <2>4. QED
    BY <1>3, <2>2, <2>3 DEF updateNote
<1>4. CASE deleteNote(w)
  <2> DEFINE n == writer[w].note
             row == [notes[n] EXCEPT !.deleted = TRUE, !.version = @ + 1]
  <2>1. n \in NoteIds /\ UNCHANGED <<overtaken, swept, inflight, toSave>> /\ goes(w, AtRest("done"))
    BY <1>1, <1>4 DEF deleteNote, theRest, TurnsSound
  <2>2. notes[n].version + 1 \in 0..NoteVersions
    BY <1>1, <1>4, <2>1, NotesNumbers DEF deleteNote, Current, NotesTyped, NoteRows
  <2>3. row \in NoteRows /\ row.text = notes[n].text /\ row.deleted /\ row.there = notes[n].there
    BY <1>1, <2>1, <2>2 DEF NotesTyped, NoteRows
  <2>4. notes' = [notes EXCEPT ![n] = row] /\ chunked' = [chunked EXCEPT ![n] = NoText]
    BY <1>1, <1>4, <2>1 DEF deleteNote, NotesTyped, NoteRows
  <2> HIDE DEF row
  <2>5. AtRest("done") \in NoteTurns /\ AtRest("done").pc = "done"
    BY RestTyped DEF NotePlaces
  <2>6. TurnsSound' /\ writer' \in [NoteWriters -> NoteTurns]
    BY <2>1, <2>5, <1>1, WriterMoves
  <2>7. NotesTyped'
    BY <1>1, <2>1, <2>3, <2>4, <2>6 DEF NotesTyped
  <2>8. DeletedGone' /\ IndexHonest'
    BY <1>1, <2>1, <2>3, <2>4 DEF NotesTyped, DeletedGone, IndexHonest
  <2>9. SlotsHeld'
    BY <1>1, <2>1, <2>5, SlotsStep DEF NotesTyped
  <2>10. QED
    BY <2>6, <2>7, <2>8, <2>9 DEF NotesInductive
<1>5. CASE \E n \in NoteIds : OpenNote(w, n)
  <2>1. PICK n \in NoteIds : OpenNote(w, n)
    BY <1>5
  <2>2. /\ goes(w, At("opened", n, NoText, notes[n].version))
        /\ UNCHANGED <<notes, chunked, overtaken, swept, inflight, toSave>>
    BY <2>1 DEF OpenNote, theRest
  <2>3. At("opened", n, NoText, notes[n].version) \in NoteTurns
    BY <1>1, TurnTyped DEF NotePlaces, NotesTyped, NoteRows
  <2>4. QED
    BY <1>1, <2>2, <2>3, ElsewhereSound DEF NotesTyped, At
<1>6. QED
  BY <1>2, <1>3, <1>4, <1>5

LEMMA IndexersSound ==
  ASSUME NotesInductive, NEW w \in NoteWriters, EmbedNote(w) \/ insertNoteEmbedding(w) \/ MarkIndexed(w)
  PROVE  NotesInductive'
<1>1. /\ NotesTyped /\ TurnsSound /\ DeletedGone /\ IndexHonest /\ SlotsHeld
      /\ Onward(w) \in NoteTurns /\ Onward(w).pc \in {"next", "done"} /\ (w \in Captures => Onward(w).pc = "next")
      /\ writer[w] \in NoteTurns /\ UNCHANGED <<swept, inflight, toSave>>
  BY OnwardTyped DEF NotesInductive, NotesTyped, EmbedNote, insertNoteEmbedding, MarkIndexed, theRest
<1>2. writer[w].pc \in {"embed", "write", "flag"} /\ writer[w].note \in NoteIds /\ writer[w].text \in NoteBodies
  BY <1>1 DEF TurnsSound, EmbedNote, insertNoteEmbedding, MarkIndexed
<1> DEFINE n == writer[w].note
<1>3. ASSUME NEW at \in {"write", "flag"}
      PROVE  /\ [writer[w] EXCEPT !.pc = at] \in NoteTurns /\ [writer[w] EXCEPT !.pc = at].pc = at
             /\ [writer[w] EXCEPT !.pc = at].note \in NoteIds /\ [writer[w] EXCEPT !.pc = at].text \in NoteBodies
  BY <1>1, <1>2 DEF NoteTurns, NotePlaces
<1>4. CASE EmbedNote(w)
  <2>1. UNCHANGED <<notes, chunked, overtaken>>
    BY <1>4 DEF EmbedNote
  <2>2. CASE goes(w, [writer[w] EXCEPT !.pc = "write"])
    BY <1>1, <1>2, <1>3, <2>1, <2>2, ElsewhereSound DEF NotesTyped
  <2>3. CASE goes(w, Onward(w))
    BY <1>1, <1>2, <2>1, <2>3, ElsewhereSound DEF NotesTyped
  <2>4. QED
    BY <1>4, <2>2, <2>3 DEF EmbedNote
<1>5. CASE insertNoteEmbedding(w)
  <2>1. CASE StillTheNote(n, writer[w].text)
    <3>1. /\ chunked' = [chunked EXCEPT ![n] = writer[w].text] /\ goes(w, [writer[w] EXCEPT !.pc = "flag"])
          /\ UNCHANGED <<notes, overtaken>>
      BY <1>5, <2>1 DEF insertNoteEmbedding
    <3>2. TurnsSound' /\ writer' \in [NoteWriters -> NoteTurns]
      BY <1>3, <3>1, WriterMoves
    <3>3. NotesTyped'
      BY <1>1, <1>2, <3>1, <3>2 DEF NotesTyped
    <3>4. DeletedGone' /\ IndexHonest'
      BY <1>1, <1>2, <2>1, <3>1 DEF NotesTyped, DeletedGone, IndexHonest, StillTheNote
    <3>5. SlotsHeld'
      BY <1>1, <1>2, <1>3, <3>1, SlotsStep DEF NotesTyped
    <3>6. QED
      BY <3>2, <3>3, <3>4, <3>5 DEF NotesInductive
  <2>2. CASE ~StillTheNote(n, writer[w].text)
    <3>1. goes(w, Onward(w)) /\ UNCHANGED <<notes, chunked, overtaken>>
      BY <1>5, <2>2 DEF insertNoteEmbedding
    <3>2. QED
      BY <1>1, <1>2, <3>1, ElsewhereSound DEF NotesTyped
  <2>3. QED
    BY <2>1, <2>2
<1>6. CASE MarkIndexed(w)
  <2>1. goes(w, Onward(w))
    BY <1>6 DEF MarkIndexed
  <2>2. TurnsSound' /\ writer' \in [NoteWriters -> NoteTurns]
    BY <1>1, <2>1, WriterMoves
  <2>3. SlotsHeld'
    BY <1>1, <1>2, <2>1, SlotsStep DEF NotesTyped
  <2>4. NotesTyped' /\ DeletedGone' /\ IndexHonest'
    <3>1. CASE notes[n].deleted /\ chunked' = [chunked EXCEPT ![n] = NoText] /\ UNCHANGED <<notes, overtaken>>
      BY <1>1, <1>2, <2>2, <3>1 DEF NotesTyped, DeletedGone, IndexHonest
    <3>2. CASE /\ notes' = [notes EXCEPT ![n].indexed = TRUE]
               /\ overtaken' = IF chunked[n] = notes[n].text THEN overtaken \ {n} ELSE overtaken \cup {n}
               /\ UNCHANGED chunked
      <4> DEFINE row == [notes[n] EXCEPT !.indexed = TRUE]
      <4>1. /\ row \in NoteRows /\ row.text = notes[n].text /\ row.deleted = notes[n].deleted
            /\ row.there = notes[n].there
        BY <1>1, <1>2 DEF NotesTyped, NoteRows
      <4>2. notes' = [notes EXCEPT ![n] = row]
        BY <1>1, <1>2, <3>2 DEF NotesTyped, NoteRows
      <4> HIDE DEF row
      <4>3. NotesTyped'
        BY <1>1, <1>2, <2>2, <3>2, <4>1, <4>2 DEF NotesTyped
      <4>4. DeletedGone' /\ IndexHonest'
        BY <1>1, <1>2, <3>2, <4>1, <4>2 DEF NotesTyped, DeletedGone, IndexHonest
      <4>5. QED
        BY <4>3, <4>4
    <3>3. QED
      BY <1>6, <3>1, <3>2 DEF MarkIndexed
  <2>5. QED
    BY <2>2, <2>3, <2>4 DEF NotesInductive
<1>7. QED
  BY <1>4, <1>5, <1>6

LEMMA SweepsSound ==
  ASSUME NotesInductive, NEW w \in NoteSweeps, sweepUnindexedNotes(w) \/ SweepNext(w)
  PROVE  NotesInductive'
<1>1. /\ w \in NoteWriters /\ w \notin Captures /\ NotesTyped /\ TurnsSound
      /\ UNCHANGED <<notes, chunked, overtaken, inflight, toSave>>
  BY NotesAssumption DEF NotesAssumption, NoteWriters, NotesInductive, sweepUnindexedNotes, SweepNext, theCapture
<1>2. \A at \in {"next", "done"} : AtRest(at) \in NoteTurns /\ AtRest(at).pc = at
  BY RestTyped DEF NotePlaces
<1>3. CASE sweepUnindexedNotes(w)
  <2>1. swept' \in [NoteSweeps -> SUBSET (NoteIds \X NoteBodies)] /\ goes(w, AtRest("next"))
    BY <1>1, <1>3 DEF sweepUnindexedNotes, NotesTyped
  <2>2. QED
    BY <1>1, <1>2, <2>1, ElsewhereSound DEF NotesTyped
<1>4. CASE SweepNext(w)
  <2>1. CASE \E row \in swept[w] :
               goes(w, At("embed", row[1], row[2], 0)) /\ swept' = [swept EXCEPT ![w] = @ \ {row}]
    <3>1. PICK row \in swept[w] :
               goes(w, At("embed", row[1], row[2], 0)) /\ swept' = [swept EXCEPT ![w] = @ \ {row}]
      BY <2>1
    <3>2. row[1] \in NoteIds /\ row[2] \in NoteBodies /\ swept' \in [NoteSweeps -> SUBSET (NoteIds \X NoteBodies)]
      BY <1>1, <3>1 DEF NotesTyped
    <3>3. /\ At("embed", row[1], row[2], 0) \in NoteTurns /\ At("embed", row[1], row[2], 0).pc = "embed"
          /\ At("embed", row[1], row[2], 0).note = row[1] /\ At("embed", row[1], row[2], 0).text = row[2]
      BY <3>2, NotesNumbers, TurnTyped DEF NotePlaces, At
    <3>4. QED
      BY <1>1, <3>1, <3>2, <3>3, ElsewhereSound DEF NotesTyped
  <2>2. CASE goes(w, AtRest("done")) /\ UNCHANGED swept
    BY <1>1, <1>2, <2>2, ElsewhereSound DEF NotesTyped
  <2>3. QED
    BY <1>4, <2>1, <2>2 DEF SweepNext
<1>5. QED
  BY <1>3, <1>4

LEMMA CapturesSound ==
  ASSUME NotesInductive, NEW c \in Captures,
         captureMemory(c) \/ CaptureOn(c) \/ Extract(c) \/ CaptureNext(c) \/ CaptureSave(c)
  PROVE  NotesInductive'
<1>1. c \in NoteWriters /\ NotesTyped /\ TurnsSound /\ SlotsHeld
  BY DEF NoteWriters, NotesInductive
<1>2. \A at \in NotePlaces : AtRest(at) \in NoteTurns /\ AtRest(at).pc = at
  BY RestTyped
<1>3. CASE captureMemory(c)
  <2>1. UNCHANGED <<notes, chunked, overtaken, swept, toSave>> /\ writer[c].pc = "idle"
    BY <1>3 DEF captureMemory
  <2>2. CASE inflight < CaptureSlots /\ inflight' = inflight + 1 /\ goes(c, AtRest("settings"))
    BY <1>1, <1>2, <2>1, <2>2, ElsewhereSound DEF NotesTyped, NotePlaces
  <2>3. CASE goes(c, AtRest("done")) /\ UNCHANGED inflight
    BY <1>1, <1>2, <2>1, <2>3, ElsewhereSound DEF NotesTyped, NotePlaces
  <2>4. QED
    BY <1>3, <2>2, <2>3 DEF captureMemory
<1>4. CASE CaptureOn(c)
  <2>1. UNCHANGED <<notes, chunked, overtaken, swept, toSave>> /\ writer[c].pc = "settings"
    BY <1>4 DEF CaptureOn
  <2>2. CASE goes(c, AtRest("extract")) /\ UNCHANGED inflight
    BY <1>1, <1>2, <2>1, <2>2, ElsewhereSound DEF NotesTyped, NotePlaces
  <2>3. CASE CaptureEnds(c)
    BY <1>1, <2>1, <2>3, EndsSound DEF NotesTyped
  <2>4. QED
    BY <1>4, <2>2, <2>3 DEF CaptureOn
<1>5. CASE Extract(c)
  <2>1. UNCHANGED <<notes, chunked, overtaken, swept>> /\ writer[c].pc = "extract"
    BY <1>5 DEF Extract
  <2>2. CASE CaptureEnds(c) /\ UNCHANGED toSave
    BY <1>1, <2>1, <2>2, EndsSound DEF NotesTyped
  <2>3. CASE /\ \E items \in SUBSET NoteBodies : toSave' = [toSave EXCEPT ![c] = items]
             /\ goes(c, AtRest("next")) /\ UNCHANGED inflight
    <3>1. toSave' \in [Captures -> SUBSET NoteBodies]
      BY <1>1, <2>3 DEF NotesTyped
    <3>2. QED
      BY <1>1, <1>2, <2>1, <2>3, <3>1, ElsewhereSound DEF NotesTyped, NotePlaces
  <2>4. QED
    BY <1>5, <2>2, <2>3 DEF Extract
<1>6. CASE CaptureNext(c)
  <2>1. UNCHANGED <<notes, chunked, overtaken, swept>> /\ writer[c].pc = "next"
    BY <1>6 DEF CaptureNext
  <2>2. CASE CaptureEnds(c) /\ toSave' = [toSave EXCEPT ![c] = {}]
    BY <1>1, <2>1, <2>2, EndsSound DEF NotesTyped
  <2>3. ASSUME NEW text \in toSave[c], toSave' = [toSave EXCEPT ![c] = @ \ {text}],
               (IF \E n \in NoteIds : notes[n].there /\ ~notes[n].deleted /\ notes[n].text = text
                THEN UNCHANGED writer ELSE goes(c, At("save", NoText, text, 0))),
               UNCHANGED inflight
        PROVE  NotesInductive'
    <3>1. text \in NoteBodies /\ toSave' \in [Captures -> SUBSET NoteBodies]
      BY <1>1, <2>3 DEF NotesTyped
    <3>2. CASE UNCHANGED writer
      <4>1. writer[c] \in NoteTurns /\ goes(c, writer[c])
        BY <1>1, <3>2 DEF NotesTyped, goes
      <4>2. QED
        BY <1>1, <2>1, <2>3, <3>1, <4>1, ElsewhereSound DEF NotesTyped
    <3>3. CASE goes(c, At("save", NoText, text, 0))
      <4>1. /\ At("save", NoText, text, 0) \in NoteTurns /\ At("save", NoText, text, 0).pc = "save"
            /\ At("save", NoText, text, 0).text = text
        BY <3>1, NotesNumbers, TurnTyped DEF NotePlaces, At
      <4>2. QED
        BY <1>1, <2>1, <2>3, <3>1, <3>3, <4>1, ElsewhereSound DEF NotesTyped
    <3>4. QED
      BY <2>3, <3>2, <3>3
  <2>4. QED
    BY <1>6, <2>2, <2>3 DEF CaptureNext
<1>7. CASE CaptureSave(c)
  <2>1. UNCHANGED <<chunked, overtaken, swept>> /\ writer[c].pc = "save" /\ writer[c].text \in NoteBodies
    BY <1>1, <1>7 DEF CaptureSave, TurnsSound
  <2>2. CASE Inserted(c, writer[c].text) /\ UNCHANGED <<inflight, toSave>>
    BY <1>1, <2>1, <2>2, InsertedSound DEF NotesTyped
  <2>3. CASE CaptureEnds(c) /\ toSave' = [toSave EXCEPT ![c] = {}] /\ UNCHANGED notes
    BY <1>1, <2>1, <2>3, EndsSound DEF NotesTyped
  <2>4. QED
    BY <1>7, <2>2, <2>3 DEF CaptureSave
<1>8. QED
  BY <1>3, <1>4, <1>5, <1>6, <1>7

LEMMA NotesStart == NotesInit => NotesInductive
<1> SUFFICES ASSUME NotesInit PROVE NotesInductive
  OBVIOUS
<1>1. AtRest("idle") \in NoteTurns /\ AtRest("idle").pc = "idle" /\ NoNote \in NoteRows
  BY NotesNumbers, RestTyped DEF NotePlaces, NoNote, NoteRows
<1>2. NotesTyped
  BY <1>1 DEF NotesInit, NotesTyped, NoNote
<1>3. \A w \in NoteWriters : writer[w].pc = "idle"
  BY <1>1 DEF NotesInit
<1>4. TurnsSound
  BY <1>3 DEF TurnsSound
<1>5. DeletedGone /\ IndexHonest
  BY DEF NotesInit, NoNote, DeletedGone, IndexHonest
<1>6. SlotsHeld
  <2>1. Holding = {} /\ inflight = 0
    BY <1>3 DEF Holding, NoteWriters, NotesInit
  <2>2. QED
    BY <2>1, NotesNumbers, FS_EmptySet DEF SlotsHeld, Holding
<1>7. QED
  BY <1>2, <1>4, <1>5, <1>6 DEF NotesInductive

\* A deleted note leaves the index and does not come back, a note shown as indexed is found by its present
\* text unless it was changed between its chunks and its flag, and no capture keeps its slot
\* (services/notes.ts, services/memory-capture.ts).
THEOREM NotesHold == NotesSpec => []NotesInv
<1>1. NotesInductive /\ [NotesNext]_notesVars => NotesInductive'
  <2> SUFFICES ASSUME NotesInductive, [NotesNext]_notesVars PROVE NotesInductive'
    OBVIOUS
  <2>1. CASE UNCHANGED notesVars
    BY <2>1 DEF notesVars, NotesInductive, NotesTyped, TurnsSound, DeletedGone, IndexHonest, SlotsHeld
  <2>2. CASE NotesNext
    BY <2>2, EditorsSound, IndexersSound, SweepsSound, CapturesSound DEF NotesNext
  <2>3. QED
    BY <2>1, <2>2
<1>2. NotesInductive => NotesInv
  BY DEF NotesInductive, NotesTyped, NoteTurns, NotePlaces, NotesInv, NotesTypeOK
<1>3. QED
  BY <1>1, <1>2, NotesStart, PTL DEF NotesSpec

-----------------------------------------------------------------------------
(* Projects *)

ProjectsSpec == ProjectsInit /\ [][ProjectsNext]_projectVars

Deletable == ToSet(DeleteOrder)

LEMMA DeletedTables ==
  /\ DOMAIN DeleteOrder = 1..12
  /\ Deletable = {"commentLink", "comment", "event", "noteEvent", "link", "run", "usage", "chunk", "note", "ticket",
                  "setting", "project"}
<1>1. DOMAIN DeleteOrder = 1..12
  BY DEF DeleteOrder
<1>2. /\ DeleteOrder[1] = "commentLink" /\ DeleteOrder[2] = "comment" /\ DeleteOrder[3] = "event"
      /\ DeleteOrder[4] = "noteEvent" /\ DeleteOrder[5] = "link" /\ DeleteOrder[6] = "run"
      /\ DeleteOrder[7] = "usage" /\ DeleteOrder[8] = "chunk" /\ DeleteOrder[9] = "note"
      /\ DeleteOrder[10] = "ticket" /\ DeleteOrder[11] = "setting" /\ DeleteOrder[12] = "project"
  BY DEF DeleteOrder
<1>3. \A i \in 1..12 : i \in {1, 2, 3, 4, 5, 6, 7, 8, 9, 10, 11, 12}
  OBVIOUS
<1>4. Deletable = {DeleteOrder[i] : i \in 1..12}
  BY <1>1 DEF Deletable, ToSet
<1> HIDE DEF Deletable
<1>5. \A t \in Deletable : t \in {"commentLink", "comment", "event", "noteEvent", "link", "run", "usage", "chunk", "note",
                                  "ticket", "setting", "project"}
  BY <1>2, <1>3, <1>4
<1>6. /\ "commentLink" \in Deletable /\ "comment" \in Deletable /\ "event" \in Deletable /\ "noteEvent" \in Deletable
      /\ "link" \in Deletable /\ "run" \in Deletable /\ "usage" \in Deletable /\ "chunk" \in Deletable
      /\ "note" \in Deletable /\ "ticket" \in Deletable /\ "setting" \in Deletable /\ "project" \in Deletable
  BY <1>2, <1>4
<1>7. QED
  BY <1>1, <1>5, <1>6

\* What refers to a table goes before it, but for chat sessions, which nothing deletes.
LEMMA ReferrersFirst ==
  ASSUME NEW i \in DOMAIN DeleteOrder, NEW r \in References, r[2] = DeleteOrder[i], r[1] # "chat"
  PROVE  r[1] \in DeletedBefore(i)
<1>1. i \in 1..12
  BY DeletedTables
<1>2. /\ DeleteOrder[1] = "commentLink" /\ DeleteOrder[2] = "comment" /\ DeleteOrder[3] = "event"
      /\ DeleteOrder[4] = "noteEvent" /\ DeleteOrder[5] = "link" /\ DeleteOrder[6] = "run"
      /\ DeleteOrder[7] = "usage" /\ DeleteOrder[8] = "chunk" /\ DeleteOrder[9] = "note"
      /\ DeleteOrder[10] = "ticket" /\ DeleteOrder[11] = "setting" /\ DeleteOrder[12] = "project"
  BY DEF DeleteOrder
<1>3. \/ r[1] = DeleteOrder[10] /\ r[2] = "project"
      \/ r[1] = DeleteOrder[11] /\ r[2] = "project"
      \/ r[1] = DeleteOrder[2] /\ r[2] = "ticket"
      \/ r[1] = DeleteOrder[3] /\ r[2] = "ticket"
      \/ r[1] = DeleteOrder[5] /\ r[2] = "ticket"
      \/ r[1] = DeleteOrder[1] /\ r[2] = "comment"
      \/ r[1] = DeleteOrder[4] /\ r[2] = "note"
  BY <1>2 DEF References
<1>4. i \in {1, 2, 3, 4, 5, 6, 7, 8, 9, 10, 11, 12}
  BY <1>1
<1>5. /\ r[2] = "project" => i = 12
      /\ r[2] = "ticket" => i = 10
      /\ r[2] = "comment" => i = 2
      /\ r[2] = "note" => i = 9
  BY <1>2, <1>4
<1>6. \E k \in 1..(i - 1) : r[1] = DeleteOrder[k]
  BY <1>3, <1>5
<1>7. QED
  BY <1>6 DEF DeletedBefore

LEMMA OnlyChatsRefuse ==
  ASSUME NEW tables, tables \subseteq Deletable \cup {"chat"}, "project" \in tables
  PROVE  DeleteRefused(tables) <=> "chat" \in tables
<1>1. ASSUME DeleteRefused(tables), "chat" \notin tables PROVE FALSE
  <2>1. PICK i \in DOMAIN DeleteOrder, r \in References :
          r[2] = DeleteOrder[i] /\ r[1] \in tables \ DeletedBefore(i)
    BY <1>1 DEF DeleteRefused
  <2>2. QED
    BY <1>1, <2>1, ReferrersFirst
<1>2. ASSUME "chat" \in tables PROVE DeleteRefused(tables)
  <2>1. 12 \in DOMAIN DeleteOrder /\ DeleteOrder[12] = "project"
    BY DEF DeleteOrder
  <2>2. "chat" \notin DeletedBefore(12)
    <3>1. \A j \in 1..11 : DeleteOrder[j] \in Deletable
      BY DeletedTables DEF Deletable, ToSet
    <3>2. "chat" \notin Deletable
      BY DeletedTables
    <3>3. QED
      BY <3>1, <3>2 DEF DeletedBefore
  <2>3. PICK r \in References : r = <<"chat", "project">>
    BY DEF References
  <2>4. r[1] = "chat" /\ r[2] = "project"
    BY <2>3
  <2>5. QED
    BY <1>2, <2>1, <2>2, <2>4 DEF DeleteRefused
<1>3. QED
  BY <1>1, <1>2

BareTables == {"note", "run", "usage", "chunk"}

BoardTyped ==
  /\ boardRows \in [BoardProjects -> SUBSET (Deletable \cup {"chat"})]
  /\ deletion \in [BoardProjects -> {"none", "asked", "failed", "done"}]
  /\ DOMAIN lateWrites = LateWriters
  /\ \A w \in LateWriters : lateWrites[w] # "none" => lateWrites[w] \in BoardProjects /\ w \in BareTables

\* A project is there until its deletion is done; then nothing of it is but what was written behind its back.
ProjectSound(p) ==
  /\ deletion[p] # "done" => "project" \in boardRows[p]
  /\ deletion[p] = "asked" /\ p \notin stray => p \notin running
  /\ deletion[p] = "done" /\ p \notin stray => boardRows[p] = {} /\ p \notin running
  /\ deletion[p] = "failed" => "chat" \in boardRows[p]

BoardSound == BoardTyped /\ \A p \in BoardProjects : ProjectSound(p)

LEMMA BoardStarts == ProjectsInit => BoardSound
BY DeletedTables DEF ProjectsInit, BoardSound, BoardTyped, ProjectSound

LEMMA TablesKnown ==
  /\ \A r \in References \cup BareIds : r[1] \in Deletable \cup {"chat"} /\ r[1] # "project"
  /\ \A r \in BareIds : r[1] \in BareTables
  /\ BareTables \subseteq Deletable
<1>1. \A r \in References : r[1] \in {"ticket", "setting", "chat", "comment", "event", "link", "commentLink", "noteEvent"}
  BY DEF References
<1>2. \A r \in BareIds : r[1] \in BareTables
  BY DEF BareIds, BareTables
<1>3. QED
  BY <1>1, <1>2, DeletedTables DEF BareTables

\* A step on one project says nothing of another.
LEMMA ProjectStep ==
  ASSUME BoardSound, BoardTyped', NEW p \in BoardProjects, ProjectSound(p)',
         \A q \in BoardProjects \ {p} :
           /\ boardRows'[q] = boardRows[q] /\ deletion'[q] = deletion[q]
           /\ (q \in running <=> q \in running') /\ (q \in stray <=> q \in stray')
  PROVE  BoardSound'
BY DEF BoardSound, ProjectSound

LEMMA RowsStep ==
  ASSUME BoardSound, NEW p \in BoardProjects, NEW t \in BoardTables, WriteRow(p, t)
  PROVE  BoardSound'
<1>1. /\ boardRows' = [boardRows EXCEPT ![p] = @ \cup {t}] /\ UNCHANGED <<running, deletion, lateWrites, stray>>
      /\ boardRows[p] # {} /\ BoardTyped /\ ProjectSound(p)
  BY DEF WriteRow, BoardSound
<1>2. t \in Deletable \cup {"chat"}
  BY TablesKnown DEF BoardTables
<1>3. BoardTyped'
  BY <1>1, <1>2 DEF BoardTyped
<1>4. ProjectSound(p)'
  BY <1>1 DEF ProjectSound, BoardTyped
<1>5. QED
  BY <1>1, <1>3, <1>4, ProjectStep DEF BoardTyped

LEMMA RunsStep ==
  ASSUME BoardSound, NEW p \in BoardProjects, RunStarts(p) \/ RunSettles(p) \/ AskDelete(p)
  PROVE  BoardSound'
<1>1. BoardTyped /\ ProjectSound(p) /\ UNCHANGED <<boardRows, lateWrites>>
  BY DEF RunStarts, RunSettles, AskDelete, BoardSound
<1>2. CASE RunStarts(p)
  <2>1. /\ "ticket" \in boardRows[p] /\ running' = running \cup {p} /\ deletion' = deletion
        /\ stray' = IF deletion[p] = "asked" THEN stray \cup {p} ELSE stray
    BY <1>2 DEF RunStarts
  <2>2. BoardTyped' /\ ProjectSound(p)'
    BY <1>1, <2>1 DEF BoardTyped, ProjectSound
  <2>3. QED
    BY <1>1, <2>1, <2>2, ProjectStep
<1>3. CASE RunSettles(p)
  <2>1. running' = running \ {p} /\ UNCHANGED <<deletion, stray>>
    BY <1>3 DEF RunSettles
  <2>2. BoardTyped' /\ ProjectSound(p)'
    BY <1>1, <2>1 DEF BoardTyped, ProjectSound
  <2>3. QED
    BY <1>1, <2>1, <2>2, ProjectStep
<1>4. CASE AskDelete(p)
  <2>1. /\ "project" \in boardRows[p] /\ p \notin running /\ deletion' = [deletion EXCEPT ![p] = "asked"]
        /\ UNCHANGED <<running, stray>>
    BY <1>4 DEF AskDelete
  <2>2. BoardTyped' /\ ProjectSound(p)'
    BY <1>1, <2>1 DEF BoardTyped, ProjectSound
  <2>3. QED
    BY <1>1, <2>1, <2>2, ProjectStep DEF BoardTyped
<1>5. QED
  BY <1>2, <1>3, <1>4

LEMMA DeletionStep ==
  ASSUME BoardSound, NEW p \in BoardProjects, deleteProject(p)
  PROVE  BoardSound'
<1>1. /\ BoardTyped /\ ProjectSound(p) /\ deletion[p] = "asked" /\ UNCHANGED <<running, lateWrites, stray>>
      /\ boardRows[p] \subseteq Deletable \cup {"chat"}
  BY DEF deleteProject, BoardSound, BoardTyped
<1>2. DeleteRefused(boardRows[p]) <=> "chat" \in boardRows[p]
  BY <1>1, OnlyChatsRefuse DEF ProjectSound
<1>3. CASE DeleteRefused(boardRows[p])
  <2>1. deletion' = [deletion EXCEPT ![p] = "failed"] /\ boardRows' = boardRows
    BY <1>3 DEF deleteProject
  <2>2. BoardTyped' /\ ProjectSound(p)'
    BY <1>1, <1>2, <1>3, <2>1 DEF BoardTyped, ProjectSound
  <2>3. QED
    BY <1>1, <2>1, <2>2, ProjectStep DEF BoardTyped
<1>4. CASE ~DeleteRefused(boardRows[p])
  <2>1. deletion' = [deletion EXCEPT ![p] = "done"] /\ boardRows' = [boardRows EXCEPT ![p] = @ \ Deletable]
    BY <1>4 DEF deleteProject, Deletable
  <2>2. BoardTyped' /\ ProjectSound(p)'
    BY <1>1, <1>2, <1>4, <2>1 DEF BoardTyped, ProjectSound
  <2>3. QED
    BY <1>1, <2>1, <2>2, ProjectStep DEF BoardTyped
<1>5. QED
  BY <1>3, <1>4

LEMMA LateStep ==
  ASSUME BoardSound, NEW w \in LateWriters, LateWrite(w) \/ \E p \in BoardProjects : LateRead(w, p)
  PROVE  BoardSound'
<1>1. BoardTyped
  BY DEF BoardSound
<1>2. CASE LateWrite(w)
  <2>1. PICK p \in BoardProjects : p = lateWrites[w]
    BY <1>1, <1>2 DEF LateWrite, BoardTyped
  <2>2. /\ w \in BareTables /\ lateWrites' = [lateWrites EXCEPT ![w] = "none"]
        /\ boardRows' = [boardRows EXCEPT ![p] = @ \cup {w}]
        /\ stray' = IF deletion[p] = "done" THEN stray \cup {p} ELSE stray
        /\ UNCHANGED <<running, deletion>>
    BY <1>1, <1>2, <2>1 DEF LateWrite, BoardTyped
  <2>3. w \in Deletable
    BY <2>2, TablesKnown
  <2>4. BoardTyped'
    BY <1>1, <2>2, <2>3 DEF BoardTyped
  <2>5. ProjectSound(p)'
    BY <1>1, <2>2 DEF BoardSound, BoardTyped, ProjectSound
  <2>6. QED
    BY <1>1, <2>2, <2>4, <2>5, ProjectStep DEF BoardTyped
<1>3. CASE \E p \in BoardProjects : LateRead(w, p)
  <2>1. PICK p \in BoardProjects : LateRead(w, p)
    BY <1>3
  <2>2. /\ lateWrites' = [lateWrites EXCEPT ![w] = p] /\ w \in BareTables
        /\ UNCHANGED <<boardRows, running, deletion, stray>>
    BY <2>1, TablesKnown DEF LateRead
  <2>3. BoardTyped'
    BY <1>1, <2>2 DEF BoardTyped
  <2>4. QED
    BY <2>2, <2>3 DEF BoardSound, ProjectSound
<1>4. QED
  BY <1>2, <1>3

-----------------------------------------------------------------------------
(* Imports *)

\* Of as many numbers as there are keys and one more, one makes a key that is free.
LEMMA KeyIsFree ==
  ASSUME NEW base, NEW keys, IsFiniteSet(keys)
  PROVE  FreeKey(base, keys) \notin keys /\ \E n \in Nat : FreeKey(base, keys) = <<base, n>>
<1> DEFINE c == Cardinality(keys)
           T == {n \in 1..(c + 1) : <<base, n>> \notin keys}
<1>1. c \in Nat
  BY FS_CardinalityType
<1>2. T # {}
  <2> SUFFICES ASSUME \A n \in 1..(c + 1) : <<base, n>> \in keys PROVE FALSE
    OBVIOUS
  <2> DEFINE f == [n \in 1..(c + 1) |-> <<base, n>>]
  <2>1. f \in Injection(1..(c + 1), keys)
    BY DEF Injection, IsInjective
  <2>2. Cardinality(1..(c + 1)) <= c
    <3> HIDE DEF f
    <3>1. QED
      BY <2>1, FS_Injection
  <2>3. Cardinality(1..(c + 1)) = c + 1
    BY <1>1, FS_Interval
  <2>4. QED
    BY <1>1, <2>2, <2>3
<1>3. T \subseteq Nat
  BY <1>1
<1>4. PICK m \in T : \A n \in T : m <= n
  <2> HIDE DEF T
  <2>1. QED
    BY <1>2, <1>3, HasLeast
<1>5. \A n \in 1..(m - 1) : <<base, n>> \in keys
  BY <1>1, <1>4
<1>6. \E k \in {<<base, n>> : n \in 1..(c + 1)} : k \notin keys /\ \A n \in 1..(k[2] - 1) : <<base, n>> \in keys
  <2>1. <<base, m>> \in {<<base, n>> : n \in 1..(c + 1)} /\ <<base, m>> \notin keys /\ <<base, m>>[2] = m
    BY <1>4
  <2>2. QED
    BY <1>5, <2>1
<1>7. /\ FreeKey(base, keys) \notin keys
      /\ FreeKey(base, keys) \in {<<base, n>> : n \in 1..(c + 1)}
  BY <1>6 DEF FreeKey
<1>8. QED
  BY <1>1, <1>7

LEMMA KeysFinite ==
  ASSUME IsFiniteSet(imported)
  PROVE  IsFiniteSet({q.key : q \in imported})
<1> DEFINE f == [q \in imported |-> q.key]
<1>1. f \in Surjection(imported, {q.key : q \in imported})
  BY DEF Surjection
<1>2. QED
  BY <1>1, FS_Surjection

ImportBases == UNION {{it.base : it \in ToSet(Items(i))} : i \in DOMAIN Imports}
ImportPaths == UNION {{it.path : it \in ToSet(Items(i))} : i \in DOMAIN Imports}
ImportKeys == ImportBases \X Nat

ImportTyped ==
  /\ IsFiniteSet(imported) /\ imported \subseteq [key : ImportKeys, path : ImportPaths, by : DOMAIN Imports]
  /\ importing \in [DOMAIN Imports -> [at : {"idle", "items", "made", "failed"}, keys : SUBSET ImportKeys,
                                       paths : SUBSET ImportPaths, next : Nat \ {0}]]

ImportFails(i) == ~({it.path : it \in ToSet(Items(i))} \subseteq Folders) \/ \E q \in imported : q.by # i

\* What an import knows: its own projects are among the keys and folders it holds, each of its folders has a
\* project, and so has each item it has passed.
ImportSound(i) ==
  LET m == importing[i] IN
  /\ IsFiniteSet(m.keys)
  /\ m.at = "idle" => \A q \in imported : q.by # i
  /\ m.at # "idle" =>
       /\ \A q \in imported : q.by = i => q.key \in m.keys /\ q.path \in m.paths
       /\ \A d \in m.paths : \E q \in imported : q.path = d
       /\ \A j \in 1..(m.next - 1) : j \in DOMAIN Items(i) => Items(i)[j].path \in m.paths
  /\ m.at = "made" => m.next > Len(Items(i))
  /\ m.at = "failed" => ImportFails(i)

Distinct == \A q, r \in imported : q.key = r.key \/ (q.path = r.path /\ q.by = r.by) => q = r

ImportsSound == ImportTyped /\ Distinct /\ \A i \in DOMAIN Imports : ImportSound(i)

LEMMA ImportsStart == ProjectsInit => ImportsSound
<1> SUFFICES ASSUME ProjectsInit PROVE ImportsSound
  OBVIOUS
<1>1. imported = {} /\ importing = [i \in DOMAIN Imports |-> [at |-> "idle", keys |-> {}, paths |-> {}, next |-> 1]]
  BY DEF ProjectsInit
<1>2. \A i \in DOMAIN Imports : importing[i] = [at |-> "idle", keys |-> {}, paths |-> {}, next |-> 1]
  BY <1>1
<1>3. ImportTyped
  BY <1>1, FS_EmptySet DEF ImportTyped
<1>4. QED
  BY <1>1, <1>2, <1>3, FS_EmptySet DEF ImportsSound, Distinct, ImportSound

LEMMA ImportsGive == ImportsSound => ImportsWhole
<1> SUFFICES ASSUME ImportsSound PROVE ImportsWhole
  OBVIOUS
<1>1. Distinct
  BY DEF ImportsSound
<1>2. ASSUME NEW i \in DOMAIN Imports, importing[i].at = "made", NEW d \in {it.path : it \in ToSet(Items(i))}
      PROVE  \E q \in imported : q.path = d
  <2>1. PICK j \in DOMAIN Items(i) : d = Items(i)[j].path
    BY DEF ToSet
  <2>2. j \in 1..Len(Items(i)) /\ Len(Items(i)) \in Nat
    BY ProjectsAssumption DEF ProjectsAssumption, Items
  <2>3. importing[i].next > Len(Items(i)) /\ importing[i].next \in Nat
    BY <1>2 DEF ImportsSound, ImportSound, ImportTyped
  <2>4. j \in 1..(importing[i].next - 1)
    BY <2>2, <2>3
  <2>5. QED
    BY <1>2, <2>1, <2>4 DEF ImportsSound, ImportSound
<1>3. QED
  BY <1>1, <1>2 DEF ImportsSound, ImportSound, ImportFails, ImportsWhole, Distinct

\* An import that others go by keeps what it knows.
LEMMA ImportKept ==
  ASSUME NEW i \in DOMAIN Imports, ImportSound(i), importing'[i] = importing[i], imported \subseteq imported',
         \A q \in imported' \ imported : q.by # i
  PROVE  ImportSound(i)'
BY DEF ImportSound, ImportFails

LEMMA ImportBegins ==
  ASSUME ImportsSound, NEW i \in DOMAIN Imports, importProjects(i)
  PROVE  ImportsSound'
<1> DEFINE keys == {q.key : q \in imported}
           paths == {q.path : q \in imported}
           begun == [at |-> "items", keys |-> keys, paths |-> paths, next |-> 1]
<1>1. /\ importing[i].at = "idle" /\ importing' = [importing EXCEPT ![i] = begun] /\ imported' = imported
      /\ ImportTyped /\ Distinct /\ ImportSound(i)
  BY DEF importProjects, ImportsSound
<1>2. importing'[i] = begun /\ IsFiniteSet(keys)
  BY <1>1, KeysFinite DEF ImportTyped
<1>3. ImportTyped'
  <2>1. keys \subseteq ImportKeys /\ paths \subseteq ImportPaths
    BY <1>1 DEF ImportTyped
  <2>2. QED
    BY <1>1, <2>1 DEF ImportTyped
<1>4. ImportSound(i)'
  BY <1>1, <1>2 DEF ImportSound
<1>5. ASSUME NEW k \in DOMAIN Imports, k # i PROVE ImportSound(k)'
  BY <1>1, <1>5, ImportKept DEF ImportTyped, ImportsSound
<1>6. QED
  BY <1>1, <1>3, <1>4, <1>5 DEF ImportsSound, Distinct

LEMMA ImportFinished ==
  ASSUME ImportsSound, NEW i \in DOMAIN Imports, ImportEnds(i)
  PROVE  ImportsSound'
<1>1. /\ importing[i].at = "items" /\ importing[i].next > Len(Items(i)) /\ imported' = imported
      /\ importing' = [importing EXCEPT ![i].at = "made"] /\ ImportTyped /\ Distinct /\ ImportSound(i)
  BY DEF ImportEnds, ImportsSound
<1>2. importing'[i] = [at |-> "made", keys |-> importing[i].keys, paths |-> importing[i].paths, next |-> importing[i].next]
  BY <1>1 DEF ImportTyped
<1>3. ImportTyped'
  BY <1>1, <1>2 DEF ImportTyped
<1>4. ImportSound(i)'
  BY <1>1, <1>2 DEF ImportSound
<1>5. ASSUME NEW k \in DOMAIN Imports, k # i PROVE ImportSound(k)'
  BY <1>1, <1>5, ImportKept DEF ImportTyped, ImportsSound
<1>6. QED
  BY <1>1, <1>3, <1>4, <1>5 DEF ImportsSound, Distinct

LEMMA ImportGoesOn ==
  ASSUME ImportsSound, NEW i \in DOMAIN Imports, ImportItem(i)
  PROVE  ImportsSound'
<1>0. importing[i] \in [at : {"idle", "items", "made", "failed"}, keys : SUBSET ImportKeys,
                        paths : SUBSET ImportPaths, next : Nat \ {0}]
  BY DEF ImportsSound, ImportTyped
<1>1. PICK at \in {"idle", "items", "made", "failed"}, keys \in SUBSET ImportKeys, paths \in SUBSET ImportPaths,
           next \in Nat \ {0} :
        importing[i] = [at |-> at, keys |-> keys, paths |-> paths, next |-> next]
  BY <1>0
<1>2. PICK it, key : it = Items(i)[next] /\ key = FreeKey(it.base, keys)
  OBVIOUS
<1>3. /\ at = "items" /\ next <= Len(Items(i)) /\ ImportTyped /\ Distinct /\ ImportSound(i)
      /\ IsFiniteSet(keys) /\ key \notin keys /\ \E n \in Nat : key = <<it.base, n>>
      /\ \A q \in imported : q.by = i => q.key \in keys /\ q.path \in paths
      /\ \A d \in paths : \E q \in imported : q.path = d
      /\ \A j \in 1..(next - 1) : j \in DOMAIN Items(i) => Items(i)[j].path \in paths
  <2>1. at = "items" /\ next <= Len(Items(i)) /\ ImportTyped /\ Distinct /\ ImportSound(i)
    BY <1>1 DEF ImportItem, ImportsSound
  <2>2. IsFiniteSet(keys)
    BY <1>1, <2>1 DEF ImportSound
  <2>3. key \notin keys /\ \E n \in Nat : key = <<it.base, n>>
    BY <1>2, <2>2, KeyIsFree
  <2>4. QED
    BY <1>1, <2>1, <2>2, <2>3 DEF ImportSound
<1>4. next \in DOMAIN Items(i)
  BY <1>1, <1>3, ProjectsAssumption DEF ProjectsAssumption, Items
<1>9. it.base \in ImportBases /\ it.path \in ImportPaths /\ key \in ImportKeys
  <2>1. it \in ToSet(Items(i))
    BY <1>2, <1>4 DEF ToSet
  <2>2. QED
    BY <1>3, <2>1 DEF ImportBases, ImportPaths, ImportKeys
<1>5. CASE it.path \in paths
  <2>1. importing' = [importing EXCEPT ![i].next = @ + 1] /\ imported' = imported
    BY <1>1, <1>2, <1>5 DEF ImportItem
  <2>2. importing'[i] = [at |-> at, keys |-> keys, paths |-> paths, next |-> next + 1]
    BY <1>1, <1>3, <2>1 DEF ImportTyped
  <2>3. ImportTyped'
    BY <1>1, <1>3, <2>1, <2>2 DEF ImportTyped
  <2>4. ImportSound(i)'
    <3>1. \A j \in 1..next : j \in 1..(next - 1) \/ j = next
      BY <1>1
    <3>2. QED
      BY <1>1, <1>2, <1>3, <1>5, <2>1, <2>2, <3>1 DEF ImportSound
  <2>5. ASSUME NEW k \in DOMAIN Imports, k # i PROVE ImportSound(k)'
    BY <1>3, <2>1, <2>5, ImportKept DEF ImportTyped, ImportsSound
  <2>6. QED
    BY <1>3, <2>1, <2>3, <2>4, <2>5 DEF ImportsSound, Distinct
<1>6. CASE it.path \notin paths /\ (it.path \notin Folders \/ \E q \in imported : q.key = key)
  <2>1. importing' = [importing EXCEPT ![i].at = "failed"] /\ imported' = imported
    BY <1>1, <1>2, <1>6 DEF ImportItem
  <2>2. importing'[i] = [at |-> "failed", keys |-> keys, paths |-> paths, next |-> next]
    BY <1>1, <1>3, <2>1 DEF ImportTyped
  <2>3. ImportTyped'
    BY <1>1, <1>3, <2>1, <2>2 DEF ImportTyped
  <2>4. ImportFails(i)
    <3>1. it.path \in {x.path : x \in ToSet(Items(i))}
      BY <1>2, <1>4 DEF ToSet
    <3>2. QED
      BY <1>3, <1>6, <3>1 DEF ImportFails
  <2>5. ImportSound(i)'
    BY <1>1, <1>3, <2>1, <2>2, <2>4 DEF ImportSound, ImportFails
  <2>6. ASSUME NEW k \in DOMAIN Imports, k # i PROVE ImportSound(k)'
    BY <1>3, <2>1, <2>6, ImportKept DEF ImportTyped, ImportsSound
  <2>7. QED
    BY <1>3, <2>1, <2>3, <2>5, <2>6 DEF ImportsSound, Distinct
<1>7. CASE it.path \notin paths /\ ~(it.path \notin Folders \/ \E q \in imported : q.key = key)
  <2> DEFINE made == [key |-> key, path |-> it.path, by |-> i]
  <2>1. /\ imported' = imported \cup {made}
        /\ importing' = [importing EXCEPT ![i] = [at |-> at, keys |-> keys \cup {key}, paths |-> paths \cup {it.path}, next |-> next + 1]]
    <3>1. /\ importing[i].at = at /\ importing[i].keys = keys /\ importing[i].paths = paths /\ importing[i].next = next
          /\ at = "items"
      BY <1>1, <1>3
    <3>2. /\ imported' = imported \cup {[key |-> key, path |-> it.path, by |-> i]}
          /\ importing' = [importing EXCEPT ![i] = [at |-> "items", keys |-> keys \cup {key}, paths |-> paths \cup {it.path}, next |-> next + 1]]
      BY <1>2, <1>7, <3>1, Zenon DEF ImportItem
    <3>3. QED
      BY <3>1, <3>2
  <2>11. PICK m : m = [at |-> at, keys |-> keys \cup {key}, paths |-> paths \cup {it.path}, next |-> next + 1]
    OBVIOUS
  <2>3. importing' = [importing EXCEPT ![i] = m]
    BY <2>1, <2>11
  <2>13. m \in [at : {"idle", "items", "made", "failed"}, keys : SUBSET ImportKeys, paths : SUBSET ImportPaths, next : Nat \ {0}]
    BY <1>1, <1>9, <2>11
  <2>4. IsFiniteSet(imported') /\ IsFiniteSet(keys \cup {key})
    BY <1>3, <2>1, FS_AddElement DEF ImportTyped
  <2>5. made.key = key /\ made.path = it.path /\ made.by = i
    OBVIOUS
  <2> HIDE DEF made
  <2>14. importing'[i] = m
    BY <1>3, <2>3 DEF ImportTyped
  <2>6. ImportTyped'
    <3>1. made \in [key : ImportKeys, path : ImportPaths, by : DOMAIN Imports]
      BY <1>9 DEF made
    <3>2. importing' \in [DOMAIN Imports -> [at : {"idle", "items", "made", "failed"}, keys : SUBSET ImportKeys,
                                             paths : SUBSET ImportPaths, next : Nat \ {0}]]
      BY <1>3, <2>3, <2>13 DEF ImportTyped
    <3>3. QED
      BY <1>3, <2>1, <2>4, <3>1, <3>2 DEF ImportTyped
  <2>2. importing'[i] = [at |-> at, keys |-> keys \cup {key}, paths |-> paths \cup {it.path}, next |-> next + 1]
    BY <2>11, <2>14
  <2>7. Distinct'
    BY <1>3, <1>7, <2>1, <2>5 DEF Distinct
  <2>8. ImportSound(i)'
    <3>1. \A j \in 1..next : j \in 1..(next - 1) \/ j = next
      BY <1>1
    <3>2. \A q \in imported' : q.by = i => q.key \in keys \cup {key} /\ q.path \in paths \cup {it.path}
      BY <1>3, <2>1, <2>5
    <3>3. \A d \in paths \cup {it.path} : \E q \in imported' : q.path = d
      BY <1>3, <2>1, <2>5
    <3>4. \A j \in 1..next : j \in DOMAIN Items(i) => Items(i)[j].path \in paths \cup {it.path}
      BY <1>2, <1>3, <3>1
    <3>5. (next + 1) - 1 = next
      BY <1>1
    <3>6. QED
      BY <1>3, <2>2, <2>4, <3>2, <3>3, <3>4, <3>5 DEF ImportSound
  <2>9. ASSUME NEW k \in DOMAIN Imports, k # i PROVE ImportSound(k)'
    BY <1>3, <2>1, <2>3, <2>5, <2>9, ImportKept DEF ImportTyped, ImportsSound
  <2>10. QED
    BY <2>6, <2>7, <2>8, <2>9 DEF ImportsSound
<1>8. QED
  BY <1>5, <1>6, <1>7

LEMMA ProjectsStep == BoardSound /\ ImportsSound /\ [ProjectsNext]_projectVars => BoardSound' /\ ImportsSound'
<1> SUFFICES ASSUME BoardSound, ImportsSound, [ProjectsNext]_projectVars PROVE BoardSound' /\ ImportsSound'
  OBVIOUS
<1>1. UNCHANGED boardVars => BoardSound'
  BY DEF boardVars, BoardSound, BoardTyped, ProjectSound
<1>2. UNCHANGED <<imported, importing>> => ImportsSound'
  BY DEF ImportsSound, ImportTyped, Distinct, ImportSound, ImportFails
<1>3. CASE UNCHANGED projectVars
  BY <1>1, <1>2, <1>3 DEF projectVars, boardVars
<1>4. CASE ProjectsNext
  <2>1. CASE /\ UNCHANGED <<imported, importing>>
             /\ \/ \E p \in BoardProjects : \/ RunStarts(p) \/ RunSettles(p) \/ AskDelete(p) \/ deleteProject(p)
                                            \/ \E t \in BoardTables : WriteRow(p, t)
                \/ \E w \in LateWriters : LateWrite(w) \/ \E p \in BoardProjects : LateRead(w, p)
    BY <1>2, <2>1, RowsStep, RunsStep, DeletionStep, LateStep
  <2>2. CASE UNCHANGED boardVars /\ \E i \in DOMAIN Imports : importProjects(i) \/ ImportItem(i) \/ ImportEnds(i)
    BY <1>1, <2>2, ImportBegins, ImportGoesOn, ImportFinished
  <2>3. CASE UNCHANGED boardVars /\ UNCHANGED <<imported, importing>>
    BY <1>1, <1>2, <2>3
  <2>4. QED
    BY <1>4, <2>1, <2>2, <2>3 DEF ProjectsNext
<1>5. QED
  BY <1>3, <1>4

\* A deletion leaves nothing of a project and fails only over its chat sessions; keys are distinct and an
\* import ends whole or for a reason: for any number of projects, writers, imports and folders.
THEOREM ProjectsHold == ProjectsSpec => []ProjectsInv
<1>1. BoardSound => DeletedWhole /\ DeletionFails
  BY DEF BoardSound, ProjectSound, DeletedWhole, DeletionFails
<1>2. ProjectsSpec => [](BoardSound /\ ImportsSound)
  BY BoardStarts, ImportsStart, ProjectsStep, PTL DEF ProjectsSpec
<1>3. BoardSound /\ ImportsSound => ProjectsInv
  BY <1>1, ImportsGive DEF ProjectsInv
<1>4. QED
  BY <1>2, <1>3, PTL

\* The nearest project, after each of those that are found.
LEMMA NearestIsBest ==
  ASSUME NEW found \in Seq(HookRows), NEW cwd
  PROVE  LET best == resolveHookProject(found, cwd) IN
           \/ best = <<>> /\ \A k \in DOMAIN found : ~Above(found[k], cwd)
           \/ \E q \in HookRows :
                /\ best = <<q>> /\ \E k \in DOMAIN found : q = found[k]
                /\ Above(q, cwd)
                /\ \A k \in DOMAIN found : Above(found[k], cwd) =>
                     \/ Len(found[k].path) < Len(q.path)
                     \/ Len(found[k].path) = Len(q.path) /\ found[k].created <= q.created
<1> DEFINE N == Len(found)
           next(b, n) == IF Above(found[n], cwd) /\ Better(found[n], b) THEN <<found[n]>> ELSE b
           Bests == {<<>>} \cup {<<q>> : q \in HookRows}
           steps == [x \in Bests \X (1..N) |-> next(x[1], x[2])]
<1>1. N \in Nat /\ DOMAIN found = 1..N /\ \A k \in 1..N : found[k] \in HookRows
  OBVIOUS
<1>2. PICK f : Recursive(f, N, <<>>, steps)
  <2> HIDE DEF steps, N
  <2>1. QED
    BY <1>1, StepByStep
<1>3. f[0] = <<>> /\ \A n \in 1..N : f[n] = steps[<<f[n - 1], n>>]
  <2> HIDE DEF steps, N
  <2>1. QED
    BY <1>2 DEF Recursive
<1>4. \A b \in Bests, n \in 1..N : steps[<<b, n>>] = next(b, n) /\ next(b, n) \in Bests
  <2> SUFFICES ASSUME NEW b \in Bests, NEW n \in 1..N PROVE steps[<<b, n>>] = next(b, n) /\ next(b, n) \in Bests
    OBVIOUS
  <2>1. <<b, n>> \in Bests \X (1..N) /\ <<b, n>>[1] = b /\ <<b, n>>[2] = n
    OBVIOUS
  <2>2. steps[<<b, n>>] = next(b, n)
    <3> HIDE DEF next, Bests, N
    <3>1. QED
      BY <2>1
  <2>3. next(b, n) \in Bests
    BY <1>1
  <2>4. QED
    BY <2>2, <2>3
<1> HIDE DEF steps, Bests, next
<1>5. \A n \in 0..N : f[n] \in Bests
  <2> DEFINE S == {n \in 0..N : f[n] \in Bests}
  <2>1. 0 \in S
    BY <1>1, <1>3 DEF Bests
  <2>2. ASSUME NEW n \in 1..N, n - 1 \in S PROVE n \in S
    <3>1. n \in 0..N /\ f[n - 1] \in Bests
      BY <1>1, <2>2
    <3>2. f[n] \in Bests
      BY <1>3, <1>4, <3>1
    <3>3. QED
      BY <3>1, <3>2
  <2> HIDE DEF S, N
  <2>3. \A n \in 0..N : n \in S
    BY <1>1, <2>1, <2>2, FromZero
  <2>4. QED
    BY <2>3 DEF S
<1>6. \A n \in 1..N : f[n] = next(f[n - 1], n)
  <2>1. \A n \in 1..N : n - 1 \in 0..N
    BY <1>1
  <2>2. QED
    BY <1>3, <1>4, <1>5, <2>1
<1> DEFINE IsBest(g) == g = [n \in 0..N |-> IF n = 0 THEN <<>>
                                            ELSE IF Above(found[n], cwd) /\ Better(found[n], g[n - 1]) THEN <<found[n]>> ELSE g[n - 1]]
           best == CHOOSE g : IsBest(g)
<1>7. IsBest(f)
  <2>1. f = [n \in 0..N |-> f[n]]
    BY <1>2 DEF Recursive
  <2>2. \A n \in 0..N : f[n] = IF n = 0 THEN <<>>
                               ELSE IF Above(found[n], cwd) /\ Better(found[n], f[n - 1]) THEN <<found[n]>> ELSE f[n - 1]
    <3> SUFFICES ASSUME NEW n \in 0..N
                 PROVE  f[n] = IF n = 0 THEN <<>>
                               ELSE IF Above(found[n], cwd) /\ Better(found[n], f[n - 1]) THEN <<found[n]>> ELSE f[n - 1]
      OBVIOUS
    <3>1. n = 0 \/ n \in 1..N
      BY <1>1
    <3>2. QED
      BY <3>1, <1>3, <1>6 DEF next
  <2>3. QED
    BY <2>1, <2>2
<1>8. resolveHookProject(found, cwd) = best[N] /\ IsBest(best)
  <2>1. resolveHookProject(found, cwd) = best[N]
    BY DEF resolveHookProject
  <2> HIDE DEF IsBest
  <2>2. IsBest(best)
    BY <1>7
  <2>3. QED
    BY <2>1, <2>2
<1>9. best[0] = <<>> /\ \A n \in 1..N :
        best[n] = IF Above(found[n], cwd) /\ Better(found[n], best[n - 1]) THEN <<found[n]>> ELSE best[n - 1]
  <2> HIDE DEF best
  <2>1. \A n \in 0..N : best[n] = IF n = 0 THEN <<>>
                                  ELSE IF Above(found[n], cwd) /\ Better(found[n], best[n - 1]) THEN <<found[n]>> ELSE best[n - 1]
    BY <1>8
  <2>2. 0 \in 0..N /\ \A n \in 1..N : n \in 0..N /\ n # 0
    BY <1>1
  <2> HIDE DEF N
  <2>3. QED
    BY <2>1, <2>2
<1> DEFINE at == best
           Yields(q, p) == Len(q.path) < Len(p.path) \/ (Len(q.path) = Len(p.path) /\ q.created <= p.created)
           Nobody(n) == at[n] = <<>> /\ \A k \in 1..n : ~Above(found[k], cwd)
           One(n, q) == /\ at[n] = <<q>> /\ (\E k \in 1..n : q = found[k]) /\ Above(q, cwd)
                        /\ \A k \in 1..n : Above(found[k], cwd) => Yields(found[k], q)
           S == {n \in 0..N : Nobody(n) \/ \E q \in HookRows : One(n, q)}
<1>10. 0 \in S
  <2> HIDE DEF best
  <2>1. 0 \in 0..N /\ 1..0 = {}
    BY <1>1
  <2>2. QED
    BY <1>9, <2>1
<1>11. \A q \in HookRows : Len(q.path) \in Nat /\ q.created \in Nat
  BY ProjectsAssumption DEF ProjectsAssumption
<1>12. ASSUME NEW n \in 1..N, n - 1 \in S PROVE n \in S
  <2>1. n \in 0..N /\ n - 1 \in 0..N /\ 1..n = (1..(n - 1)) \cup {n} /\ n \in 1..n
    BY <1>1
  <2>2. found[n] \in HookRows
    BY <1>1
  <2>3. at[n] = IF Above(found[n], cwd) /\ Better(found[n], at[n - 1]) THEN <<found[n]>> ELSE at[n - 1]
    BY <1>9
  <2> HIDE DEF at, best, N
  <2>4. CASE Nobody(n - 1)
    <3>1. CASE Above(found[n], cwd)
      <4>1. at[n] = <<found[n]>>
        BY <2>3, <2>4, <3>1 DEF Better
      <4>2. Yields(found[n], found[n])
        BY <1>11, <2>2
      <4> HIDE DEF Yields
      <4>3. One(n, found[n])
        BY <4>1, <4>2, <2>1, <2>4, <3>1
      <4> HIDE DEF One
      <4>4. QED
        BY <4>3, <2>1, <2>2
    <3>2. CASE ~Above(found[n], cwd)
      BY <3>2, <2>1, <2>3, <2>4
    <3>3. QED
      BY <3>1, <3>2
  <2>5. ASSUME NEW p \in HookRows, One(n - 1, p) PROVE n \in S
    <3>1. CASE Above(found[n], cwd) /\ Better(found[n], <<p>>)
      <4>1. at[n] = <<found[n]>>
        BY <2>3, <2>5, <3>1
      <4>2. Len(found[n].path) > Len(p.path) \/ (Len(found[n].path) = Len(p.path) /\ found[n].created > p.created)
        BY <3>1 DEF Better
      <4>3. Yields(found[n], found[n]) /\ \A q \in HookRows : Yields(q, p) => Yields(q, found[n])
        BY <1>11, <2>2, <4>2
      <4>4. \A k \in 1..(n - 1) : found[k] \in HookRows
        BY <1>1, <2>1 DEF N
      <4> HIDE DEF Yields
      <4>5. One(n, found[n])
        BY <4>1, <4>3, <4>4, <2>1, <2>5, <3>1
      <4> HIDE DEF One
      <4>6. QED
        BY <4>5, <2>1, <2>2
    <3>2. CASE ~(Above(found[n], cwd) /\ Better(found[n], <<p>>))
      <4>1. at[n] = at[n - 1]
        BY <2>3, <2>5, <3>2
      <4>2. Above(found[n], cwd) => Yields(found[n], p)
        BY <1>11, <2>2, <3>2 DEF Better
      <4> HIDE DEF Yields
      <4>3. One(n, p)
        BY <4>1, <4>2, <2>1, <2>5
      <4> HIDE DEF One
      <4>4. QED
        BY <4>3, <2>1
    <3>3. QED
      BY <3>1, <3>2
  <2>6. QED
    BY <1>12, <2>4, <2>5
<1>13. N \in S
  <2>1. \A n \in 0..N : n \in S
    <3> HIDE DEF S, N
    <3>1. QED
      BY <1>1, <1>10, <1>12, FromZero
  <2>2. N \in 0..N
    BY <1>1
  <2> HIDE DEF S, N
  <2>3. QED
    BY <2>1, <2>2
<1>14. resolveHookProject(found, cwd) = at[N]
  BY <1>8
<1> HIDE DEF at, best
<1>15. QED
  BY <1>1, <1>13, <1>14
\* Of two folders above a third, those that are as deep are one.
LEMMA SameDepth ==
  ASSUME NEW p \in HookRows, NEW q \in HookRows, NEW cwd, Above(p, cwd), Above(q, cwd), Len(p.path) = Len(q.path)
  PROVE  p.path = q.path
<1>1. SubSeq(p.path, 1, Len(p.path)) = SubSeq(q.path, 1, Len(q.path))
  BY DEF Above, IsPrefix
<1>2. p.path \in Seq(ToSet(p.path)) /\ q.path \in Seq(ToSet(q.path))
  BY ProjectsAssumption DEF ProjectsAssumption
<1>3. \A S : \A s \in Seq(S) : SubSeq(s, 1, Len(s)) = s
  OBVIOUS
<1>4. QED
  BY <1>1, <1>2, <1>3

LEMMA SeqOfSeq ==
  ASSUME NEW S, NEW m \in Nat, NEW s \in SeqOf(S, m)
  PROVE  s \in Seq(S) /\ \E n \in 0..m : s \in [1..n -> S]
<1>1. PICK n \in 0..m : s \in [1..n -> S]
  BY DEF SeqOf
<1>2. QED
  BY <1>1

LEMMA HookRight ==
  ASSUME AskHook
  PROVE  ReadsRight'
<1>1. PICK found \in SeqOf(HookRows, HookRowsMax), cwd \in {<<"a">>, <<"a", "b">>, <<"a", "b", "c">>} :
        answered' = [about |-> "hook", found |-> found, cwd |-> cwd, best |-> resolveHookProject(found, cwd)]
  BY DEF AskHook
<1>2. found \in Seq(HookRows)
  <2>1. HookRowsMax \in Nat
    BY ProjectsAssumption DEF ProjectsAssumption
  <2>2. QED
    BY <2>1, SeqOfSeq
<1>3. PICK best : best = resolveHookProject(found, cwd)
  OBVIOUS
<1>4. \/ best = <<>> /\ \A k \in DOMAIN found : ~Above(found[k], cwd)
      \/ \E q \in HookRows :
           /\ best = <<q>> /\ \E k \in DOMAIN found : q = found[k]
           /\ Above(q, cwd)
           /\ \A k \in DOMAIN found : Above(found[k], cwd) =>
                \/ Len(found[k].path) < Len(q.path)
                \/ Len(found[k].path) = Len(q.path) /\ found[k].created <= q.created
  BY <1>2, <1>3, NearestIsBest
<1>5. answered' = [about |-> "hook", found |-> found, cwd |-> cwd, best |-> best]
  BY <1>1, <1>3
<1>6. \A k \in DOMAIN found : found[k] \in HookRows
  BY <1>2
<1>7. /\ best = <<>> <=> ~\E q \in ToSet(found) : Above(q, cwd)
      /\ best # <<>> =>
           \A q \in ToSet(found) : Above(q, cwd) =>
             \/ Len(q.path) < Len(best[1].path)
             \/ q.path = best[1].path /\ q.created <= best[1].created
  <2>1. CASE best = <<>> /\ \A k \in DOMAIN found : ~Above(found[k], cwd)
    BY <2>1 DEF ToSet
  <2>2. ASSUME NEW p \in HookRows,
               best = <<p>>, \E k \in DOMAIN found : p = found[k], Above(p, cwd),
               \A k \in DOMAIN found : Above(found[k], cwd) =>
                 \/ Len(found[k].path) < Len(p.path)
                 \/ Len(found[k].path) = Len(p.path) /\ found[k].created <= p.created
        PROVE  /\ best = <<>> <=> ~\E q \in ToSet(found) : Above(q, cwd)
               /\ best # <<>> =>
                    \A q \in ToSet(found) : Above(q, cwd) =>
                      \/ Len(q.path) < Len(best[1].path)
                      \/ q.path = best[1].path /\ q.created <= best[1].created
    <3>1. best # <<>> /\ best[1] = p
      BY <2>2
    <3>2. \E q \in ToSet(found) : Above(q, cwd)
      BY <2>2 DEF ToSet
    <3>3. ASSUME NEW k \in DOMAIN found, Above(found[k], cwd)
          PROVE  \/ Len(found[k].path) < Len(p.path)
                 \/ found[k].path = p.path /\ found[k].created <= p.created
      BY <1>6, <2>2, <3>3, SameDepth
    <3>4. QED
      BY <3>1, <3>2, <3>3 DEF ToSet
  <2>3. QED
    BY <1>4, <2>1, <2>2
<1>8. QED
  BY <1>5, <1>7 DEF ReadsRight

LEMMA NoSize == SizeOf(<<>>) = 0
<1> DEFINE IsSum(g) == g = [n \in 0..Len(<<>>) |-> IF n = 0 THEN 0 ELSE g[n - 1] + <<>>[n]]
           sum == CHOOSE g : IsSum(g)
           zero == [n \in 0..Len(<<>>) |-> 0]
<1>1. SizeOf(<<>>) = sum[Len(<<>>)]
  BY DEF SizeOf
<1>2. Len(<<>>) = 0 /\ 0..0 = {0}
  OBVIOUS
<1>3. IsSum(zero)
  BY <1>2
<1> HIDE DEF IsSum, zero
<1>4. IsSum(sum)
  BY <1>3
<1> HIDE DEF sum
<1>5. sum[0] = 0
  BY <1>2, <1>4 DEF IsSum
<1>6. QED
  BY <1>1, <1>2, <1>5

LEMMA HasGreatest ==
  ASSUME NEW N \in Nat, NEW S, S \subseteq 0..N, S # {}
  PROVE  Max(S) \in S /\ \A n \in S : n <= Max(S)
<1> DEFINE short == {d \in 0..N : N - d \in S}
<1>1. PICK d \in short : \A e \in short : d <= e
  <2>1. short # {} /\ short \subseteq Nat
    <3>1. PICK n \in S : n \in 0..N
      OBVIOUS
    <3>2. N - n \in 0..N /\ N - (N - n) = n
      BY <3>1
    <3>3. QED
      BY <3>2
  <2> HIDE DEF short
  <2>2. QED
    BY <2>1, HasLeast
<1>2. ASSUME NEW n \in S PROVE N - d >= n
  <2>1. n \in 0..N /\ N - n \in 0..N /\ N - (N - n) = n
    OBVIOUS
  <2>2. d <= N - n
    BY <1>1, <2>1
  <2>3. QED
    BY <2>1, <2>2
<1>3. \E x \in S : \A y \in S : x >= y
  BY <1>2
<1>4. Max(S) \in S /\ \A y \in S : Max(S) >= y
  BY <1>3 DEF Max
<1>5. \A x, y \in Int : x >= y => y <= x
  OBVIOUS
<1>6. QED
  BY <1>4, <1>5

Fits(sections, n) == SizeOf(SubSeq(sections, 1, n)) <= BriefCap

\* A brief ends where it has to, and a primer no earlier.
LEMMA BriefFits ==
  ASSUME NEW m \in Nat, NEW sections \in [1..m -> BriefSizes]
  PROVE  /\ buildBrief(sections) \in 0..m /\ Fits(sections, buildBrief(sections))
         /\ primeLines(sections) > 1 => Fits(sections, primeLines(sections))
         /\ buildBrief(sections) <= primeLines(sections)
<1>1. Len(sections) = m
  OBVIOUS
<1>2. Fits(sections, 0)
  <2>1. SubSeq(sections, 1, 0) = <<>> /\ BriefCap \in Nat
    BY ProjectsAssumption DEF ProjectsAssumption
  <2>2. SizeOf(SubSeq(sections, 1, 0)) = 0
    BY <2>1, NoSize, Zenon
  <2>3. 0 <= BriefCap
    BY <2>1
  <2>4. QED
    BY <2>2, <2>3, Zenon DEF Fits
<1> DEFINE ends(n) == Fits(sections, n) /\ (\A k \in 0..n : Fits(sections, k)) /\ (n = m \/ ~Fits(sections, n + 1))
           over == {n \in 0..m : ~Fits(sections, n)}
<1>3. \E n \in 0..m : ends(n)
  <2>1. CASE over = {}
    BY <2>1
  <2>2. CASE over # {}
    <3>1. PICK n \in over : \A k \in over : n <= k
      <4>1. over \subseteq Nat
        OBVIOUS
      <4> HIDE DEF over
      <4>2. QED
        BY <4>1, <2>2, HasLeast
    <3>2. n # 0 /\ n - 1 \in 0..m /\ n - 1 + 1 = n
      BY <1>2
    <3>3. ASSUME NEW k \in 0..(n - 1) PROVE Fits(sections, k)
      BY <3>1
    <3>4. ends(n - 1)
      BY <3>2, <3>3
    <3> HIDE DEF ends
    <3>5. QED
      BY <3>2, <3>4
  <2>3. QED
    BY <2>1, <2>2
<1>4. buildBrief(sections) = CHOOSE n \in 0..m : ends(n)
  BY <1>1 DEF buildBrief, Fits
<1> HIDE DEF ends
<1>5. buildBrief(sections) \in 0..m /\ ends(buildBrief(sections))
  BY <1>3, <1>4
<1>6. PICK kept \in 0..m : kept = buildBrief(sections) /\ Fits(sections, kept)
  BY <1>5 DEF ends
<1>7. CASE m <= 1
  <2>1. primeLines(sections) = m
    BY <1>1, <1>7 DEF primeLines
  <2>2. QED
    BY <1>6, <1>7, <2>1
<1>8. CASE m > 1
  <2> DEFINE T == {1} \cup {n \in 1..m : Fits(sections, n)}
  <2>1. primeLines(sections) = Max(T)
    BY <1>1, <1>8 DEF primeLines, Fits
  <2>2. T \subseteq 0..m /\ T # {}
    BY <1>8
  <2>3. 1 \in T /\ (kept # 0 => kept \in T) /\ \A n \in T : n # 1 => Fits(sections, n)
    BY <1>6
  <2> HIDE DEF T
  <2>4. Max(T) \in T /\ \A n \in T : n <= Max(T)
    BY <2>2, HasGreatest
  <2>5. Max(T) \in 0..m /\ kept <= Max(T)
    <3>1. PICK top : top = Max(T)
      OBVIOUS
    <3>2. top \in 0..m /\ 1 <= top
      BY <2>2, <2>3, <2>4, <3>1
    <3>3. kept <= top
      BY <2>3, <2>4, <3>1, <3>2
    <3>4. QED
      BY <3>1, <3>2, <3>3
  <2>6. Max(T) > 1 => Fits(sections, Max(T))
    BY <2>3, <2>4, <2>5
  <2>7. QED
    BY <1>6, <2>1, <2>5, <2>6
<1>9. QED
  BY <1>7, <1>8

LEMMA BriefRight ==
  ASSUME AskBrief
  PROVE  ReadsRight'
<1>1. PICK sections \in SeqOf(BriefSizes, SectionsMax) :
        answered' = [about |-> "brief", sections |-> sections, kept |-> buildBrief(sections), primed |-> primeLines(sections)]
  BY DEF AskBrief
<1>2. \E m \in Nat : sections \in [1..m -> BriefSizes]
  <2>1. SectionsMax \in Nat
    BY ProjectsAssumption DEF ProjectsAssumption
  <2>2. QED
    BY <2>1, SeqOfSeq
<1>3. PICK kept, primed : kept = buildBrief(sections) /\ primed = primeLines(sections)
  OBVIOUS
<1>4. Fits(sections, kept) /\ (primed > 1 => Fits(sections, primed)) /\ kept <= primed
  BY <1>2, <1>3, BriefFits
<1>5. answered' = [about |-> "brief", sections |-> sections, kept |-> kept, primed |-> primed]
  BY <1>1, <1>3
<1>6. QED
  BY <1>4, <1>5 DEF ReadsRight, Fits

\* A hook is told the nearest project above its folder and of two the newer, a brief and a primer the longest
\* beginning that fits (api/app.ts, services/export.ts).
THEOREM ReadsHold == ProjectsSpec => []ReadsRight
<1>1. ProjectsInit => ReadsRight
  BY DEF ProjectsInit, ReadsRight
<1>2. ReadsRight /\ [ProjectsNext]_projectVars => ReadsRight'
  <2> SUFFICES ASSUME ReadsRight, [ProjectsNext]_projectVars PROVE ReadsRight'
    OBVIOUS
  <2>1. CASE UNCHANGED answered
    BY <2>1 DEF ReadsRight
  <2>2. CASE AskHook \/ AskBrief
    BY <2>2, HookRight, BriefRight
  <2>3. QED
    BY <2>1, <2>2 DEF ProjectsNext, projectVars
<1>3. QED
  BY <1>1, <1>2, PTL DEF ProjectsSpec

-----------------------------------------------------------------------------
(* Tickets that follow a tracker *)

IssueSyncSpec == IssueSyncInit /\ [][IssueSyncNext]_syncVars

Pulls == {"pull", "update", "touch"}
Entries == [issue : SyncIssues, at : Nat, open : BOOLEAN]
Pushes == [ticket : SyncTickets, open : BOOLEAN]
SyncRuns == [at : {"idle", "pull", "update", "touch", "push", "linking"}, todo : Seq(Entries \cup Pushes),
             seen : Nat \cup SyncIssues, again : BOOLEAN]

SyncTyped ==
  /\ tracker \in [SyncIssues -> [repo : SyncProjects \cup {"none"}, at : Nat, open : BOOLEAN]]
  /\ links \subseteq [issue : SyncIssues, ticket : SyncTickets, at : Nat]
  /\ board \in [SyncTickets -> [project : SyncProjects \cup {"none"}, open : BOOLEAN, version : Nat, shows : Nat]]
  /\ sync \in [SyncProjects -> SyncRuns]
  /\ time \in 0..IssueChanges /\ leapt \in BOOLEAN
  /\ \A i \in SyncIssues : tracker[i].at <= time
  /\ \A l \in links : l.at <= time /\ tracker[l.issue].repo # "none"

\* What a pull has listed: issues of its repository at a change they have passed since, the oldest first.
PullSound(p) ==
  LET s == sync[p].todo IN
  sync[p].at \in Pulls =>
    /\ \A k \in DOMAIN s : /\ s[k] \in Entries
                           /\ 0 < s[k].at /\ s[k].at <= tracker[s[k].issue].at /\ tracker[s[k].issue].repo = p
    /\ \A a, b \in DOMAIN s : a < b => s[a].at < s[b].at
    /\ \A a, b \in DOMAIN s : s[a].issue = s[b].issue => a = b
    /\ sync[p].at # "pull" => s # <<>> /\ LinkOf(s[1].issue) # {}
    /\ sync[p].at = "update" => \A l \in LinkOf(s[1].issue) : l.at < s[1].at
    /\ sync[p].at = "touch" => \A l \in LinkOf(s[1].issue) : board[l.ticket].shows = s[1].at
\* What a push has listed: tickets of its project; an issue that was made for one has no link yet.
PushSound(p) ==
  LET s == sync[p].todo IN
  /\ sync[p].at \in {"push", "linking"} => \A k \in DOMAIN s : s[k] \in Pushes /\ board[s[k].ticket].project = p
  /\ sync[p].at = "linking" => /\ s # <<>> /\ LinksOf(s[1].ticket) = {}
                               /\ sync[p].seen \in SyncIssues /\ tracker[sync[p].seen].repo = p /\ LinkOf(sync[p].seen) = {}

\* What a pull has passed: every change before its first entry is taken or listed, every change between
\* its first entry and its last is listed.
OwnLinks(p) == \A l \in links : tracker[l.issue].repo = p
Taken(i) == \E l \in links : l.issue = i /\ l.at = tracker[i].at
Passing(p) == sync[p].at \in Pulls /\ sync[p].todo # <<>>
Passed(p) ==
  LET s == sync[p].todo IN
  /\ \A l \in links : l.at <= s[1].at
  /\ \A i \in SyncIssues : tracker[i].repo = p /\ 0 < tracker[i].at =>
       /\ tracker[i].at < s[1].at /\ (\A k \in DOMAIN s : s[k].issue # i) => Taken(i)
       /\ s[1].at <= tracker[i].at /\ tracker[i].at <= s[Len(s)].at =>
            \E k \in DOMAIN s : s[k].issue = i /\ s[k].at = tracker[i].at
UpToDate(p) == \A i \in SyncIssues, l \in links : tracker[i].repo = p /\ 0 < tracker[i].at /\ tracker[i].at < l.at => Taken(i)
CaughtUp(p) == ~leapt /\ OwnLinks(p) => (Passing(p) => Passed(p)) /\ (~Passing(p) => UpToDate(p))

SyncInductive == SyncTyped /\ OneToOne /\ LinkNotAhead /\ \A p \in SyncProjects : PullSound(p) /\ PushSound(p) /\ CaughtUp(p)

LEMMA RestOf ==
  ASSUME NEW S, NEW s \in Seq(S), s # <<>>
  PROVE  /\ Tail(s) \in Seq(S) /\ Head(s) = s[1] /\ s[1] \in S /\ 1 \in DOMAIN s /\ Len(s) \in DOMAIN s
         /\ Len(Tail(s)) = Len(s) - 1 /\ DOMAIN s = 1..Len(s) /\ DOMAIN Tail(s) = 1..(Len(s) - 1)
         /\ \A k \in DOMAIN Tail(s) : k + 1 \in DOMAIN s /\ Tail(s)[k] = s[k + 1]
         /\ \A k \in DOMAIN s : k # 1 => k - 1 \in DOMAIN Tail(s) /\ Tail(s)[k - 1] = s[k]
         /\ Len(s) = 1 <=> Tail(s) = <<>>
         /\ Tail(s) # <<>> => /\ Tail(s)[1] = s[2] /\ 2 \in DOMAIN s
                              /\ Tail(s)[Len(Tail(s))] = s[Len(s)] /\ Len(Tail(s)) \in DOMAIN Tail(s)
  <1>1. /\ Len(s) \in Nat /\ Len(s) > 0 /\ Head(s) = s[1] /\ DOMAIN s = 1..Len(s) /\ s \in [1..Len(s) -> S]
    BY LenProperties, EmptySeq
  <1>2. /\ Tail(s) \in Seq(S) /\ Len(Tail(s)) = Len(s) - 1 /\ \A k \in 1..Len(Tail(s)) : Tail(s)[k] = s[k + 1]
    BY HeadTailProperties
  <1>3. DOMAIN Tail(s) = 1..(Len(s) - 1)  BY <1>2, LenProperties
  <1>4. Len(s) = 1 <=> Tail(s) = <<>>
    <2>1. Tail(s) = <<>> => Len(Tail(s)) = 0  BY EmptySeq
    <2>2. Tail(s) # <<>> => Len(Tail(s)) \in Nat \ {0}  BY <1>2, EmptySeq
    <2> QED  BY <2>1, <2>2, <1>1, <1>2
  <1>5. \A k \in DOMAIN Tail(s) : k + 1 \in DOMAIN s /\ Tail(s)[k] = s[k + 1]  BY <1>1, <1>2, <1>3
  <1>6. ASSUME NEW k \in DOMAIN s, k # 1  PROVE k - 1 \in DOMAIN Tail(s) /\ Tail(s)[k - 1] = s[k]
    <2>1. k \in Nat /\ k - 1 \in 1..(Len(s) - 1) /\ (k - 1) + 1 = k  BY <1>1, <1>6
    <2> QED  BY <2>1, <1>3, <1>5
  <1>7. ASSUME Tail(s) # <<>>
        PROVE  Tail(s)[1] = s[2] /\ 2 \in DOMAIN s /\ Tail(s)[Len(Tail(s))] = s[Len(s)] /\ Len(Tail(s)) \in DOMAIN Tail(s)
    <2>1. Len(s) >= 2  BY <1>1, <1>4, <1>7
    <2>2. 1 \in DOMAIN Tail(s) /\ Len(s) - 1 \in DOMAIN Tail(s) /\ 1 + 1 = 2 /\ (Len(s) - 1) + 1 = Len(s)  BY <2>1, <1>1, <1>3
    <2> QED  BY <2>2, <1>5, <1>2
  <1> QED  BY <1>1, <1>2, <1>3, <1>4, <1>5, <1>6, <1>7

LEMMA PullHead ==
  ASSUME SyncTyped, NEW p \in SyncProjects, PullSound(p), sync[p].at \in Pulls, sync[p].todo # <<>>
  PROVE  /\ Ext(p) = sync[p].todo[1] /\ Ext(p) \in Entries /\ 0 < Ext(p).at
         /\ Ext(p).at <= tracker[Ext(p).issue].at /\ tracker[Ext(p).issue].repo = p
  <1>1. sync[p].todo \in Seq(Entries \cup Pushes)  BY DEF SyncTyped, SyncRuns
  <1>2. Ext(p) = sync[p].todo[1] /\ 1 \in DOMAIN sync[p].todo  BY <1>1, RestOf DEF Ext
  <1> QED  BY <1>2 DEF PullSound

LEMMA PushHead ==
  ASSUME SyncTyped, NEW p \in SyncProjects, PushSound(p), sync[p].at \in {"push", "linking"}, sync[p].todo # <<>>
  PROVE  Ext(p) = sync[p].todo[1] /\ Ext(p) \in Pushes /\ board[Ext(p).ticket].project = p
  <1>1. sync[p].todo \in Seq(Entries \cup Pushes)  BY DEF SyncTyped, SyncRuns
  <1>2. Ext(p) = sync[p].todo[1] /\ 1 \in DOMAIN sync[p].todo  BY <1>1, RestOf DEF Ext
  <1> QED  BY <1>2 DEF PushSound

\* What a run of p, or a person on p's board, may do to the three tables.
Moves(p) ==
  /\ \A i \in SyncIssues : /\ tracker'[i].at >= tracker[i].at
                           /\ tracker[i].repo # "none" => tracker'[i].repo = tracker[i].repo
                           /\ tracker'[i] # tracker[i] => tracker'[i].at > time
  /\ \A t \in SyncTickets : /\ board[t].project # "none" => board'[t].project = board[t].project
                            /\ board[t].project \notin {"none", p} => board'[t].shows = board[t].shows
  /\ \A l \in links : \E m \in links' : m.issue = l.issue /\ m.ticket = l.ticket
  /\ \A l \in links' : tracker'[l.issue].repo # p => l \in links
  /\ \A l \in links : tracker[l.issue].repo # p => l \in links'
  /\ \A q \in SyncProjects \ {p} : sync'[q] = sync[q]
  /\ leapt => leapt'

LEMMA OthersSound ==
  ASSUME SyncTyped, SyncTyped', OneToOne, OneToOne', NEW p \in SyncProjects, Moves(p),
         NEW q \in SyncProjects, q # p, PullSound(q), PushSound(q)
  PROVE  PullSound(q)' /\ PushSound(q)'
  <1> DEFINE s == sync[q].todo
  <1>1. sync'[q] = sync[q]  BY DEF Moves
  <1>2. ASSUME NEW l \in links', tracker[l.issue].repo = q  PROVE l \in links
    <2>1. l.issue \in SyncIssues  BY DEF SyncTyped
    <2>2. tracker'[l.issue].repo = q  BY <1>2, <2>1, IssueSyncAssumption DEF Moves, IssueSyncAssumption
    <2> QED  BY <2>2 DEF Moves
  <1>3. ASSUME sync[q].at \in Pulls, NEW k \in DOMAIN s
        PROVE  /\ s[k] \in Entries
               /\ 0 < s[k].at /\ s[k].at <= tracker'[s[k].issue].at /\ tracker'[s[k].issue].repo = q
    <2>1. s[k] \in Entries /\ 0 < s[k].at /\ s[k].at <= tracker[s[k].issue].at /\ tracker[s[k].issue].repo = q
      BY <1>3 DEF PullSound
    <2>2. s[k].issue \in SyncIssues /\ s[k].at \in Nat  BY <2>1 DEF Entries
    <2>3. tracker[s[k].issue].at \in Nat /\ tracker'[s[k].issue].at \in Nat  BY <2>2 DEF SyncTyped
    <2>4. tracker'[s[k].issue].at >= tracker[s[k].issue].at /\ tracker'[s[k].issue].repo = q
      BY <2>1, <2>2, IssueSyncAssumption DEF Moves, IssueSyncAssumption
    <2> QED  BY <2>1, <2>2, <2>3, <2>4
  <1>4. ASSUME sync[q].at \in Pulls, sync[q].at # "pull"
        PROVE  /\ s # <<>> /\ LinkOf(s[1].issue)' # {} /\ 1 \in DOMAIN s
               /\ \A l \in links' : l.issue = s[1].issue => l \in links
    <2>1. s # <<>> /\ LinkOf(s[1].issue) # {}  BY <1>4 DEF PullSound
    <2>2. 1 \in DOMAIN s  BY <2>1, RestOf DEF SyncTyped, SyncRuns
    <2>3. tracker[s[1].issue].repo = q  BY <1>4, <2>2 DEF PullSound
    <2>4. \A l \in links' : l.issue = s[1].issue => l \in links  BY <2>3, <1>2
    <2>5. PICK l \in links : l.issue = s[1].issue  BY <2>1 DEF LinkOf
    <2>6. \E m \in links' : m.issue = s[1].issue  BY <2>5 DEF Moves
    <2>7. LinkOf(s[1].issue)' # {}  BY <2>6, <1>1 DEF LinkOf
    <2> QED  BY <2>1, <2>2, <2>4, <2>7
  <1>5. ASSUME sync[q].at = "update"  PROVE \A l \in links' : l.issue = s[1].issue => l.at < s[1].at
    <2>1. \A l \in links : l.issue = s[1].issue => l.at < s[1].at  BY <1>5 DEF PullSound, Pulls, LinkOf
    <2> QED  BY <2>1, <1>4, <1>5 DEF Pulls
  <1>6. ASSUME sync[q].at = "touch"  PROVE \A l \in links' : l.issue = s[1].issue => board'[l.ticket].shows = s[1].at
    <2> SUFFICES ASSUME NEW l \in links', l.issue = s[1].issue  PROVE board'[l.ticket].shows = s[1].at
      OBVIOUS
    <2>1. l \in links /\ 1 \in DOMAIN s  BY <1>4, <1>6 DEF Pulls
    <2>2. board[l.ticket].shows = s[1].at /\ tracker[s[1].issue].repo = q  BY <2>1, <1>6 DEF PullSound, Pulls, LinkOf
    <2>3. board[l.ticket].project = q /\ l.ticket \in SyncTickets  BY <2>1, <2>2 DEF OneToOne, SyncTyped
    <2>4. q # "none"  BY IssueSyncAssumption DEF IssueSyncAssumption
    <2> QED  BY <2>2, <2>3, <2>4 DEF Moves
  <1>7. PullSound(q)'
    <2> USE <1>1
    <2>1. sync[q].at \in Pulls => \A a, b \in DOMAIN s : (a < b => s[a].at < s[b].at) /\ (s[a].issue = s[b].issue => a = b)
      BY DEF PullSound
    <2>2. sync[q].at = "update" => \A l \in LinkOf(s[1].issue)' : l.at < s[1].at  BY <1>5 DEF LinkOf
    <2>3. sync[q].at = "touch" => \A l \in LinkOf(s[1].issue)' : board'[l.ticket].shows = s[1].at  BY <1>6 DEF LinkOf
    <2> QED  BY <2>1, <2>2, <2>3, <1>3, <1>4 DEF PullSound, Pulls
  <1>8. ASSUME sync[q].at \in {"push", "linking"}, NEW k \in DOMAIN s
        PROVE  s[k] \in Pushes /\ board'[s[k].ticket].project = q
    <2>1. s[k] \in Pushes /\ board[s[k].ticket].project = q  BY <1>8 DEF PushSound
    <2>2. s[k].ticket \in SyncTickets  BY <2>1 DEF Pushes
    <2> QED  BY <2>1, <2>2, IssueSyncAssumption DEF Moves, IssueSyncAssumption
  <1>9. ASSUME sync[q].at = "linking"
        PROVE  /\ s # <<>> /\ LinksOf(s[1].ticket)' = {}
               /\ sync[q].seen \in SyncIssues /\ tracker'[sync[q].seen].repo = q /\ LinkOf(sync[q].seen)' = {}
    <2>1. /\ s # <<>> /\ LinksOf(s[1].ticket) = {}
          /\ sync[q].seen \in SyncIssues /\ tracker[sync[q].seen].repo = q /\ LinkOf(sync[q].seen) = {}
      BY <1>9 DEF PushSound
    <2>2. 1 \in DOMAIN s  BY <2>1, RestOf DEF SyncTyped, SyncRuns
    <2>3. board'[s[1].ticket].project = q  BY <2>2, <1>8, <1>9
    <2>4. tracker'[sync[q].seen].repo = q  BY <2>1, IssueSyncAssumption DEF Moves, IssueSyncAssumption
    <2>5. ASSUME NEW l \in links', l.ticket = s[1].ticket  PROVE FALSE
      <3>1. tracker'[l.issue].repo = q  BY <2>3, <2>5 DEF OneToOne
      <3>2. l \in links  BY <3>1 DEF Moves
      <3> QED  BY <3>2, <2>1, <2>5 DEF LinksOf
    <2>6. ASSUME NEW l \in links', l.issue = sync[q].seen  PROVE FALSE
      <3>1. l \in links  BY <2>6, <2>1, <1>2
      <3> QED  BY <3>1, <2>1, <2>6 DEF LinkOf
    <2>7. LinksOf(s[1].ticket)' = {}  BY <2>5, <1>1 DEF LinksOf
    <2>8. LinkOf(sync[q].seen)' = {}  BY <2>6, <1>1 DEF LinkOf
    <2> QED  BY <2>1, <2>4, <2>7, <2>8
  <1>10. PushSound(q)'  BY <1>1, <1>8, <1>9 DEF PushSound
  <1> QED  BY <1>7, <1>10

\* Whoever changed an issue, its new change is newer than all that was taken or listed.
LEMMA NewChangeIsNewer ==
  ASSUME SyncTyped, SyncTyped', NEW p \in SyncProjects, PullSound(p), CaughtUp(p), links' = links, leapt => leapt',
         \A i \in SyncIssues : /\ tracker[i].repo # "none" => tracker'[i].repo = tracker[i].repo
                               /\ tracker'[i] # tracker[i] => tracker'[i].at > time,
         \/ Passing(p) /\ Passing(p)' /\ sync'[p].todo = sync[p].todo
         \/ ~Passing(p) /\ ~Passing(p)'
  PROVE  CaughtUp(p)'
  <1> DEFINE s == sync[p].todo
  <1> SUFFICES ASSUME ~leapt', OwnLinks(p)'  PROVE (Passing(p)' => Passed(p)') /\ (~Passing(p)' => UpToDate(p)')
    BY DEF CaughtUp
  <1>1. \A l \in links : l.issue \in SyncIssues /\ l.at \in Nat /\ l.at <= time /\ tracker'[l.issue].repo = tracker[l.issue].repo
    BY DEF SyncTyped
  <1>2. OwnLinks(p) /\ ~leapt  BY <1>1 DEF OwnLinks
  <1>3. time \in Nat /\ \A i \in SyncIssues : tracker[i].at \in Nat /\ tracker'[i].at \in Nat /\ tracker[i].at <= time
    BY IssueSyncAssumption DEF SyncTyped, IssueSyncAssumption
  <1>4. ASSUME NEW i \in SyncIssues, tracker'[i].at <= time, tracker'[i].repo = p, 0 < tracker'[i].at
        PROVE  tracker'[i] = tracker[i] /\ (Taken(i) => Taken(i)')
    <2>1. tracker'[i] = tracker[i]  BY <1>3, <1>4
    <2> QED  BY <2>1 DEF Taken
  <1>5. CASE ~Passing(p)
    <2>1. ASSUME NEW i \in SyncIssues, NEW l \in links, tracker'[i].repo = p, 0 < tracker'[i].at, tracker'[i].at < l.at
          PROVE  Taken(i)'
      <3>1. tracker'[i] = tracker[i] /\ (Taken(i) => Taken(i)')  BY <2>1, <1>1, <1>3, <1>4
      <3> QED  BY <3>1, <2>1, <1>2, <1>5 DEF CaughtUp, UpToDate
    <2> QED  BY <2>1, <1>5 DEF UpToDate
  <1>6. CASE Passing(p)
    <2>1. Passed(p) /\ sync'[p].todo = s /\ s # <<>> /\ sync[p].at \in Pulls  BY <1>2, <1>6 DEF CaughtUp, Passing
    <2>2. s \in Seq(Entries \cup Pushes) /\ 1 \in DOMAIN s /\ Len(s) \in DOMAIN s  BY <2>1, RestOf DEF SyncTyped, SyncRuns
    <2>3. \A k \in DOMAIN s : s[k].at \in Nat /\ s[k].at <= time
      <3> SUFFICES ASSUME NEW k \in DOMAIN s  PROVE s[k].at \in Nat /\ s[k].at <= time
        OBVIOUS
      <3>1. s[k] \in Entries /\ s[k].at <= tracker[s[k].issue].at  BY <2>1 DEF PullSound
      <3>2. s[k].at \in Nat /\ s[k].issue \in SyncIssues  BY <3>1 DEF Entries
      <3> QED  BY <3>1, <3>2, <1>3
    <2>4. s[1].at \in Nat /\ s[1].at <= time /\ s[Len(s)].at \in Nat /\ s[Len(s)].at <= time  BY <2>2, <2>3
    <2>5. \A l \in links : l.at <= s[1].at  BY <2>1 DEF Passed
    <2>6. ASSUME NEW i \in SyncIssues, tracker'[i].repo = p, 0 < tracker'[i].at,
                 tracker'[i].at < s[1].at, \A k \in DOMAIN s : s[k].issue # i
          PROVE  Taken(i)'
      <3>1. tracker'[i] = tracker[i] /\ (Taken(i) => Taken(i)')  BY <2>6, <2>4, <1>3, <1>4
      <3> QED  BY <3>1, <2>6, <2>1 DEF Passed
    <2>7. ASSUME NEW i \in SyncIssues, tracker'[i].repo = p, 0 < tracker'[i].at,
                 s[1].at <= tracker'[i].at, tracker'[i].at <= s[Len(s)].at
          PROVE  \E k \in DOMAIN s : s[k].issue = i /\ s[k].at = tracker'[i].at
      <3>1. tracker'[i] = tracker[i]  BY <2>7, <2>4, <1>3, <1>4
      <3> QED  BY <3>1, <2>7, <2>1 DEF Passed
    <2>8. Passed(p)'  BY <2>1, <2>5, <2>6, <2>7 DEF Passed
    <2> QED  BY <2>8, <1>6
  <1> QED  BY <1>5, <1>6

LEMMA LastOrBefore == ASSUME NEW n \in Nat, NEW k \in 1..n  PROVE k = n \/ k < n
  OBVIOUS

\* A pull that is done with its first entry has passed it.
LEMMA PullAdvances ==
  ASSUME SyncTyped, SyncTyped', NEW p \in SyncProjects, PullSound(p), CaughtUp(p), Passing(p), tracker' = tracker, leapt => leapt',
         sync'[p].at = "pull", sync'[p].todo = Tail(sync[p].todo),
         OwnLinks(p)' => OwnLinks(p),
         Passed(p) /\ ~leapt' =>
           /\ \A l \in links' : l.at <= Ext(p).at
           /\ \A i \in SyncIssues : Taken(i) \/ (i = Ext(p).issue /\ tracker[i].at = Ext(p).at) => Taken(i)'
  PROVE  PullSound(p)' /\ PushSound(p)' /\ CaughtUp(p)'
  <1>1. PICK s : s = sync[p].todo  OBVIOUS
  <1>2. PICK r : r = Tail(s)  OBVIOUS
  <1>3. s \in Seq(Entries \cup Pushes) /\ s # <<>> /\ sync[p].at \in Pulls  BY <1>1 DEF SyncTyped, SyncRuns, Passing
  <1>4. /\ DOMAIN s = 1..Len(s) /\ DOMAIN r = 1..(Len(s) - 1) /\ Len(r) = Len(s) - 1 /\ 1 \in DOMAIN s /\ Len(s) \in DOMAIN s
        /\ \A k \in DOMAIN r : k + 1 \in DOMAIN s /\ r[k] = s[k + 1]
        /\ \A k \in DOMAIN s : k # 1 => k - 1 \in DOMAIN r /\ r[k - 1] = s[k]
        /\ Len(s) = 1 <=> r = <<>>
        /\ r # <<>> => r[1] = s[2] /\ 2 \in DOMAIN s /\ r[Len(r)] = s[Len(s)] /\ Len(r) \in DOMAIN r
    BY <1>2, <1>3, RestOf
  <1>5. sync'[p].todo = r /\ Ext(p) = s[1]  BY <1>1, <1>2, <1>3, RestOf DEF Ext
  <1>6. /\ \A k \in DOMAIN s : /\ s[k] \in Entries
                               /\ 0 < s[k].at /\ s[k].at <= tracker[s[k].issue].at /\ tracker[s[k].issue].repo = p
        /\ \A a, b \in DOMAIN s : a < b => s[a].at < s[b].at
        /\ \A a, b \in DOMAIN s : s[a].issue = s[b].issue => a = b
    BY <1>1, <1>3 DEF PullSound
  <1>7. \A k \in DOMAIN s : s[k].at \in Nat /\ s[k].issue \in SyncIssues  BY <1>6 DEF Entries
  <1>8. \A i \in SyncIssues : tracker[i].at \in Nat  BY DEF SyncTyped
  <1>9. PullSound(p)'
    <2>1. \A a, b \in DOMAIN r : a < b => r[a].at < r[b].at
      <3> SUFFICES ASSUME NEW a \in DOMAIN r, NEW b \in DOMAIN r, a < b  PROVE r[a].at < r[b].at
        OBVIOUS
      <3>1. a + 1 < b + 1 /\ a + 1 \in DOMAIN s /\ b + 1 \in DOMAIN s  BY <1>4
      <3> QED  BY <3>1, <1>4, <1>6
    <2>2. \A a, b \in DOMAIN r : r[a].issue = r[b].issue => a = b
      <3> SUFFICES ASSUME NEW a \in DOMAIN r, NEW b \in DOMAIN r, r[a].issue = r[b].issue  PROVE a = b
        OBVIOUS
      <3>1. a + 1 \in DOMAIN s /\ b + 1 \in DOMAIN s /\ s[a + 1].issue = s[b + 1].issue  BY <1>4
      <3>2. a + 1 = b + 1  BY <3>1, <1>6
      <3> QED  BY <3>2, <1>4
    <2>3. \A k \in DOMAIN r : /\ r[k] \in Entries
                              /\ 0 < r[k].at /\ r[k].at <= tracker[r[k].issue].at /\ tracker[r[k].issue].repo = p
      BY <1>4, <1>6
    <2> QED  BY <2>1, <2>2, <2>3, <1>5 DEF PullSound
  <1>10. PushSound(p)'  BY DEF PushSound
  <1>11. ASSUME ~leapt', OwnLinks(p)'  PROVE (Passing(p)' => Passed(p)') /\ (~Passing(p)' => UpToDate(p)')
    <2>1. Passed(p)  BY <1>11 DEF CaughtUp
    <2>2. /\ \A l \in links' : l.at <= s[1].at
          /\ \A i \in SyncIssues : Taken(i) \/ (i = s[1].issue /\ tracker[i].at = s[1].at) => Taken(i)'
      BY <2>1, <1>5, <1>11
    <2>3. \A i \in SyncIssues : tracker[i].repo = p /\ 0 < tracker[i].at =>
            /\ tracker[i].at < s[1].at /\ (\A k \in DOMAIN s : s[k].issue # i) => Taken(i)
            /\ s[1].at <= tracker[i].at /\ tracker[i].at <= s[Len(s)].at =>
                 \E k \in DOMAIN s : s[k].issue = i /\ s[k].at = tracker[i].at
      BY <2>1, <1>1 DEF Passed
    <2>4. ASSUME NEW i \in SyncIssues, tracker[i].repo = p, 0 < tracker[i].at, tracker[i].at < s[1].at  PROVE Taken(i)'
      <3>1. ASSUME NEW k \in DOMAIN s  PROVE s[k].issue # i
        <4>1. s[k].at <= tracker[s[k].issue].at /\ s[1].at <= s[k].at
          <5>1. k = 1 \/ 1 < k  BY <1>4
          <5> QED  BY <5>1, <1>4, <1>6, <1>7
        <4> QED  BY <4>1, <2>4, <1>4, <1>7, <1>8
      <3> QED  BY <3>1, <2>3, <2>4, <2>2
    <2>5. ASSUME Passing(p)'  PROVE Passed(p)'
      <3>1. r # <<>>  BY <2>5, <1>5 DEF Passing
      <3>2. /\ r[1] = s[2] /\ 2 \in DOMAIN s /\ r[Len(r)] = s[Len(s)] /\ s[1].at < s[2].at
            /\ s[1].at \in Nat /\ s[2].at \in Nat /\ s[Len(s)].at \in Nat /\ s[2].at <= s[Len(s)].at
        <4>1. Len(s) \in Nat  BY <1>3, LenProperties
        <4>2. r[1] = s[2] /\ r[Len(r)] = s[Len(s)] /\ 2 \in DOMAIN s  BY <3>1, <1>4
        <4>3. 2 = Len(s) \/ 2 < Len(s)
          <5>1. 2 \in 1..Len(s)  BY <4>2, <1>4
          <5> QED  BY <4>1, <5>1, LastOrBefore
        <4>4. 1 \in DOMAIN s /\ 2 \in DOMAIN s /\ Len(s) \in DOMAIN s  BY <4>2, <1>4
        <4>5. s[1].at < s[2].at /\ (2 < Len(s) => s[2].at < s[Len(s)].at)  BY <4>4, <1>6
        <4> QED  BY <4>2, <4>3, <4>4, <4>5, <1>7
      <3>3. \A l \in links' : l.at <= r[1].at
        <4> SUFFICES ASSUME NEW l \in links'  PROVE l.at <= r[1].at
          OBVIOUS
        <4>1. l.at \in Nat  BY DEF SyncTyped
        <4> QED  BY <4>1, <3>2, <2>2
      <3>4. ASSUME NEW i \in SyncIssues, tracker[i].repo = p, 0 < tracker[i].at, tracker[i].at < r[1].at, \A k \in DOMAIN r : r[k].issue # i
            PROVE  Taken(i)'
        <4>1. CASE tracker[i].at < s[1].at  BY <4>1, <3>4, <2>4
        <4>2. CASE s[1].at <= tracker[i].at
          <5>1. tracker[i].at <= s[Len(s)].at  BY <3>4, <3>2, <1>8
          <5>2. PICK k \in DOMAIN s : s[k].issue = i /\ s[k].at = tracker[i].at  BY <5>1, <4>2, <3>4, <2>3
          <5>3. k = 1
            <6>1. ASSUME k # 1  PROVE FALSE
              <7>1. k - 1 \in DOMAIN r /\ r[k - 1].issue = i  BY <6>1, <5>2, <1>4
              <7> QED  BY <7>1, <3>4
            <6> QED  BY <6>1
          <5> QED  BY <5>2, <5>3, <2>2
        <4> QED  BY <4>1, <4>2, <3>2, <1>8
      <3>5. ASSUME NEW i \in SyncIssues, tracker[i].repo = p, 0 < tracker[i].at, r[1].at <= tracker[i].at, tracker[i].at <= r[Len(r)].at
            PROVE  \E k \in DOMAIN r : r[k].issue = i /\ r[k].at = tracker[i].at
        <4>1. s[1].at <= tracker[i].at /\ tracker[i].at <= s[Len(s)].at  BY <3>5, <3>2, <1>8
        <4>2. PICK k \in DOMAIN s : s[k].issue = i /\ s[k].at = tracker[i].at  BY <4>1, <3>5, <2>3
        <4>3. k # 1  BY <4>2, <3>5, <3>2, <1>8
        <4>4. k - 1 \in DOMAIN r /\ r[k - 1] = s[k]  BY <4>3, <1>4
        <4> QED  BY <4>2, <4>4
      <3> QED  BY <3>3, <3>4, <3>5, <1>5 DEF Passed
    <2>6. ASSUME ~Passing(p)'  PROVE UpToDate(p)'
      <3> SUFFICES ASSUME NEW i \in SyncIssues, NEW l \in links', tracker[i].repo = p, 0 < tracker[i].at, tracker[i].at < l.at
                   PROVE  Taken(i)'
        BY DEF UpToDate
      <3>1. l.at \in Nat /\ l.at <= s[1].at  BY <2>2 DEF SyncTyped
      <3>2. tracker[i].at < s[1].at  BY <3>1, <1>4, <1>7, <1>8
      <3> QED  BY <3>2, <2>4
    <2> QED  BY <2>5, <2>6
  <1> QED  BY <1>9, <1>10, <1>11 DEF CaughtUp

\* A pull that is given up leaves nothing behind what it has taken.
LEMMA GivenUp ==
  ASSUME SyncTyped, NEW p \in SyncProjects, PullSound(p), CaughtUp(p), UNCHANGED <<tracker, links>>, leapt => leapt',
         ~Passing(p)'
  PROVE  CaughtUp(p)'
  <1> SUFFICES ASSUME ~leapt', OwnLinks(p)'  PROVE UpToDate(p)'
    BY DEF CaughtUp
  <1>1. ~leapt /\ OwnLinks(p)  BY DEF OwnLinks
  <1>2. UpToDate(p) => UpToDate(p)'  BY DEF UpToDate, Taken
  <1>3. CASE ~Passing(p)  BY <1>1, <1>2, <1>3 DEF CaughtUp
  <1>4. CASE Passing(p)
    <2> DEFINE s == sync[p].todo
    <2>1. Passed(p) /\ s \in Seq(Entries \cup Pushes) /\ s # <<>> /\ sync[p].at \in Pulls
      BY <1>1, <1>4 DEF CaughtUp, Passing, SyncTyped, SyncRuns
    <2>2. DOMAIN s = 1..Len(s) /\ 1 \in DOMAIN s  BY <2>1, RestOf
    <2> SUFFICES ASSUME NEW i \in SyncIssues, NEW l \in links, tracker[i].repo = p, 0 < tracker[i].at, tracker[i].at < l.at
                 PROVE  Taken(i)
      BY <1>2 DEF UpToDate
    <2>3. \A k \in DOMAIN s : /\ s[k] \in Entries /\ s[k].at <= tracker[s[k].issue].at
                              /\ \A b \in DOMAIN s : k < b => s[k].at < s[b].at
      BY <2>1 DEF PullSound
    <2>4. /\ \A k \in DOMAIN s : s[k].at \in Nat /\ s[k].issue \in SyncIssues
          /\ l.at \in Nat /\ \A j \in SyncIssues : tracker[j].at \in Nat
      BY <2>3 DEF Entries, SyncTyped
    <2>5. l.at <= s[1].at  BY <2>1 DEF Passed
    <2>6. ASSUME NEW k \in DOMAIN s  PROVE s[k].issue # i
      <3>1. k = 1 \/ 1 < k  BY <2>2
      <3>2. s[1].at <= s[k].at  BY <3>1, <2>2, <2>3, <2>4
      <3> QED  BY <3>2, <2>2, <2>3, <2>4, <2>5
    <2>7. tracker[i].at < s[1].at  BY <2>2, <2>4, <2>5
    <2> QED  BY <2>1, <2>6, <2>7 DEF Passed
  <1> QED  BY <1>3, <1>4
\* The newest of a bounded set of watchers.

\* Since is the newest change a link took, or 0.
LEMMA SinceIsNewest ==
  ASSUME SyncTyped
  PROVE  /\ Since \in Nat /\ \A l \in links : l.at <= Since
         /\ links # {} => \E l \in links : l.at = Since
         /\ links = {} => Since = 0
  <1> DEFINE T == {l.at : l \in links}
             rest == {time - n : n \in T}
  <1>1. time \in Nat /\ \A l \in links : l.at \in Nat /\ l.at <= time
    BY IssueSyncAssumption DEF SyncTyped, IssueSyncAssumption
  <1>2. CASE links = {}  BY <1>2 DEF Since
  <1>3. CASE links # {}
    <2>1. \A n \in T : n \in Nat /\ time - n \in Nat  BY <1>1
    <2>2. rest \subseteq Nat /\ rest # {}  BY <2>1, <1>3
    <2>3. \E r \in rest : \A q \in rest : r <= q
      <3> HIDE DEF rest
      <3> QED  BY <2>2, HasLeast
    <2>4. PICK m \in T : \A n \in T : time - m <= time - n  BY <2>3
    <2>5. \A n \in T : n <= m
      <3> HIDE DEF T
      <3> QED  BY <2>1, <2>4, <1>1
    <2>6. m \in T /\ \A l \in links : l.at <= m  BY <2>4, <2>5
    <2>7. Since = CHOOSE n \in T : \A l \in links : l.at <= n  BY <1>3 DEF Since
    <2>8. Since \in T /\ \A l \in links : l.at <= Since
      <3> HIDE DEF T
      <3> QED  BY <2>6, <2>7
    <2> QED  BY <2>8, <2>1, <1>3
  <1> QED  BY <1>2, <1>3

\* Every step of a run of p, but the server's death.
RunStep(p) ==
  \/ StartSync(p) \/ PullNew(p) \/ PullOld(p) \/ PullReads(p) \/ PullWrites(p) \/ TouchLink(p)
  \/ StartPush(p) \/ CreateIssue(p) \/ LinkIssue(p) \/ CloseIssue(p) \/ PushNothing(p) \/ EndSync(p)
HandStep(p) ==
  \/ \E i \in SyncIssues, open \in BOOLEAN : IssueByHand(i, p, open)
  \/ \E t \in SyncTickets, open \in BOOLEAN : TicketByHand(t, p, open)

\* What the runs list are sequences of entries, of tickets.
LEMMA ListsTyped ==
  ASSUME SyncTyped, NEW p \in SyncProjects
  PROVE  /\ \A s \in listExternalTickets(p) :
              /\ s \in Seq(Entries) /\ \A a, b \in DOMAIN s : a < b => s[a].at < s[b].at
              /\ {s[k].issue : k \in DOMAIN s} = Changed(p)
              /\ \A k \in DOMAIN s : s[k].issue \in Changed(p) /\ s[k] = Entry(s[k].issue)
         /\ Cardinality({t \in SyncTickets : board[t].project = p}) \in Nat
  <1>1. IsFiniteSet(Changed(p)) /\ IsFiniteSet({t \in SyncTickets : board[t].project = p})
    <2>1. Changed(p) \subseteq SyncIssues /\ {t \in SyncTickets : board[t].project = p} \subseteq SyncTickets  BY DEF Changed
    <2> QED  BY <2>1, FS_Subset, IssueSyncAssumption DEF IssueSyncAssumption
  <1>2. Cardinality(Changed(p)) \in Nat /\ Cardinality({t \in SyncTickets : board[t].project = p}) \in Nat
    BY <1>1, FS_CardinalityType
  <1>3. {Entry(i) : i \in Changed(p)} \subseteq Entries  BY DEF Entry, Entries, Changed, SyncTyped
  <1> SUFFICES ASSUME NEW s \in listExternalTickets(p)
               PROVE  /\ s \in Seq(Entries) /\ \A a, b \in DOMAIN s : a < b => s[a].at < s[b].at
                      /\ {s[k].issue : k \in DOMAIN s} = Changed(p)
                      /\ \A k \in DOMAIN s : s[k].issue \in Changed(p) /\ s[k] = Entry(s[k].issue)
    BY <1>2
  <1>4. /\ s \in [1..Cardinality(Changed(p)) -> {Entry(i) : i \in Changed(p)}]
        /\ {s[k].issue : k \in DOMAIN s} = Changed(p) /\ \A a, b \in DOMAIN s : a < b => s[a].at < s[b].at
    BY DEF listExternalTickets, Listings
  <1>5. PICK n \in Nat : s \in [1..n -> Entries]  BY <1>2, <1>3, <1>4
  <1>6. s \in Seq(Entries)  BY <1>5, SeqDef
  <1>7. \A k \in DOMAIN s : s[k].issue \in Changed(p) /\ s[k] = Entry(s[k].issue)
    <2> SUFFICES ASSUME NEW k \in DOMAIN s  PROVE s[k].issue \in Changed(p) /\ s[k] = Entry(s[k].issue)
      OBVIOUS
    <2>1. PICK i \in Changed(p) : s[k] = Entry(i)  BY <1>4
    <2>2. s[k].issue = i  BY <2>1 DEF Entry
    <2> QED  BY <2>1, <2>2
  <1> QED  BY <1>4, <1>6, <1>7

Sound(p) == PullSound(p)' /\ PushSound(p)' /\ CaughtUp(p)'
TablesSound == SyncTyped' /\ OneToOne' /\ LinkNotAhead'

LEMMA TablesKept ==
  ASSUME SyncTyped, OneToOne, LinkNotAhead, NEW p \in SyncProjects, NEW r \in SyncRuns,
         sync' = [sync EXCEPT ![p] = r], UNCHANGED <<tracker, links, board, time, leapt>>
  PROVE  TablesSound /\ Moves(p) /\ sync'[p] = r
  <1>1. sync' \in [SyncProjects -> SyncRuns] /\ sync'[p] = r /\ \A q \in SyncProjects \ {p} : sync'[q] = sync[q]  BY DEF SyncTyped
  <1>2. SyncTyped'  BY <1>1 DEF SyncTyped
  <1>3. OneToOne' /\ LinkNotAhead'  BY DEF OneToOne, LinkNotAhead
  <1>4. \A i \in SyncIssues : tracker[i].at \in Nat  BY DEF SyncTyped
  <1>5. Moves(p)  BY <1>1, <1>4 DEF Moves
  <1> QED  BY <1>1, <1>2, <1>3, <1>5 DEF TablesSound

LEMMA TrackerMoved ==
  ASSUME SyncTyped, OneToOne, LinkNotAhead, NEW p \in SyncProjects, NEW i \in SyncIssues,
         NEW to \in [repo : SyncProjects \cup {"none"}, at : Nat, open : BOOLEAN],
         Tick(i, to), to.repo = p, tracker[i].repo \in {"none", p},
         sync' \in [SyncProjects -> SyncRuns], \A q \in SyncProjects \ {p} : sync'[q] = sync[q],
         UNCHANGED <<links, board, leapt>>
  PROVE  TablesSound /\ Moves(p) /\ tracker'[i].repo = p
  <1>1. time \in Nat /\ time + 1 \in 0..IssueChanges /\ time' = time + 1
    BY IssueSyncAssumption DEF SyncTyped, IssueSyncAssumption, Tick
  <1>2. PICK new : new = [to EXCEPT !.at = time + 1]  OBVIOUS
  <1>3. new \in [repo : SyncProjects \cup {"none"}, at : Nat, open : BOOLEAN] /\ new.repo = p /\ new.at = time + 1
    BY <1>1, <1>2
  <1>4. tracker' = [tracker EXCEPT ![i] = new]  BY <1>2 DEF Tick
  <1>5. /\ tracker' \in [SyncIssues -> [repo : SyncProjects \cup {"none"}, at : Nat, open : BOOLEAN]]
        /\ \A j \in SyncIssues : tracker'[j] = IF j = i THEN new ELSE tracker[j]
    BY <1>3, <1>4 DEF SyncTyped
  <1>6. \A j \in SyncIssues : tracker[j].at \in Nat /\ tracker[j].at <= time  BY DEF SyncTyped
  <1>7. \A j \in SyncIssues : /\ tracker'[j].at >= tracker[j].at /\ tracker'[j].at <= time'
                              /\ tracker[j].repo # "none" => tracker'[j].repo = tracker[j].repo
                              /\ tracker'[j] # tracker[j] => tracker'[j].at > time
    BY <1>1, <1>3, <1>5, <1>6
  <1>8. \A l \in links : /\ l.issue \in SyncIssues /\ l.at \in Nat /\ l.at <= time /\ tracker[l.issue].repo # "none"
                         /\ tracker'[l.issue].repo = tracker[l.issue].repo
    BY <1>7 DEF SyncTyped
  <1>9. \A l \in links : l.at <= time' /\ tracker'[l.issue].repo # "none"  BY <1>1, <1>8
  <1>10. SyncTyped'  BY <1>1, <1>5, <1>7, <1>9 DEF SyncTyped
  <1>11. OneToOne'  BY <1>8 DEF OneToOne
  <1>12. LinkNotAhead'  BY DEF LinkNotAhead
  <1>13. Moves(p)  BY <1>7, <1>8 DEF Moves
  <1> QED  BY <1>3, <1>5, <1>10, <1>11, <1>12, <1>13 DEF TablesSound

Inductive(p) == SyncTyped /\ OneToOne /\ LinkNotAhead /\ PullSound(p) /\ PushSound(p) /\ CaughtUp(p)

LEMMA IssueByHandSound ==
  ASSUME NEW p \in SyncProjects, Inductive(p), NEW i \in SyncIssues, NEW open \in BOOLEAN, IssueByHand(i, p, open)
  PROVE  TablesSound /\ Moves(p) /\ Sound(p)
  <1>1. PICK to : to = [repo |-> p, at |-> 0, open |-> open]  OBVIOUS
  <1>2. /\ to \in [repo : SyncProjects \cup {"none"}, at : Nat, open : BOOLEAN] /\ to.repo = p /\ Tick(i, to)
        /\ tracker[i].repo \in {"none", p} /\ UNCHANGED <<links, board, leapt, sync>>
    BY <1>1 DEF IssueByHand
  <1>3. SyncTyped /\ OneToOne /\ LinkNotAhead /\ PullSound(p) /\ PushSound(p) /\ CaughtUp(p)  BY DEF Inductive
  <1>4. TablesSound /\ Moves(p)
    <2>1. sync' \in [SyncProjects -> SyncRuns] /\ \A q \in SyncProjects \ {p} : sync'[q] = sync[q]  BY <1>2, <1>3 DEF SyncTyped
    <2> QED  BY <1>2, <1>3, <2>1, TrackerMoved
  <1>5. CaughtUp(p)'
    <2>1. Passing(p)' <=> Passing(p)  BY <1>2 DEF Passing
    <2> QED  BY <1>2, <1>3, <1>4, <2>1, NewChangeIsNewer DEF Moves, TablesSound
  <1>6. \A j \in SyncIssues : tracker'[j].at >= tracker[j].at /\ tracker'[j].at \in Nat /\ tracker[j].at \in Nat
                              /\ (tracker[j].repo # "none" => tracker'[j].repo = tracker[j].repo)
    BY <1>3, <1>4 DEF Moves, TablesSound, SyncTyped
  <1>7. p # "none"  BY IssueSyncAssumption DEF IssueSyncAssumption
  <1>8. PullSound(p)'
    <2> DEFINE s == sync[p].todo
    <2>1. ASSUME NEW k \in DOMAIN s, sync[p].at \in Pulls
          PROVE  /\ s[k] \in Entries
                 /\ 0 < s[k].at /\ s[k].at <= tracker'[s[k].issue].at /\ tracker'[s[k].issue].repo = p
      <3>1. s[k] \in Entries /\ 0 < s[k].at /\ s[k].at <= tracker[s[k].issue].at /\ tracker[s[k].issue].repo = p
        BY <1>3, <2>1 DEF PullSound
      <3>2. s[k].issue \in SyncIssues /\ s[k].at \in Nat  BY <3>1 DEF Entries
      <3> QED  BY <3>1, <3>2, <1>6, <1>7
    <2>2. /\ sync[p].at \in Pulls => \A a, b \in DOMAIN s : (a < b => s[a].at < s[b].at) /\ (s[a].issue = s[b].issue => a = b)
          /\ sync[p].at \in Pulls /\ sync[p].at # "pull" => s # <<>> /\ LinkOf(s[1].issue) # {}
          /\ sync[p].at = "update" => \A l \in LinkOf(s[1].issue) : l.at < s[1].at
          /\ sync[p].at = "touch" => \A l \in LinkOf(s[1].issue) : board[l.ticket].shows = s[1].at
      BY <1>3 DEF PullSound, Pulls
    <2>3. sync' = sync /\ links' = links /\ board' = board  BY <1>2
    <2> QED  BY <2>1, <2>2, <2>3 DEF PullSound, LinkOf, Pulls
  <1>9. PushSound(p)'  BY <1>2, <1>3, <1>6, <1>7 DEF PushSound, LinkOf, LinksOf
  <1> QED  BY <1>4, <1>5, <1>8, <1>9 DEF Sound

LEMMA TicketByHandSound ==
  ASSUME NEW p \in SyncProjects, Inductive(p), NEW t \in SyncTickets, NEW open \in BOOLEAN, TicketByHand(t, p, open)
  PROVE  TablesSound /\ Moves(p) /\ Sound(p)
  <1>1. SyncTyped /\ OneToOne /\ LinkNotAhead /\ PullSound(p) /\ PushSound(p) /\ CaughtUp(p)  BY DEF Inductive
  <1>2. /\ board[t].project \in {"none", p} /\ UNCHANGED <<tracker, links, sync, time, leapt>>
        /\ board' = [board EXCEPT ![t].project = p, ![t].open = open, ![t].version = @ + 1]
    BY DEF TicketByHand
  <1>3. /\ board' \in [SyncTickets -> [project : SyncProjects \cup {"none"}, open : BOOLEAN, version : Nat, shows : Nat]]
        /\ \A u \in SyncTickets : /\ board'[u].shows = board[u].shows
                                  /\ board[u].project # "none" => board'[u].project = board[u].project
    BY <1>1, <1>2 DEF SyncTyped
  <1>4. \A l \in links : l.ticket \in SyncTickets /\ l.issue \in SyncIssues /\ board[l.ticket].project # "none"
    BY <1>1 DEF SyncTyped, OneToOne
  <1>5. \A i \in SyncIssues : tracker[i].at \in Nat  BY <1>1 DEF SyncTyped
  <1>6. TablesSound
    <2>1. SyncTyped'  BY <1>1, <1>2, <1>3 DEF SyncTyped
    <2>2. OneToOne'  BY <1>1, <1>2, <1>3, <1>4 DEF OneToOne
    <2>3. LinkNotAhead'  BY <1>1, <1>2, <1>3, <1>4 DEF LinkNotAhead
    <2> QED  BY <2>1, <2>2, <2>3 DEF TablesSound
  <1>7. Moves(p)  BY <1>2, <1>3, <1>5 DEF Moves
  <1>8. PullSound(p)'
    <2>1. PullSound(p) /\ tracker' = tracker /\ links' = links /\ sync' = sync  BY <1>1, <1>2
    <2>2. \A l \in links : board'[l.ticket].shows = board[l.ticket].shows  BY <1>3, <1>4
    <2> QED  BY <2>1, <2>2 DEF PullSound, LinkOf
  <1>9. PushSound(p)'
    <2>1. \A k \in DOMAIN sync[p].todo : sync[p].todo[k] \in Pushes /\ board[sync[p].todo[k].ticket].project = p =>
            board'[sync[p].todo[k].ticket].project = p
      BY <1>3, IssueSyncAssumption DEF Pushes, IssueSyncAssumption
    <2> QED  BY <1>1, <1>2, <2>1 DEF PushSound, LinkOf, LinksOf
  <1>10. CaughtUp(p)'  BY <1>1, <1>2 DEF CaughtUp, OwnLinks, Passing, Passed, UpToDate, Taken
  <1> QED  BY <1>6, <1>7, <1>8, <1>9, <1>10 DEF Sound

LEMMA StartSyncSound ==
  ASSUME NEW p \in SyncProjects, Inductive(p), StartSync(p)
  PROVE  TablesSound /\ Moves(p) /\ Sound(p)
  <1>1. SyncTyped /\ OneToOne /\ LinkNotAhead /\ CaughtUp(p)  BY DEF Inductive
  <1>2. PICK s \in listExternalTickets(p) : sync' = [sync EXCEPT ![p] = [Rest EXCEPT !.at = "pull", !.todo = s]]
    BY DEF StartSync
  <1>3. /\ s \in Seq(Entries) /\ \A a, b \in DOMAIN s : a < b => s[a].at < s[b].at
        /\ {s[k].issue : k \in DOMAIN s} = Changed(p)
        /\ \A k \in DOMAIN s : s[k].issue \in Changed(p) /\ s[k] = Entry(s[k].issue)
    BY <1>1, ListsTyped
  <1>4. s \in Seq(Entries \cup Pushes)  BY <1>3, SeqDef
  <1>5. PICK r : r = [Rest EXCEPT !.at = "pull", !.todo = s]  OBVIOUS
  <1>6. r \in SyncRuns /\ r.at = "pull" /\ r.todo = s  BY <1>4, <1>5 DEF SyncRuns, Rest
  <1>7. sync[p].at = "idle" /\ sync' = [sync EXCEPT ![p] = r] /\ UNCHANGED <<tracker, links, board, time, leapt>>
    BY <1>2, <1>5 DEF StartSync
  <1>8. TablesSound /\ Moves(p) /\ sync'[p] = r  BY <1>1, <1>6, <1>7, TablesKept
  <1>9. \A k \in DOMAIN s : /\ s[k].issue \in SyncIssues /\ s[k] \in Entries /\ s[k].at = tracker[s[k].issue].at
                            /\ tracker[s[k].issue].at \in Nat /\ tracker[s[k].issue].repo = p
                            /\ 0 < tracker[s[k].issue].at /\ Since <= tracker[s[k].issue].at
    <2> SUFFICES ASSUME NEW k \in DOMAIN s
                 PROVE /\ s[k].issue \in SyncIssues /\ s[k] \in Entries /\ s[k].at = tracker[s[k].issue].at
                       /\ tracker[s[k].issue].at \in Nat /\ tracker[s[k].issue].repo = p
                       /\ 0 < tracker[s[k].issue].at /\ Since <= tracker[s[k].issue].at
      OBVIOUS
    <2>1. PICK i \in Changed(p) : s[k].issue = i /\ s[k] = Entry(i)  BY <1>3
    <2>2. /\ i \in SyncIssues /\ tracker[i].repo = p /\ tracker[i].at > 0 /\ tracker[i].at >= Since
          /\ tracker[i].at \in Nat /\ Since \in Nat
      BY <1>1, SinceIsNewest DEF Changed, SyncTyped
    <2>3. s[k] \in Entries /\ s[k].at = tracker[i].at  BY <2>1, <2>2, <1>1 DEF Entry, Entries, SyncTyped
    <2> QED  BY <2>1, <2>2, <2>3
  <1>10. \A a, b \in DOMAIN s : s[a].issue = s[b].issue => a = b
    <2> SUFFICES ASSUME NEW a \in DOMAIN s, NEW b \in DOMAIN s, s[a].issue = s[b].issue, a # b  PROVE FALSE
      OBVIOUS
    <2>1. a \in Nat /\ b \in Nat  BY <1>3, LenProperties
    <2>2. s[a].at = s[b].at /\ s[a].at \in Nat  BY <1>9
    <2>3. a < b \/ b < a  BY <2>1
    <2> QED  BY <2>2, <2>3, <1>3
  <1>11. PullSound(p)'
    <2>1. \A k \in DOMAIN s : /\ s[k] \in Entries
                              /\ 0 < s[k].at /\ s[k].at <= tracker[s[k].issue].at /\ tracker[s[k].issue].repo = p
      BY <1>9
    <2>2. sync'[p].at = "pull" /\ sync'[p].todo = s /\ tracker' = tracker  BY <1>6, <1>7, <1>8
    <2> QED  BY <2>1, <2>2, <1>3, <1>10 DEF PullSound
  <1>12. PushSound(p)'  BY <1>6, <1>8 DEF PushSound
  <1>13. ASSUME ~leapt, OwnLinks(p)  PROVE (Passing(p)' => Passed(p)') /\ (~Passing(p)' => UpToDate(p)')
    <2>1. UpToDate(p)  BY <1>1, <1>7, <1>13 DEF CaughtUp, Passing, Pulls
    <2>2. UpToDate(p)'  BY <2>1, <1>7 DEF UpToDate, Taken
    <2>3. ASSUME s # <<>>  PROVE Passed(p)'
      <3>1. 1 \in DOMAIN s  BY <1>3, <2>3, RestOf
      <3>2. s[1].at \in Nat /\ Since <= s[1].at /\ Since \in Nat  BY <3>1, <1>1, <1>9, SinceIsNewest
      <3>3. \A l \in links : l.at \in Nat /\ l.at <= Since  BY <1>1, SinceIsNewest DEF SyncTyped
      <3>4. \A l \in links : l.at <= s[1].at  BY <3>2, <3>3
      <3>5. ASSUME NEW i \in SyncIssues, tracker[i].repo = p, 0 < tracker[i].at, ~\E k \in DOMAIN s : s[k].issue = i
            PROVE  Taken(i)
        <4>1. tracker[i].at \in Nat  BY <1>1 DEF SyncTyped
        <4>2. i \notin Changed(p)  BY <1>3, <3>5
        <4>3. tracker[i].at < Since  BY <4>1, <4>2, <3>2, <3>5 DEF Changed
        <4>4. Since # 0  BY <4>1, <4>3, <3>2
        <4>5. PICK l \in links : l.at = Since  BY <4>4, <1>1, SinceIsNewest
        <4> QED  BY <4>3, <4>5, <3>5, <2>1 DEF UpToDate
      <3>6. ASSUME NEW i \in SyncIssues, tracker[i].repo = p, 0 < tracker[i].at, s[1].at <= tracker[i].at
            PROVE  \E k \in DOMAIN s : s[k].issue = i /\ s[k].at = tracker[i].at
        <4>1. tracker[i].at \in Nat /\ tracker[i].at >= Since  BY <1>1, <3>2, <3>6 DEF SyncTyped
        <4>2. i \in Changed(p)  BY <4>1, <3>6 DEF Changed
        <4>3. PICK k \in DOMAIN s : s[k].issue = i  BY <4>2, <1>3
        <4> QED  BY <4>3, <1>9
      <3>7. /\ \A l \in links : l.at <= s[1].at
            /\ \A i \in SyncIssues : tracker[i].repo = p /\ 0 < tracker[i].at =>
                 /\ tracker[i].at < s[1].at /\ (\A k \in DOMAIN s : s[k].issue # i) => Taken(i)
                 /\ s[1].at <= tracker[i].at /\ tracker[i].at <= s[Len(s)].at =>
                      \E k \in DOMAIN s : s[k].issue = i /\ s[k].at = tracker[i].at
        BY <3>4, <3>5, <3>6
      <3>8. sync'[p].todo = s /\ tracker' = tracker /\ links' = links  BY <1>6, <1>7, <1>8
      <3> QED  BY <3>7, <3>8 DEF Passed, Taken
    <2> QED  BY <2>2, <2>3, <1>6, <1>8 DEF Passing
  <1>14. CaughtUp(p)'  BY <1>7, <1>13 DEF CaughtUp, OwnLinks
  <1> QED  BY <1>8, <1>11, <1>12, <1>14 DEF Sound

\* What Done makes of a pull.
LEMMA DoneTyped ==
  ASSUME SyncTyped, NEW p \in SyncProjects, sync[p].todo # <<>>
  PROVE  Done(p) \in SyncRuns /\ Done(p).at = "pull" /\ Done(p).todo = Tail(sync[p].todo)
  <1>1. /\ sync[p].todo \in Seq(Entries \cup Pushes) /\ sync[p].seen \in Nat \cup SyncIssues  BY DEF SyncTyped, SyncRuns
  <1>2. Tail(sync[p].todo) \in Seq(Entries \cup Pushes)  BY <1>1, RestOf
  <1> QED  BY <1>1, <1>2 DEF Done, SyncRuns

LEMMA PullOldSound ==
  ASSUME NEW p \in SyncProjects, Inductive(p), PullOld(p)
  PROVE  TablesSound /\ Moves(p) /\ Sound(p)
  <1>1. SyncTyped /\ OneToOne /\ LinkNotAhead /\ PullSound(p) /\ CaughtUp(p)  BY DEF Inductive
  <1>2. /\ sync[p].at = "pull" /\ sync[p].todo # <<>> /\ Passing(p)
        /\ sync' = [sync EXCEPT ![p] = Done(p)] /\ UNCHANGED <<tracker, links, board, time, leapt>>
    BY DEF PullOld, Pulling, Passing, Pulls
  <1>3. PICK l \in links : l.issue = Ext(p).issue /\ l.at >= Ext(p).at  BY DEF PullOld, LinkOf
  <1>4. TablesSound /\ Moves(p) /\ sync'[p] = Done(p)  BY <1>1, <1>2, DoneTyped, TablesKept
  <1>5. sync'[p].at = "pull" /\ sync'[p].todo = Tail(sync[p].todo)  BY <1>1, <1>2, <1>4, DoneTyped
  <1>6. /\ Ext(p) = sync[p].todo[1] /\ Ext(p) \in Entries  BY <1>1, <1>2, PullHead DEF Pulls
  <1>7. l.at \in Nat /\ Ext(p).at \in Nat  BY <1>1, <1>6 DEF SyncTyped, Entries
  <1>8. ASSUME Passed(p)
        PROVE  /\ \A m \in links' : m.at <= Ext(p).at
               /\ \A i \in SyncIssues : Taken(i) \/ (i = Ext(p).issue /\ tracker[i].at = Ext(p).at) => Taken(i)'
    <2>1. \A m \in links : m.at <= Ext(p).at  BY <1>6, <1>8 DEF Passed
    <2>2. l.at = Ext(p).at  BY <2>1, <1>3, <1>7
    <2> QED  BY <2>1, <2>2, <1>2, <1>3 DEF Taken
  <1>9. OwnLinks(p)' => OwnLinks(p)  BY <1>2 DEF OwnLinks
  <1>10. SyncTyped' /\ tracker' = tracker /\ (leapt => leapt')  BY <1>2, <1>4 DEF TablesSound
  <1> QED  BY <1>1, <1>2, <1>4, <1>5, <1>8, <1>9, <1>10, PullAdvances DEF Sound

LEMMA PullReadsSound ==
  ASSUME NEW p \in SyncProjects, Inductive(p), PullReads(p)
  PROVE  TablesSound /\ Moves(p) /\ Sound(p)
  <1>1. SyncTyped /\ OneToOne /\ LinkNotAhead /\ PullSound(p) /\ CaughtUp(p)  BY DEF Inductive
  <1>2. PICK l \in links : /\ l.issue = Ext(p).issue /\ l.at < Ext(p).at
                           /\ sync' = [sync EXCEPT ![p].at = "update", ![p].seen = board[l.ticket].version]
    BY DEF PullReads, LinkOf
  <1>3. /\ sync[p].at = "pull" /\ sync[p].todo # <<>> /\ UNCHANGED <<tracker, links, board, time, leapt>>
    BY DEF PullReads, Pulling
  <1>4. PICK r : r = [sync[p] EXCEPT !.at = "update", !.seen = board[l.ticket].version]  OBVIOUS
  <1>5. r \in SyncRuns /\ r.at = "update" /\ r.todo = sync[p].todo
    <2>1. l.ticket \in SyncTickets /\ board[l.ticket].version \in Nat /\ sync[p] \in SyncRuns  BY <1>1 DEF SyncTyped
    <2> QED  BY <2>1, <1>4 DEF SyncRuns
  <1>6. sync' = [sync EXCEPT ![p] = r]  BY <1>1, <1>2, <1>4 DEF SyncTyped, SyncRuns
  <1>7. TablesSound /\ Moves(p) /\ sync'[p] = r  BY <1>1, <1>3, <1>5, <1>6, TablesKept
  <1>8. Ext(p) = sync[p].todo[1]  BY <1>1, <1>3, PullHead DEF Pulls
  <1>9. PullSound(p)'
    <2> DEFINE s == sync[p].todo
    <2>1. /\ \A k \in DOMAIN s : /\ s[k] \in Entries
                                 /\ 0 < s[k].at /\ s[k].at <= tracker[s[k].issue].at /\ tracker[s[k].issue].repo = p
          /\ \A a, b \in DOMAIN s : a < b => s[a].at < s[b].at
          /\ \A a, b \in DOMAIN s : s[a].issue = s[b].issue => a = b
      BY <1>1, <1>3 DEF PullSound, Pulls
    <2>2. \A m \in links : m.issue = s[1].issue => m = l  BY <1>1, <1>2, <1>8 DEF OneToOne
    <2>3. /\ l \in LinkOf(s[1].issue) /\ \A m \in LinkOf(s[1].issue) : m.at < s[1].at  BY <2>2, <1>2, <1>8 DEF LinkOf
    <2>4. sync'[p].at = "update" /\ sync'[p].todo = s /\ tracker' = tracker /\ links' = links /\ board' = board  BY <1>3, <1>5, <1>7
    <2> QED  BY <2>1, <2>3, <2>4, <1>3 DEF PullSound, LinkOf
  <1>10. PushSound(p)'  BY <1>5, <1>7 DEF PushSound
  <1>11. CaughtUp(p)'
    <2>1. Passing(p) /\ Passing(p)' /\ sync'[p].todo = sync[p].todo  BY <1>3, <1>5, <1>7 DEF Passing, Pulls
    <2> QED  BY <1>1, <1>3, <1>7, <2>1, NewChangeIsNewer DEF TablesSound
  <1> QED  BY <1>7, <1>9, <1>10, <1>11 DEF Sound

LEMMA StartPushSound ==
  ASSUME NEW p \in SyncProjects, Inductive(p), StartPush(p)
  PROVE  TablesSound /\ Moves(p) /\ Sound(p)
  <1> DEFINE Own == {t \in SyncTickets : board[t].project = p}
  <1>1. SyncTyped /\ OneToOne /\ LinkNotAhead /\ PullSound(p) /\ CaughtUp(p)  BY DEF Inductive
  <1>2. PICK s \in [1..Cardinality(Own) -> {[ticket |-> t, open |-> board[t].open] : t \in SyncTickets}] :
           /\ {s[k].ticket : k \in DOMAIN s} = Own
           /\ sync' = [sync EXCEPT ![p] = [Rest EXCEPT !.at = "push", !.todo = s]]
    BY DEF StartPush
  <1>3. sync[p].at = "pull" /\ sync[p].todo = <<>> /\ UNCHANGED <<tracker, links, board, time, leapt>>  BY DEF StartPush
  <1>4. {[ticket |-> t, open |-> board[t].open] : t \in SyncTickets} \subseteq Pushes  BY <1>1 DEF SyncTyped, Pushes
  <1>5. PICK n \in Nat : s \in [1..n -> Pushes]  BY <1>1, <1>4, ListsTyped
  <1>6. s \in Seq(Entries \cup Pushes)  BY <1>5, SeqDef
  <1>7. PICK r : r = [Rest EXCEPT !.at = "push", !.todo = s]  OBVIOUS
  <1>8. r \in SyncRuns /\ r.at = "push" /\ r.todo = s  BY <1>6, <1>7 DEF SyncRuns, Rest
  <1>9. sync' = [sync EXCEPT ![p] = r]  BY <1>2, <1>7
  <1>10. TablesSound /\ Moves(p) /\ sync'[p] = r  BY <1>1, <1>3, <1>8, <1>9, TablesKept
  <1>11. PullSound(p)'  BY <1>8, <1>10 DEF PullSound, Pulls
  <1>12. PushSound(p)'
    <2>1. \A k \in DOMAIN s : s[k].ticket \in Own  BY <1>2
    <2>2. \A k \in DOMAIN s : s[k] \in Pushes /\ board[s[k].ticket].project = p  BY <2>1, <1>5
    <2> QED  BY <2>2, <1>3, <1>8, <1>10 DEF PushSound
  <1>13. CaughtUp(p)'
    <2>1. ~Passing(p)'  BY <1>8, <1>10 DEF Passing, Pulls
    <2> QED  BY <1>1, <1>3, <2>1, GivenUp
  <1> QED  BY <1>10, <1>11, <1>12, <1>13 DEF Sound

LEMMA EndSyncSound ==
  ASSUME NEW p \in SyncProjects, Inductive(p), EndSync(p)
  PROVE  TablesSound /\ Moves(p) /\ Sound(p)
  <1>1. SyncTyped /\ OneToOne /\ LinkNotAhead /\ PullSound(p) /\ CaughtUp(p)  BY DEF Inductive
  <1>2. Rest \in SyncRuns /\ Rest.at = "idle"  BY EmptySeq DEF SyncRuns, Rest
  <1>3. sync' = [sync EXCEPT ![p] = Rest] /\ UNCHANGED <<tracker, links, board, time, leapt>>  BY DEF EndSync
  <1>4. TablesSound /\ Moves(p) /\ sync'[p] = Rest  BY <1>1, <1>2, <1>3, TablesKept
  <1>5. PullSound(p)' /\ PushSound(p)' /\ ~Passing(p)'  BY <1>2, <1>4 DEF PullSound, PushSound, Passing, Pulls
  <1>6. CaughtUp(p)'  BY <1>1, <1>3, <1>5, GivenUp
  <1> QED  BY <1>4, <1>5, <1>6 DEF Sound

\* What Pushed makes of a push.
LEMMA PushedTyped ==
  ASSUME SyncTyped, NEW p \in SyncProjects, PushSound(p), sync[p].at \in {"push", "linking"}, sync[p].todo # <<>>
  PROVE  /\ Pushed(p) \in SyncRuns /\ Pushed(p).at = "push"
         /\ \A k \in DOMAIN Pushed(p).todo : Pushed(p).todo[k] \in Pushes /\ board[Pushed(p).todo[k].ticket].project = p
  <1>1. sync[p].todo \in Seq(Entries \cup Pushes) /\ sync[p].again \in BOOLEAN  BY DEF SyncTyped, SyncRuns
  <1>2. Tail(sync[p].todo) \in Seq(Entries \cup Pushes)  BY <1>1, RestOf
  <1>3. Pushed(p) \in SyncRuns /\ Pushed(p).at = "push" /\ Pushed(p).todo = Tail(sync[p].todo)
    BY <1>1, <1>2 DEF Pushed, SyncRuns
  <1>4. \A k \in DOMAIN Tail(sync[p].todo) : k + 1 \in DOMAIN sync[p].todo /\ Tail(sync[p].todo)[k] = sync[p].todo[k + 1]
    BY <1>1, RestOf
  <1> QED  BY <1>3, <1>4 DEF PushSound

LEMMA PushNothingSound ==
  ASSUME NEW p \in SyncProjects, Inductive(p), PushNothing(p)
  PROVE  TablesSound /\ Moves(p) /\ Sound(p)
  <1>1. SyncTyped /\ OneToOne /\ LinkNotAhead /\ PullSound(p) /\ PushSound(p) /\ CaughtUp(p)  BY DEF Inductive
  <1>2. /\ sync[p].at = "push" /\ sync[p].todo # <<>>
        /\ sync' = [sync EXCEPT ![p] = Pushed(p)] /\ UNCHANGED <<tracker, links, board, time, leapt>>
    BY DEF PushNothing, Pushing
  <1>3. /\ Pushed(p) \in SyncRuns /\ Pushed(p).at = "push"
        /\ \A k \in DOMAIN Pushed(p).todo : Pushed(p).todo[k] \in Pushes /\ board[Pushed(p).todo[k].ticket].project = p
    BY <1>1, <1>2, PushedTyped
  <1>4. TablesSound /\ Moves(p) /\ sync'[p] = Pushed(p)  BY <1>1, <1>2, <1>3, TablesKept
  <1>5. PICK r : r = Pushed(p)  OBVIOUS
  <1>6. PullSound(p)' /\ ~Passing(p)'  BY <1>3, <1>4 DEF PullSound, Passing, Pulls
  <1>7. PushSound(p)'  BY <1>2, <1>3, <1>4, <1>5 DEF PushSound
  <1>8. CaughtUp(p)'  BY <1>1, <1>2, <1>6, GivenUp
  <1> QED  BY <1>4, <1>6, <1>7, <1>8 DEF Sound

LEMMA CloseIssueSound ==
  ASSUME NEW p \in SyncProjects, Inductive(p), CloseIssue(p)
  PROVE  TablesSound /\ Moves(p) /\ Sound(p)
  <1>1. SyncTyped /\ OneToOne /\ LinkNotAhead /\ PullSound(p) /\ PushSound(p) /\ CaughtUp(p)  BY DEF Inductive
  <1>2. PICK l \in links : l.ticket = Ext(p).ticket /\ Tick(l.issue, [tracker[l.issue] EXCEPT !.open = FALSE])
    BY DEF CloseIssue, LinksOf
  <1>3. /\ sync[p].at = "push" /\ sync[p].todo # <<>>
        /\ sync' = [sync EXCEPT ![p] = Pushed(p)] /\ UNCHANGED <<links, board, leapt>>
    BY DEF CloseIssue, Pushing
  <1>4. /\ Pushed(p) \in SyncRuns /\ Pushed(p).at = "push"
        /\ \A k \in DOMAIN Pushed(p).todo : Pushed(p).todo[k] \in Pushes /\ board[Pushed(p).todo[k].ticket].project = p
    BY <1>1, <1>3, PushedTyped
  <1>5. board[Ext(p).ticket].project = p  BY <1>1, <1>3, PushHead
  <1>6. tracker[l.issue].repo = p /\ l.issue \in SyncIssues  BY <1>1, <1>2, <1>5 DEF OneToOne, SyncTyped
  <1>7. PICK to : to = [tracker[l.issue] EXCEPT !.open = FALSE]  OBVIOUS
  <1>8. to \in [repo : SyncProjects \cup {"none"}, at : Nat, open : BOOLEAN] /\ to.repo = p  BY <1>1, <1>6, <1>7 DEF SyncTyped
  <1>9. sync' \in [SyncProjects -> SyncRuns] /\ sync'[p] = Pushed(p) /\ \A q \in SyncProjects \ {p} : sync'[q] = sync[q]
    BY <1>1, <1>3, <1>4 DEF SyncTyped
  <1>10. TablesSound /\ Moves(p)  BY <1>1, <1>2, <1>3, <1>6, <1>7, <1>8, <1>9, TrackerMoved
  <1>11. PullSound(p)' /\ ~Passing(p)' /\ ~Passing(p)  BY <1>3, <1>4, <1>9 DEF PullSound, Passing, Pulls
  <1>12. PushSound(p)'
    <2>1. PICK r : r = Pushed(p)  OBVIOUS
    <2> QED  BY <1>3, <1>4, <1>9, <2>1 DEF PushSound
  <1>13. CaughtUp(p)'  BY <1>1, <1>3, <1>10, <1>11, NewChangeIsNewer DEF TablesSound, Moves
  <1> QED  BY <1>10, <1>11, <1>12, <1>13 DEF Sound

LEMMA CreateIssueSound ==
  ASSUME NEW p \in SyncProjects, Inductive(p), CreateIssue(p)
  PROVE  TablesSound /\ Moves(p) /\ Sound(p)
  <1>1. SyncTyped /\ OneToOne /\ LinkNotAhead /\ PullSound(p) /\ PushSound(p) /\ CaughtUp(p)  BY DEF Inductive
  <1>2. PICK i \in SyncIssues : /\ tracker[i] = NoIssue /\ Tick(i, [repo |-> p, at |-> 0, open |-> TRUE])
                                /\ sync' = [sync EXCEPT ![p].at = "linking", ![p].seen = i]
    BY DEF CreateIssue
  <1>3. sync[p].at = "push" /\ sync[p].todo # <<>> /\ LinksOf(Ext(p).ticket) = {} /\ UNCHANGED <<links, board, leapt>>
    BY DEF CreateIssue, Pushing
  <1>4. PICK r : r = [sync[p] EXCEPT !.at = "linking", !.seen = i]  OBVIOUS
  <1>5. r \in SyncRuns /\ r.at = "linking" /\ r.todo = sync[p].todo /\ r.seen = i  BY <1>1, <1>4 DEF SyncTyped, SyncRuns
  <1>6. sync' = [sync EXCEPT ![p] = r]  BY <1>1, <1>2, <1>4 DEF SyncTyped, SyncRuns
  <1>7. sync' \in [SyncProjects -> SyncRuns] /\ sync'[p] = r /\ \A q \in SyncProjects \ {p} : sync'[q] = sync[q]
    BY <1>1, <1>5, <1>6 DEF SyncTyped
  <1>8. PICK to : to = [repo |-> p, at |-> 0, open |-> TRUE]  OBVIOUS
  <1>9. to \in [repo : SyncProjects \cup {"none"}, at : Nat, open : BOOLEAN] /\ to.repo = p /\ Tick(i, to)  BY <1>2, <1>8
  <1>10. TablesSound /\ Moves(p) /\ tracker'[i].repo = p
    BY <1>1, <1>2, <1>3, <1>7, <1>9, TrackerMoved DEF NoIssue
  <1>11. PullSound(p)' /\ ~Passing(p)' /\ ~Passing(p)  BY <1>3, <1>5, <1>7 DEF PullSound, Passing, Pulls
  <1>12. PushSound(p)'
    <2> DEFINE s == sync[p].todo
    <2>1. \A k \in DOMAIN s : s[k] \in Pushes /\ board[s[k].ticket].project = p  BY <1>1, <1>3 DEF PushSound
    <2>2. Ext(p) = s[1]  BY <1>1, <1>3, PushHead
    <2>3. LinksOf(s[1].ticket) = {}  BY <1>3, <2>2
    <2>4. \A l \in links : l.issue # i  BY <1>1, <1>2 DEF SyncTyped, NoIssue
    <2>5. LinkOf(i) = {}  BY <2>4 DEF LinkOf
    <2>6. sync'[p].at = "linking" /\ sync'[p].todo = s /\ sync'[p].seen = i /\ board' = board /\ links' = links  BY <1>3, <1>5, <1>7
    <2> QED  BY <2>1, <2>3, <2>5, <2>6, <1>3, <1>10 DEF PushSound, LinkOf, LinksOf
  <1>13. CaughtUp(p)'  BY <1>1, <1>3, <1>10, <1>11, NewChangeIsNewer DEF TablesSound, Moves
  <1> QED  BY <1>10, <1>11, <1>12, <1>13 DEF Sound

LEMMA LinkIssueSound ==
  ASSUME NEW p \in SyncProjects, Inductive(p), LinkIssue(p)
  PROVE  TablesSound /\ Moves(p) /\ Sound(p)
  <1>1. SyncTyped /\ OneToOne /\ LinkNotAhead /\ PullSound(p) /\ PushSound(p) /\ CaughtUp(p)  BY DEF Inductive
  <1>2. PICK i, t, n : i = sync[p].seen /\ t = Ext(p).ticket /\ n = tracker[sync[p].seen].at  OBVIOUS
  <1>3. PICK new : new = [issue |-> i, ticket |-> t, at |-> n]  OBVIOUS
  <1>4. /\ sync[p].at = "linking" /\ links' = links \cup {new} /\ board' = [board EXCEPT ![t].shows = n]
        /\ leapt' = TRUE /\ sync' = [sync EXCEPT ![p] = Pushed(p)] /\ UNCHANGED <<tracker, time>>
    BY <1>2, <1>3 DEF LinkIssue
  <1>5. /\ sync[p].todo # <<>> /\ LinksOf(sync[p].todo[1].ticket) = {}
        /\ i \in SyncIssues /\ tracker[i].repo = p /\ LinkOf(i) = {}
    BY <1>1, <1>2, <1>4 DEF PushSound
  <1>6. Ext(p) = sync[p].todo[1] /\ t \in SyncTickets /\ board[t].project = p
    BY <1>1, <1>2, <1>4, <1>5, PushHead DEF Pushes
  <1>7. (\A l \in links : l.issue # i /\ l.ticket # t) /\ p # "none"
    BY <1>2, <1>5, <1>6, IssueSyncAssumption DEF LinkOf, LinksOf, IssueSyncAssumption
  <1>8. /\ Pushed(p) \in SyncRuns /\ Pushed(p).at = "push"
        /\ \A k \in DOMAIN Pushed(p).todo : Pushed(p).todo[k] \in Pushes /\ board[Pushed(p).todo[k].ticket].project = p
    BY <1>1, <1>4, <1>5, PushedTyped
  <1>9. sync' \in [SyncProjects -> SyncRuns] /\ sync'[p] = Pushed(p) /\ \A q \in SyncProjects \ {p} : sync'[q] = sync[q]
    BY <1>1, <1>4, <1>8 DEF SyncTyped
  <1>10. n \in Nat /\ n <= time  BY <1>1, <1>2, <1>5 DEF SyncTyped
  <1>11. /\ board' \in [SyncTickets -> [project : SyncProjects \cup {"none"}, open : BOOLEAN, version : Nat, shows : Nat]]
         /\ \A u \in SyncTickets : board'[u].project = board[u].project /\ board'[u].shows = IF u = t THEN n ELSE board[u].shows
    BY <1>1, <1>4, <1>10 DEF SyncTyped
  <1>12. SyncTyped'
    <2>1. new \in [issue : SyncIssues, ticket : SyncTickets, at : Nat] /\ new.at <= time /\ tracker[new.issue].repo # "none"
      BY <1>3, <1>5, <1>6, <1>7, <1>10
    <2> QED  BY <1>1, <1>4, <1>9, <1>11, <2>1 DEF SyncTyped
  <1>13. OneToOne'
    <2>1. \A l \in links : l.ticket \in SyncTickets  BY <1>1 DEF SyncTyped
    <2> QED  BY <1>1, <1>3, <1>4, <1>5, <1>6, <1>7, <1>11, <2>1 DEF OneToOne
  <1>14. LinkNotAhead'
    <2>1. \A l \in links : l.ticket \in SyncTickets  BY <1>1 DEF SyncTyped
    <2>2. new.at <= n  BY <1>3, <1>10
    <2> QED  BY <1>1, <1>3, <1>4, <1>6, <1>7, <1>11, <2>1, <2>2 DEF LinkNotAhead
  <1>15. Moves(p)
    <2>1. \A j \in SyncIssues : tracker[j].at \in Nat  BY <1>1 DEF SyncTyped
    <2> QED  BY <1>3, <1>4, <1>5, <1>6, <1>9, <1>11, <2>1 DEF Moves
  <1>16. PullSound(p)' /\ CaughtUp(p)'  BY <1>4, <1>8, <1>9 DEF PullSound, CaughtUp, Pulls
  <1>17. PushSound(p)'
    <2>1. PICK r : r = Pushed(p)  OBVIOUS
    <2>2. \A k \in DOMAIN r.todo : r.todo[k].ticket \in SyncTickets /\ r.todo[k] \in Pushes /\ board'[r.todo[k].ticket].project = p
      BY <1>8, <1>11, <2>1 DEF Pushes
    <2> QED  BY <1>8, <1>9, <2>1, <2>2 DEF PushSound
  <1> QED  BY <1>12, <1>13, <1>14, <1>15, <1>16, <1>17 DEF TablesSound, Sound

LEMMA PullNewSound ==
  ASSUME NEW p \in SyncProjects, Inductive(p), PullNew(p)
  PROVE  TablesSound /\ Moves(p) /\ Sound(p)
  <1>1. SyncTyped /\ OneToOne /\ LinkNotAhead /\ PullSound(p) /\ PushSound(p) /\ CaughtUp(p)  BY DEF Inductive
  <1>2. /\ sync[p].at = "pull" /\ sync[p].todo # <<>> /\ Passing(p) /\ LinkOf(Ext(p).issue) = {}
        /\ sync' = [sync EXCEPT ![p] = Done(p)] /\ UNCHANGED <<tracker, time, leapt>>
    BY DEF PullNew, Pulling, Passing, Pulls
  <1>3. PICK t \in SyncTickets :
          /\ board[t].project = "none"
          /\ board' = [board EXCEPT ![t] = [project |-> p, open |-> Ext(p).open, version |-> 1, shows |-> Ext(p).at]]
          /\ links' = links \cup {[issue |-> Ext(p).issue, ticket |-> t, at |-> Ext(p).at]}
    BY DEF PullNew
  <1>4. PICK x : x = Ext(p)  OBVIOUS
  <1>5. /\ x \in Entries /\ 0 < x.at /\ x.at <= tracker[x.issue].at /\ tracker[x.issue].repo = p /\ x = sync[p].todo[1]
    BY <1>1, <1>2, <1>4, PullHead DEF Pulls
  <1>6. x.issue \in SyncIssues /\ x.at \in Nat /\ x.open \in BOOLEAN /\ x.at <= time
    <2>1. x.issue \in SyncIssues /\ x.at \in Nat /\ x.open \in BOOLEAN  BY <1>5 DEF Entries
    <2>2. tracker[x.issue].at <= time /\ tracker[x.issue].at \in Nat /\ time \in Nat
      BY <2>1, <1>1, IssueSyncAssumption DEF SyncTyped, IssueSyncAssumption
    <2> QED  BY <2>1, <2>2, <1>5
  <1>7. PICK new, row : /\ new = [issue |-> x.issue, ticket |-> t, at |-> x.at]
                        /\ row = [project |-> p, open |-> x.open, version |-> 1, shows |-> x.at]
    OBVIOUS
  <1>8. links' = links \cup {new} /\ board' = [board EXCEPT ![t] = row]  BY <1>3, <1>4, <1>7
  <1>9. p # "none" /\ \A l \in links : l.issue # x.issue /\ l.ticket # t
    <2>1. p # "none"  BY IssueSyncAssumption DEF IssueSyncAssumption
    <2>2. \A l \in links : board[l.ticket].project # "none"  BY <1>1 DEF SyncTyped, OneToOne
    <2> QED  BY <2>1, <2>2, <1>2, <1>3, <1>4 DEF LinkOf
  <1>10. Done(p) \in SyncRuns /\ Done(p).at = "pull" /\ Done(p).todo = Tail(sync[p].todo)  BY <1>1, <1>2, DoneTyped
  <1>11. sync' \in [SyncProjects -> SyncRuns] /\ sync'[p] = Done(p) /\ \A q \in SyncProjects \ {p} : sync'[q] = sync[q]
    BY <1>1, <1>2, <1>10 DEF SyncTyped
  <1>12. /\ board' \in [SyncTickets -> [project : SyncProjects \cup {"none"}, open : BOOLEAN, version : Nat, shows : Nat]]
         /\ \A u \in SyncTickets : board'[u] = IF u = t THEN row ELSE board[u]
    <2>1. row \in [project : SyncProjects \cup {"none"}, open : BOOLEAN, version : Nat, shows : Nat]  BY <1>6, <1>7
    <2> QED  BY <1>1, <1>8, <2>1 DEF SyncTyped
  <1>13. SyncTyped'
    <2>1. new \in [issue : SyncIssues, ticket : SyncTickets, at : Nat] /\ new.at <= time /\ tracker[new.issue].repo # "none"
      BY <1>5, <1>6, <1>7, <1>9
    <2> QED  BY <1>1, <1>2, <1>8, <1>11, <1>12, <2>1 DEF SyncTyped
  <1>14. \A l \in links : l.ticket \in SyncTickets  BY <1>1 DEF SyncTyped
  <1>15. OneToOne'  BY <1>1, <1>2, <1>5, <1>7, <1>8, <1>9, <1>12, <1>14 DEF OneToOne
  <1>16. LinkNotAhead'
    <2>1. new.at <= row.shows  BY <1>6, <1>7
    <2> QED  BY <1>1, <1>7, <1>8, <1>9, <1>12, <1>14, <2>1 DEF LinkNotAhead
  <1>17. Moves(p)
    <2>1. \A j \in SyncIssues : tracker[j].at \in Nat  BY <1>1 DEF SyncTyped
    <2> QED  BY <1>2, <1>3, <1>5, <1>7, <1>8, <1>11, <1>12, <2>1 DEF Moves
  <1>18. ASSUME Passed(p)
         PROVE  /\ \A l \in links' : l.at <= Ext(p).at
                /\ \A i \in SyncIssues : Taken(i) \/ (i = Ext(p).issue /\ tracker[i].at = Ext(p).at) => Taken(i)'
    <2>1. \A l \in links : l.at <= x.at  BY <1>5, <1>18 DEF Passed
    <2>2. new \in links' /\ new.issue = x.issue /\ new.at = x.at /\ new.at <= x.at /\ links \subseteq links'  BY <1>6, <1>7, <1>8
    <2>3. \A l \in links' : l.at <= x.at  BY <2>1, <2>2, <1>8
    <2>4. tracker' = tracker  BY <1>2
    <2> QED  BY <2>2, <2>3, <2>4, <1>4 DEF Taken
  <1>19. OwnLinks(p)' => OwnLinks(p)  BY <1>2, <1>8 DEF OwnLinks
  <1>20. Sound(p)  BY <1>1, <1>2, <1>10, <1>11, <1>13, <1>18, <1>19, PullAdvances DEF Sound
  <1> QED  BY <1>13, <1>15, <1>16, <1>17, <1>20 DEF TablesSound

LEMMA TouchLinkSound ==
  ASSUME NEW p \in SyncProjects, Inductive(p), TouchLink(p)
  PROVE  TablesSound /\ Moves(p) /\ Sound(p)
  <1>1. SyncTyped /\ OneToOne /\ LinkNotAhead /\ PullSound(p) /\ PushSound(p) /\ CaughtUp(p)  BY DEF Inductive
  <1>2. /\ sync[p].at = "touch" /\ sync' = [sync EXCEPT ![p] = Done(p)] /\ UNCHANGED <<tracker, board, time, leapt>>
        /\ links' = {IF l.issue = Ext(p).issue THEN [l EXCEPT !.at = Ext(p).at] ELSE l : l \in links}
    BY DEF TouchLink
  <1>3. sync[p].todo # <<>> /\ LinkOf(sync[p].todo[1].issue) # {} /\ Passing(p)  BY <1>1, <1>2 DEF PullSound, Pulls, Passing
  <1>4. PICK x : x = Ext(p)  OBVIOUS
  <1>5. /\ x \in Entries /\ x.at <= tracker[x.issue].at /\ tracker[x.issue].repo = p /\ x = sync[p].todo[1]
    BY <1>1, <1>2, <1>3, <1>4, PullHead DEF Pulls
  <1>6. x.issue \in SyncIssues /\ x.at \in Nat /\ x.at <= time
    <2>1. x.issue \in SyncIssues /\ x.at \in Nat  BY <1>5 DEF Entries
    <2>2. tracker[x.issue].at <= time /\ tracker[x.issue].at \in Nat /\ time \in Nat
      BY <2>1, <1>1, IssueSyncAssumption DEF SyncTyped, IssueSyncAssumption
    <2> QED  BY <2>1, <2>2, <1>5
  <1>7. PICK l \in links : l.issue = x.issue  BY <1>3, <1>5 DEF LinkOf
  <1>8. l.ticket \in SyncTickets /\ l.at \in Nat /\ board[l.ticket].shows = x.at  BY <1>1, <1>2, <1>5, <1>7 DEF SyncTyped, PullSound, Pulls, LinkOf
  <1>9. \A m \in links : m.issue = x.issue => m = l  BY <1>1, <1>7 DEF OneToOne
  <1>10. PICK new : new = [issue |-> x.issue, ticket |-> l.ticket, at |-> x.at]  OBVIOUS
  <1>11. links' = (links \ {l}) \cup {new}
    <2>1. [l EXCEPT !.at = x.at] = new  BY <1>1, <1>7, <1>10 DEF SyncTyped
    <2> QED  BY <1>2, <1>4, <1>7, <1>9, <2>1
  <1>12. Done(p) \in SyncRuns /\ Done(p).at = "pull" /\ Done(p).todo = Tail(sync[p].todo)  BY <1>1, <1>3, DoneTyped
  <1>13. sync' \in [SyncProjects -> SyncRuns] /\ sync'[p] = Done(p) /\ \A q \in SyncProjects \ {p} : sync'[q] = sync[q]
    BY <1>1, <1>2, <1>12 DEF SyncTyped
  <1>14. SyncTyped'
    <2>1. new \in [issue : SyncIssues, ticket : SyncTickets, at : Nat] /\ new.at <= time /\ tracker[new.issue].repo # "none"
      BY <1>5, <1>6, <1>8, <1>10, IssueSyncAssumption DEF IssueSyncAssumption
    <2> QED  BY <1>1, <1>2, <1>11, <1>13, <2>1 DEF SyncTyped
  <1>15. new.issue = l.issue /\ new.ticket = l.ticket /\ new.at = x.at  BY <1>7, <1>10
  <1>16. OneToOne'
    <2>1. \A m \in links : (m.issue = l.issue \/ m.ticket = l.ticket => m = l) /\ board[m.ticket].project = tracker[m.issue].repo
      BY <1>1, <1>7 DEF OneToOne
    <2>2. \A m \in links \ {l} : m.issue # new.issue /\ m.ticket # new.ticket  BY <2>1, <1>15
    <2>3. board[new.ticket].project = tracker[new.issue].repo  BY <2>1, <1>7, <1>15
    <2> QED  BY <1>1, <1>2, <1>11, <2>1, <2>2, <2>3 DEF OneToOne
  <1>17. LinkNotAhead'
    <2>1. new.at <= board[new.ticket].shows  BY <1>6, <1>8, <1>15
    <2> QED  BY <1>1, <1>2, <1>11, <2>1 DEF LinkNotAhead
  <1>18. Moves(p)
    <2>1. \A j \in SyncIssues : tracker[j].at \in Nat  BY <1>1 DEF SyncTyped
    <2>2. \A m \in links : \E k \in links' : k.issue = m.issue /\ k.ticket = m.ticket  BY <1>11, <1>15
    <2>3. tracker[l.issue].repo = p /\ tracker'[new.issue].repo = p  BY <1>2, <1>5, <1>7, <1>15
    <2>4. /\ \A m \in links' : tracker'[m.issue].repo # p => m \in links
          /\ \A m \in links : tracker[m.issue].repo # p => m \in links'
      BY <1>11, <2>3
    <2>5. UNCHANGED <<tracker, board, leapt>>  BY <1>2
    <2> QED  BY <1>13, <2>1, <2>2, <2>4, <2>5 DEF Moves
  <1>19. ASSUME Passed(p)
         PROVE  /\ \A m \in links' : m.at <= Ext(p).at
                /\ \A i \in SyncIssues : Taken(i) \/ (i = Ext(p).issue /\ tracker[i].at = Ext(p).at) => Taken(i)'
    <2>1. \A m \in links : m.at <= x.at  BY <1>5, <1>19 DEF Passed
    <2>2. \A m \in links' : m.at <= x.at  BY <2>1, <1>6, <1>11, <1>15
    <2>3. ASSUME NEW i \in SyncIssues, Taken(i)  PROVE Taken(i)'
      <3>1. PICK m \in links : m.issue = i /\ m.at = tracker[i].at  BY <2>3 DEF Taken
      <3>2. CASE m # l  BY <3>1, <3>2, <1>2, <1>11 DEF Taken
      <3>3. CASE m = l
        <4>1. tracker[i].at = x.at
          <5>1. i = x.issue /\ tracker[i].at \in Nat  BY <3>1, <3>3, <1>1, <1>7 DEF SyncTyped
          <5> QED  BY <5>1, <3>1, <2>1, <1>5, <1>6
        <4>2. new \in links' /\ new.issue = i /\ new.at = tracker'[i].at  BY <4>1, <3>1, <3>3, <1>2, <1>11, <1>15
        <4> QED  BY <4>2 DEF Taken
      <3> QED  BY <3>2, <3>3
    <2>4. ASSUME NEW i \in SyncIssues, i = x.issue, tracker[i].at = x.at  PROVE Taken(i)'
      <3>1. new \in links' /\ new.issue = i /\ new.at = tracker'[i].at  BY <2>4, <1>2, <1>7, <1>11, <1>15
      <3> QED  BY <3>1 DEF Taken
    <2> QED  BY <2>2, <2>3, <2>4, <1>4
  <1>20. OwnLinks(p)' => OwnLinks(p)
    <2>1. tracker[l.issue].repo = p  BY <1>5, <1>7
    <2> QED  BY <1>2, <1>11, <2>1 DEF OwnLinks
  <1>21. Sound(p)  BY <1>1, <1>2, <1>3, <1>12, <1>13, <1>14, <1>19, <1>20, PullAdvances DEF Sound
  <1> QED  BY <1>14, <1>16, <1>17, <1>18, <1>21 DEF TablesSound

LEMMA PullWritesSound ==
  ASSUME NEW p \in SyncProjects, Inductive(p), PullWrites(p)
  PROVE  TablesSound /\ Moves(p) /\ Sound(p)
  <1>1. SyncTyped /\ OneToOne /\ LinkNotAhead /\ PullSound(p) /\ PushSound(p) /\ CaughtUp(p)  BY DEF Inductive
  <1>2. sync[p].at = "update" /\ UNCHANGED <<tracker, links, time>>  BY DEF PullWrites
  <1>3. PICK l \in links :
          /\ l.issue = Ext(p).issue
          /\ \/ /\ board' = [board EXCEPT ![l.ticket].open = Ext(p).open, ![l.ticket].version = @ + 1, ![l.ticket].shows = Ext(p).at]
                /\ sync' = [sync EXCEPT ![p].at = "touch"] /\ leapt' = leapt
             \/ /\ sync' = [sync EXCEPT ![p].seen = board[l.ticket].version, ![p].again = TRUE] /\ UNCHANGED <<board, leapt>>
             \/ /\ sync' = [sync EXCEPT ![p] = Done(p)] /\ leapt' = TRUE /\ UNCHANGED board
    BY DEF PullWrites, LinkOf
  <1>4. sync[p].todo # <<>> /\ sync[p] \in SyncRuns /\ Passing(p)  BY <1>1, <1>2 DEF PullSound, Pulls, SyncTyped, Passing
  <1>5. PICK x : x = Ext(p)  OBVIOUS
  <1>6. x \in Entries /\ x = sync[p].todo[1] /\ tracker[x.issue].repo = p  BY <1>1, <1>2, <1>4, <1>5, PullHead DEF Pulls
  <1>7. x.issue \in SyncIssues /\ x.at \in Nat /\ x.open \in BOOLEAN  BY <1>6 DEF Entries
  <1>8. \A m \in links : m.issue = x.issue => m = l  BY <1>1, <1>3, <1>5 DEF OneToOne
  <1>9. l.ticket \in SyncTickets /\ board[l.ticket].version \in Nat /\ board[l.ticket].project = p
    BY <1>1, <1>3, <1>5, <1>6 DEF SyncTyped, OneToOne
  <1>10. PICK s : s = sync[p].todo  OBVIOUS
  <1>11. /\ \A k \in DOMAIN s : /\ s[k] \in Entries
                                 /\ 0 < s[k].at /\ s[k].at <= tracker[s[k].issue].at /\ tracker[s[k].issue].repo = p
         /\ \A a, b \in DOMAIN s : a < b => s[a].at < s[b].at
         /\ \A a, b \in DOMAIN s : s[a].issue = s[b].issue => a = b
         /\ s # <<>> /\ LinkOf(s[1].issue) # {}
         /\ \A m \in LinkOf(s[1].issue) : m.at < s[1].at
    BY <1>1, <1>2, <1>10 DEF PullSound, Pulls
  <1>12. CASE /\ board' = [board EXCEPT ![l.ticket].open = Ext(p).open, ![l.ticket].version = @ + 1, ![l.ticket].shows = Ext(p).at]
              /\ sync' = [sync EXCEPT ![p].at = "touch"] /\ leapt' = leapt
    <2>1. PICK row : row = [project |-> p, open |-> x.open, version |-> board[l.ticket].version + 1, shows |-> x.at]  OBVIOUS
    <2>2. row \in [project : SyncProjects \cup {"none"}, open : BOOLEAN, version : Nat, shows : Nat]  BY <2>1, <1>7, <1>9
    <2>3. board[l.ticket] \in [project : SyncProjects \cup {"none"}, open : BOOLEAN, version : Nat, shows : Nat]  BY <1>1, <1>9 DEF SyncTyped
    <2>4. board' = [board EXCEPT ![l.ticket] = row]  BY <1>1, <1>5, <1>9, <1>12, <2>1, <2>3 DEF SyncTyped
    <2>5. /\ board' \in [SyncTickets -> [project : SyncProjects \cup {"none"}, open : BOOLEAN, version : Nat, shows : Nat]]
          /\ \A u \in SyncTickets : board'[u] = IF u = l.ticket THEN row ELSE board[u]
      BY <1>1, <2>2, <2>4 DEF SyncTyped
    <2>6. PICK r : r = [sync[p] EXCEPT !.at = "touch"]  OBVIOUS
    <2>7. r \in SyncRuns /\ r.at = "touch" /\ r.todo = s  BY <1>4, <1>10, <2>6 DEF SyncRuns
    <2>8. sync' = [sync EXCEPT ![p] = r]  BY <1>1, <1>12, <2>6 DEF SyncTyped, SyncRuns
    <2>9. sync' \in [SyncProjects -> SyncRuns] /\ sync'[p] = r /\ \A q \in SyncProjects \ {p} : sync'[q] = sync[q]
      BY <1>1, <2>7, <2>8 DEF SyncTyped
    <2>10. SyncTyped'  BY <1>1, <1>2, <1>12, <2>5, <2>9 DEF SyncTyped
    <2>11. \A m \in links : m.ticket \in SyncTickets /\ m.at \in Nat  BY <1>1 DEF SyncTyped
    <2>12. OneToOne'  BY <1>1, <1>2, <1>9, <2>1, <2>5, <2>11 DEF OneToOne
    <2>13. LinkNotAhead'
      <3>1. \A m \in links : m.ticket = l.ticket => m = l  BY <1>1 DEF OneToOne
      <3>2. l.at < x.at
        <4>1. x = s[1] /\ l \in links /\ l.issue = x.issue  BY <1>3, <1>5, <1>6, <1>10
        <4>2. \A m \in LinkOf(s[1].issue) : m.at < s[1].at  BY <1>11
        <4> QED  BY <4>1, <4>2 DEF LinkOf
      <3>3. l.at <= row.shows  BY <3>2, <2>1, <2>11, <1>7
      <3> QED  BY <1>1, <1>2, <2>5, <2>11, <3>1, <3>3 DEF LinkNotAhead
    <2>14. Moves(p)
      <3>1. \A j \in SyncIssues : tracker[j].at \in Nat  BY <1>1 DEF SyncTyped
      <3>2. board[l.ticket].project = p /\ row.project = p  BY <1>9, <2>1
      <3> QED  BY <1>2, <1>12, <2>5, <2>9, <3>1, <3>2 DEF Moves
    <2>15. PullSound(p)'
      <3>1. \A m \in links : m.issue = s[1].issue => board'[m.ticket].shows = s[1].at
        BY <1>6, <1>8, <1>9, <1>10, <2>1, <2>5
      <3>2. sync'[p].at = "touch" /\ sync'[p].todo = s /\ tracker' = tracker /\ links' = links  BY <1>2, <2>7, <2>9
      <3> QED  BY <1>11, <3>1, <3>2 DEF PullSound, LinkOf
    <2>16. PushSound(p)'  BY <2>7, <2>9 DEF PushSound
    <2>17. CaughtUp(p)'
      <3>1. Passing(p)' /\ sync'[p].todo = sync[p].todo  BY <1>4, <1>10, <2>7, <2>9 DEF Passing, Pulls
      <3> QED  BY <1>1, <1>2, <1>4, <1>12, <2>10, <3>1, NewChangeIsNewer
    <2> QED  BY <2>10, <2>12, <2>13, <2>14, <2>15, <2>16, <2>17 DEF TablesSound, Sound
  <1>13. CASE sync' = [sync EXCEPT ![p].seen = board[l.ticket].version, ![p].again = TRUE] /\ UNCHANGED <<board, leapt>>
    <2>1. PICK r : r = [sync[p] EXCEPT !.seen = board[l.ticket].version, !.again = TRUE]  OBVIOUS
    <2>2. r \in SyncRuns /\ r.at = "update" /\ r.todo = s  BY <1>2, <1>4, <1>9, <1>10, <2>1 DEF SyncRuns
    <2>3. sync' = [sync EXCEPT ![p] = r]  BY <1>1, <1>13, <2>1 DEF SyncTyped, SyncRuns
    <2>4. TablesSound /\ Moves(p) /\ sync'[p] = r  BY <1>1, <1>2, <1>13, <2>2, <2>3, TablesKept
    <2>5. PullSound(p)'
      <3>1. sync'[p].at = "update" /\ sync'[p].todo = s /\ tracker' = tracker /\ links' = links  BY <1>2, <2>2, <2>4
      <3> QED  BY <1>11, <3>1 DEF PullSound, LinkOf
    <2>6. PushSound(p)'  BY <2>2, <2>4 DEF PushSound
    <2>7. Passing(p)' /\ sync'[p].todo = sync[p].todo  BY <1>4, <1>10, <2>2, <2>4 DEF Passing, Pulls
    <2>8. CaughtUp(p)'  BY <1>1, <1>2, <1>4, <1>13, <2>4, <2>7, NewChangeIsNewer DEF TablesSound
    <2> QED  BY <2>4, <2>5, <2>6, <2>8 DEF Sound
  <1>14. CASE sync' = [sync EXCEPT ![p] = Done(p)] /\ leapt' = TRUE /\ UNCHANGED board
    <2>1. Done(p) \in SyncRuns /\ Done(p).at = "pull" /\ Done(p).todo = Tail(sync[p].todo)  BY <1>1, <1>4, DoneTyped
    <2>2. sync' \in [SyncProjects -> SyncRuns] /\ sync'[p] = Done(p) /\ \A q \in SyncProjects \ {p} : sync'[q] = sync[q]
      BY <1>1, <1>14, <2>1 DEF SyncTyped
    <2>3. SyncTyped'  BY <1>1, <1>2, <1>14, <2>2 DEF SyncTyped
    <2>4. OneToOne' /\ LinkNotAhead'  BY <1>1, <1>2, <1>14 DEF OneToOne, LinkNotAhead
    <2>5. Moves(p)
      <3>1. \A j \in SyncIssues : tracker[j].at \in Nat  BY <1>1 DEF SyncTyped
      <3> QED  BY <1>2, <1>14, <2>2, <3>1 DEF Moves
    <2>6. sync'[p].at = "pull" /\ sync'[p].todo = Tail(sync[p].todo)  BY <2>1, <2>2
    <2>7. tracker' = tracker /\ leapt' /\ (OwnLinks(p)' => OwnLinks(p))  BY <1>2, <1>14 DEF OwnLinks
    <2>8. Sound(p)  BY <1>1, <1>4, <2>3, <2>6, <2>7, PullAdvances DEF Sound
    <2> QED  BY <2>3, <2>4, <2>5, <2>8 DEF TablesSound
  <1> QED  BY <1>3, <1>12, <1>13, <1>14

LEMMA RunStepSound ==
  ASSUME NEW p \in SyncProjects, Inductive(p), RunStep(p) \/ HandStep(p)
  PROVE  TablesSound /\ Moves(p) /\ Sound(p)
  <1>1. CASE RunStep(p)
    BY <1>1, StartSyncSound, PullNewSound, PullOldSound, PullReadsSound, PullWritesSound, TouchLinkSound,
       StartPushSound, CreateIssueSound, LinkIssueSound, CloseIssueSound, PushNothingSound, EndSyncSound DEF RunStep
  <1>2. CASE HandStep(p)  BY <1>2, IssueByHandSound, TicketByHandSound DEF HandStep
  <1> QED  BY <1>1, <1>2

LEMMA OthersCaughtUp ==
  ASSUME SyncTyped, TablesSound, NEW p \in SyncProjects, Moves(p),
         NEW q \in SyncProjects, q # p, PullSound(q), CaughtUp(q)
  PROVE  CaughtUp(q)'
  <1>1. SUFFICES ASSUME OwnLinks(q)'  PROVE CaughtUp(q)'
    BY DEF CaughtUp
  <1>2. \A l \in links' : l \in links  BY <1>1 DEF Moves, OwnLinks
  <1>3. \A l \in links : l \in links'
    <2> SUFFICES ASSUME NEW l \in links  PROVE l \in links'
      OBVIOUS
    <2>1. PICK m \in links' : m.issue = l.issue  BY DEF Moves
    <2>2. l.issue \in SyncIssues /\ tracker[l.issue].repo # "none"  BY DEF SyncTyped
    <2>3. tracker'[l.issue].repo = q /\ tracker'[l.issue].repo = tracker[l.issue].repo  BY <1>1, <2>1, <2>2 DEF OwnLinks, Moves
    <2> QED  BY <2>3 DEF Moves
  <1>4. links' = links  BY <1>2, <1>3
  <1>5. /\ sync'[q] = sync[q] /\ (leapt => leapt')
        /\ \A i \in SyncIssues : /\ tracker[i].repo # "none" => tracker'[i].repo = tracker[i].repo
                                 /\ tracker'[i] # tracker[i] => tracker'[i].at > time
    BY DEF Moves
  <1>6. (Passing(q)' <=> Passing(q)) /\ sync'[q].todo = sync[q].todo  BY <1>5 DEF Passing
  <1> QED  BY <1>4, <1>5, <1>6, NewChangeIsNewer DEF TablesSound

LEMMA DeathSound ==
  ASSUME SyncInductive, ServerDiesSyncing
  PROVE  SyncInductive'
  <1>1. SyncTyped /\ OneToOne /\ LinkNotAhead  BY DEF SyncInductive
  <1>2. sync' = [p \in SyncProjects |-> Rest] /\ UNCHANGED <<tracker, links, board, time, leapt>>  BY DEF ServerDiesSyncing
  <1>3. Rest \in SyncRuns /\ Rest.at = "idle"  BY EmptySeq DEF SyncRuns, Rest
  <1>4. SyncTyped'  BY <1>1, <1>2, <1>3 DEF SyncTyped
  <1>5. OneToOne' /\ LinkNotAhead'  BY <1>1, <1>2 DEF OneToOne, LinkNotAhead
  <1>6. ASSUME NEW p \in SyncProjects  PROVE PullSound(p)' /\ PushSound(p)' /\ CaughtUp(p)'
    <2>1. sync'[p] = Rest  BY <1>2
    <2>2. PullSound(p)' /\ PushSound(p)' /\ ~Passing(p)'  BY <2>1, <1>3 DEF PullSound, PushSound, Passing, Pulls
    <2>3. PullSound(p) /\ CaughtUp(p)  BY DEF SyncInductive
    <2> QED  BY <1>1, <1>2, <2>2, <2>3, GivenUp
  <1> QED  BY <1>4, <1>5, <1>6 DEF SyncInductive

LEMMA SyncStarts == IssueSyncInit => SyncInductive
  <1> SUFFICES ASSUME IssueSyncInit  PROVE SyncInductive
    OBVIOUS
  <1>1. Rest \in SyncRuns /\ Rest.at = "idle"  BY EmptySeq DEF SyncRuns, Rest
  <1>2. /\ links = {} /\ sync = [p \in SyncProjects |-> Rest] /\ leapt = FALSE /\ time = 0
        /\ tracker \in [SyncIssues -> [repo : SyncProjects \cup {"none"}, at : Nat, open : BOOLEAN]]
        /\ board \in [SyncTickets -> [project : SyncProjects \cup {"none"}, open : BOOLEAN, version : Nat, shows : Nat]]
        /\ \A i \in SyncIssues : tracker[i].at = 0
    BY DEF IssueSyncInit, NoIssue, NoTicket
  <1>3. SyncTyped
    <2>1. time \in 0..IssueChanges /\ \A i \in SyncIssues : tracker[i].at <= time
      BY <1>2, IssueSyncAssumption DEF IssueSyncAssumption
    <2>2. sync \in [SyncProjects -> SyncRuns]  BY <1>1, <1>2
    <2>3. leapt \in BOOLEAN /\ links = {}  BY <1>2
    <2> QED  BY <1>2, <2>1, <2>2, <2>3 DEF SyncTyped
  <1>4. OneToOne /\ LinkNotAhead
    <2>1. links = {}  BY <1>2
    <2> QED  BY <2>1 DEF OneToOne, LinkNotAhead
  <1>5. ASSUME NEW p \in SyncProjects  PROVE PullSound(p) /\ PushSound(p) /\ CaughtUp(p)
    BY <1>1, <1>2 DEF PullSound, PushSound, CaughtUp, Passing, UpToDate, Pulls
  <1> QED  BY <1>3, <1>4, <1>5 DEF SyncInductive

LEMMA SyncStep ==
  ASSUME SyncInductive, IssueSyncNext
  PROVE  SyncInductive'
  <1>1. CASE ServerDiesSyncing  BY <1>1, DeathSound
  <1>2. CASE \E p \in SyncProjects : RunStep(p) \/ HandStep(p)
    <2>1. PICK p \in SyncProjects : RunStep(p) \/ HandStep(p)  BY <1>2
    <2>2. Inductive(p)  BY DEF SyncInductive, Inductive
    <2>3. TablesSound /\ Moves(p) /\ Sound(p)  BY <2>1, <2>2, RunStepSound
    <2>4. ASSUME NEW q \in SyncProjects, q # p  PROVE Sound(q)
      <3>1. /\ SyncTyped /\ SyncTyped' /\ OneToOne /\ OneToOne'
            /\ PullSound(q) /\ PushSound(q) /\ CaughtUp(q)
        BY <2>3 DEF SyncInductive, TablesSound
      <3>2. PullSound(q)' /\ PushSound(q)'  BY <2>3, <2>4, <3>1, OthersSound
      <3>3. CaughtUp(q)'  BY <2>3, <2>4, <3>1, OthersCaughtUp
      <3> QED  BY <3>2, <3>3 DEF Sound
    <2> QED  BY <2>3, <2>4 DEF SyncInductive, TablesSound, Sound
  <1> QED  BY <1>1, <1>2 DEF IssueSyncNext, RunStep, HandStep

\* What the induction says is what was to hold.
LEMMA SyncAgrees == SyncInductive => IssueSyncInv
  <1> SUFFICES ASSUME SyncInductive  PROVE IssueSyncInv
    OBVIOUS
  <1>1. SyncTyped  BY DEF SyncInductive
  <1>2. IssueSyncTypeOK
    <2>1. links \subseteq [issue : SyncIssues, ticket : SyncTickets, at : 0..IssueChanges]
      <3> SUFFICES ASSUME NEW l \in links  PROVE l \in [issue : SyncIssues, ticket : SyncTickets, at : 0..IssueChanges]
        OBVIOUS
      <3>1. l \in [issue : SyncIssues, ticket : SyncTickets, at : Nat] /\ l.at <= time /\ time \in 0..IssueChanges
        BY <1>1 DEF SyncTyped
      <3>2. l.at \in 0..IssueChanges  BY <3>1, IssueSyncAssumption DEF IssueSyncAssumption
      <3> QED  BY <3>1, <3>2
    <2> QED  BY <2>1, <1>1 DEF IssueSyncTypeOK, SyncTyped, SyncRuns
  <1>3. NoChangeLost
    <2> SUFFICES ASSUME ~leapt, NEW l \in links, NEW i \in SyncIssues,
                        tracker[i].repo = tracker[l.issue].repo, \A m \in links : tracker[m.issue].repo = tracker[i].repo,
                        0 < tracker[i].at, tracker[i].at < l.at, ~StillListed(i)
                 PROVE  \E m \in LinkOf(i) : m.at = tracker[i].at
      BY DEF NoChangeLost
    <2>1. PICK p : p = tracker[i].repo  OBVIOUS
    <2>2. p \in SyncProjects  BY <1>1, <2>1 DEF SyncTyped
    <2>3. CaughtUp(p) /\ OwnLinks(p)  BY <2>1, <2>2 DEF SyncInductive, OwnLinks
    <2>4. Taken(i)
      <3>1. CASE ~Passing(p)  BY <2>1, <2>3, <3>1 DEF CaughtUp, UpToDate
      <3>2. CASE Passing(p)
        <4>1. Passed(p)  BY <2>3, <3>2 DEF CaughtUp
        <4>2. \A k \in DOMAIN sync[p].todo : sync[p].todo[k].issue # i  BY <2>2, <3>2 DEF StillListed, Passing, Pulls
        <4>3. tracker[i].at < sync[p].todo[1].at
          <5>1. l.at <= sync[p].todo[1].at /\ l.at \in Nat /\ tracker[i].at \in Nat  BY <4>1, <1>1 DEF Passed, SyncTyped
          <5>2. sync[p].todo[1].at \in Nat
            <6>1. 1 \in DOMAIN sync[p].todo  BY <1>1, <2>2, <3>2, RestOf DEF SyncTyped, SyncRuns, Passing
            <6>2. sync[p].todo[1] \in Entries  BY <6>1, <2>2, <3>2 DEF SyncInductive, PullSound, Passing
            <6> QED  BY <6>2 DEF Entries
          <5> QED  BY <5>1, <5>2
        <4> QED  BY <4>1, <4>2, <4>3, <2>1 DEF Passed
      <3> QED  BY <3>1, <3>2
    <2> QED  BY <2>4 DEF Taken, LinkOf
  <1> QED  BY <1>2, <1>3 DEF SyncInductive, IssueSyncInv

\* Two synchronised boards agree through their links, whoever is syncing (src/sync/service.ts).
THEOREM SyncHolds == IssueSyncSpec => []IssueSyncInv
  <1>1. IssueSyncInit => SyncInductive  BY SyncStarts
  <1>2. SyncInductive /\ [IssueSyncNext]_syncVars => SyncInductive'
    <2> SUFFICES ASSUME SyncInductive, [IssueSyncNext]_syncVars  PROVE SyncInductive'
      OBVIOUS
    <2>1. CASE IssueSyncNext  BY <2>1, SyncStep
    <2>2. CASE UNCHANGED syncVars
      <3>1. UNCHANGED <<tracker, links, board, sync, time, leapt>>  BY <2>2 DEF syncVars
      <3>2. SyncTyped' /\ OneToOne' /\ LinkNotAhead'  BY <3>1 DEF SyncInductive, SyncTyped, OneToOne, LinkNotAhead
      <3>3. ASSUME NEW p \in SyncProjects  PROVE PullSound(p)' /\ PushSound(p)' /\ CaughtUp(p)'
        <4>1. PullSound(p) /\ PushSound(p) /\ CaughtUp(p)  BY DEF SyncInductive
        <4>2. PullSound(p)' /\ PushSound(p)'  BY <3>1, <4>1 DEF PullSound, PushSound, LinkOf, LinksOf
        <4>3. CaughtUp(p)'  BY <3>1, <4>1 DEF CaughtUp, Passing, Passed, UpToDate, OwnLinks, Taken
        <4> QED  BY <4>2, <4>3
      <3> QED  BY <3>2, <3>3 DEF SyncInductive
    <2> QED  BY <2>1, <2>2
  <1>3. SyncInductive => IssueSyncInv  BY SyncAgrees
  <1> QED  BY <1>1, <1>2, <1>3, PTL DEF IssueSyncSpec

-----------------------------------------------------------------------------
(* The components of the database together *)

\* Projects, the tickets that follow a tracker and notes, each whatever the others do.
THEOREM BoardHolds == ProjectsSpec /\ IssueSyncSpec /\ NotesSpec => []BoardInv
<1>1. ProjectsInv /\ IssueSyncInv /\ NotesInv => BoardInv
  BY DEF BoardInv
<1>2. QED
  BY <1>1, ProjectsHold, SyncHolds, NotesHold, PTL

\* What is read back is what there is: of the index of documents, and of projects.
THEOREM KnowledgeHolds == DocsSpec /\ ProjectsSpec => []KnowledgeInv
<1>1. DocsInv /\ ReadsRight => KnowledgeInv
  BY DEF KnowledgeInv
<1>2. QED
  BY <1>1, DocsHold, ReadsHold, PTL

\* Where one component of the database acts at a time, each takes its own steps or none.
LEMMA OneOfThemActs ==
  [DataNext]_dataVars =>
    /\ [Next]_vars /\ [BackupsNext]_backupVars /\ [AccessNext]_accessVars
    /\ [ProjectsNext]_projectVars /\ [IssueSyncNext]_syncVars /\ [NotesNext]_notesVars /\ [DocsNext]_docVars
<1>1. ASSUME UNCHANGED dataVars
      PROVE  UNCHANGED <<vars, backupVars, accessVars, projectVars, syncVars, notesVars, docVars>>
  BY <1>1 DEF dataVars
<1>2. ASSUME DataNext
      PROVE  /\ Next \/ UNCHANGED vars
             /\ BackupsNext \/ UNCHANGED backupVars
             /\ AccessNext \/ UNCHANGED accessVars
             /\ ProjectsNext \/ UNCHANGED projectVars
             /\ IssueSyncNext \/ UNCHANGED syncVars
             /\ NotesNext \/ UNCHANGED notesVars
             /\ DocsNext \/ UNCHANGED docVars
  BY <1>2 DEF DataNext, OthersOf
<1>3. QED
  BY <1>1, <1>2

\* The run in which the components of the database take turns is one of those that the theorems are about.
THEOREM DataTogether ==
  ASSUME Serial
  PROVE  DataSpec => [](OneEngine /\ LockInv /\ BackupsInv /\ AccessInv /\ BoardInv /\ KnowledgeInv)
<1>1. DataInit =>
        Init /\ BackupsInit /\ AccessInit /\ ProjectsInit /\ IssueSyncInit /\ NotesInit /\ DocsInit
  BY DEF DataInit
<1>2. DataSpec => Spec /\ BackupsSpec /\ AccessSpec /\ ProjectsSpec /\ IssueSyncSpec /\ NotesSpec /\ DocsSpec
  BY <1>1, OneOfThemActs, PTL
  DEF DataSpec, Spec, BackupsSpec, AccessSpec, ProjectsSpec, IssueSyncSpec, NotesSpec, DocsSpec
<1>3. Spec => [](OneEngine /\ LockInv)
  BY LockInvariant, MutualExclusion, PTL
<1>4. QED
  BY <1>2, <1>3, BackupsHold, AccessHolds, BoardHolds, KnowledgeHolds, PTL
==============================================================================
