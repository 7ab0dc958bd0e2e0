----------------------------- MODULE ServicesHold -----------------------------
(*****************************************************************************)
(* Vaults that are watched and bound (VaultWatch, ProjectVaults), the skills  *)
(* that are installed (Skills), the policies (Policies), and then the services *)
(* together: what the runs check of several components at once holds however *)
(* their steps interleave, from the theorems about each.                      *)
(*****************************************************************************)
EXTENDS MCServices, ServiceProofs, ListProofs

-----------------------------------------------------------------------------
(* A vault that changes while it is indexed *)

VaultSpec == VaultInit /\ [][VaultNext]_vaultVars

VaultTexts == VaultVersions \cup {0}
VaultReads == {NoReindex} \cup
  [pc : {"asked", "embedding"}, file : VaultFiles, hash : VaultVersions, text : VaultTexts, first : BOOLEAN]
VaultTold == {"change", "unlink"}

VaultTyped ==
  /\ vaultFile \in [VaultFiles -> VaultTexts]
  /\ vaultRows \in [VaultFiles -> [text : VaultTexts, hash : VaultTexts]]
  /\ vaultEvents \in [VaultFiles -> Seq(VaultTold)]
  /\ debounce \cup missed \cup raced \cup swallowed \subseteq VaultFiles
  /\ reindex \in [ReindexSlots -> VaultReads]

\* A file that no two readings or changes crossed is read by one reindexing, which holds what the file holds
\* as long as it has not looked twice.
ReadOnce(f) ==
  f \notin raced =>
    /\ \A s, t \in InFlight(f) : s = t
    /\ \A s \in InFlight(f) : /\ reindex[s].pc = "asked" => reindex[s].hash = vaultFile[f]
                              /\ reindex[s].pc = "embedding" => reindex[s].text = reindex[s].hash
    /\ vaultRows[f].text = vaultRows[f].hash

\* The last of what is to be told says whether the file is there.
EventsTell(f) ==
  vaultEvents[f] # <<>> => Listening /\ (vaultEvents[f][Len(vaultEvents[f])] = "unlink" <=> vaultFile[f] = 0)

\* Where all was told, the rows or the reindexing that will replace them hold the text of the file, unless
\* what was to bring them there failed.
RowsFollow(f) ==
  f \notin missed \cup raced /\ vaultEvents[f] = <<>> =>
    /\ vaultFile[f] = 0 => (vaultRows[f] = NoRows \/ f \in swallowed) /\ InFlight(f) = {}
    /\ f \notin debounce => /\ InFlight(f) = {} => vaultRows[f].text = vaultFile[f] \/ f \in swallowed
                            /\ \A s \in InFlight(f) : reindex[s].pc = "embedding" => reindex[s].text = vaultFile[f]

FileSound(f) == ReadOnce(f) /\ EventsTell(f) /\ RowsFollow(f)

WatchTyped ==
  /\ watcher \in Nat /\ alive \subseteq Nat /\ crossed \in BOOLEAN /\ closing \in [WatchStops -> Nat]
  /\ starting \in [pc : {"off", "called", "reading"}, todo : SUBSET VaultFiles]
  /\ starting.todo # {} => starting.pc # "off"
  /\ \E n \in Nat : \A w \in alive : w <= n

WatchSound ==
  /\ starting.pc # "off" => watcher = 0
  /\ 0 \notin alive
  /\ ~crossed => /\ alive \subseteq {watcher}
                 /\ \A s \in WatchStops : closing[s] # 0 => closing[s] = watcher
                 /\ \A s, t \in WatchStops : closing[s] # 0 /\ closing[t] # 0 => s = t

VaultInductive == VaultTyped /\ (\A f \in VaultFiles : FileSound(f)) /\ WatchTyped /\ WatchSound

LEMMA VaultGives == VaultInductive => VaultInv
<1> SUFFICES ASSUME VaultInductive PROVE VaultInv
  OBVIOUS
<1>1. VaultTyped /\ WatchTyped /\ WatchSound
  BY DEF VaultInductive
<1>2. VaultTypeOK
  <2>1. \A s \in ReindexSlots : reindex[s].pc \in {"off", "asked", "embedding"}
    BY <1>1 DEF VaultTyped, VaultReads, NoReindex
  <2>2. QED
    BY <1>1, <2>1 DEF VaultTyped, WatchTyped, VaultTypeOK, VaultTexts
<1>3. IndexCurrent
  BY DEF IndexCurrent, VaultInductive, FileSound, RowsFollow, Quiet
<1>4. NoStrayWatcher
  BY <1>1 DEF WatchSound, NoStrayWatcher
<1>5. QED
  BY <1>2, <1>3, <1>4 DEF VaultInv

LEMMA VaultStarts == VaultInit => VaultInductive
<1> SUFFICES ASSUME VaultInit PROVE VaultInductive
  OBVIOUS
<1>1. VaultTyped
  BY DEF VaultInit, VaultTyped, VaultTexts, VaultReads, NoRows, NoReindex
<1>2. ASSUME NEW f \in VaultFiles PROVE FileSound(f)
  <2>1. InFlight(f) = {}
    BY VaultAssumption DEF VaultAssumption, VaultInit, InFlight, NoReindex
  <2>2. QED
    BY <2>1 DEF VaultInit, FileSound, ReadOnce, EventsTell, RowsFollow, NoRows
<1>3. WatchTyped /\ WatchSound
  BY DEF VaultInit, WatchTyped, WatchSound, NotStarting
<1>4. QED
  BY <1>1, <1>2, <1>3 DEF VaultInductive

\* What holds of a file goes on holding as long as nothing of it changes.
LEMMA FileUntouched ==
  ASSUME NEW f \in VaultFiles, FileSound(f), Listening => Listening',
         vaultFile'[f] = vaultFile[f], vaultRows'[f] = vaultRows[f], vaultEvents'[f] = vaultEvents[f],
         f \in debounce <=> f \in debounce', f \in missed <=> f \in missed', f \in raced <=> f \in raced',
         f \in swallowed <=> f \in swallowed',
         \A s \in ReindexSlots : reindex'[s] = reindex[s] \/ (reindex[s].file # f /\ reindex'[s].file # f)
  PROVE  FileSound(f)'
<1>1. InFlight(f)' = InFlight(f) /\ \A s \in InFlight(f) : reindex'[s] = reindex[s]
  BY DEF InFlight
<1>2. QED
  BY <1>1 DEF FileSound, ReadOnce, EventsTell, RowsFollow

LEMMA EventAdded ==
  ASSUME NEW events \in Seq(VaultTold), NEW e \in VaultTold
  PROVE  /\ Append(events, e) \in Seq(VaultTold) /\ Append(events, e) # <<>>
         /\ Append(events, e)[Len(Append(events, e))] = e
OBVIOUS

LEMMA EventTaken ==
  ASSUME NEW events \in Seq(VaultTold), events # <<>>
  PROVE  /\ Tail(events) \in Seq(VaultTold)
         /\ Tail(events) = <<>> => events[Len(events)] = Head(events)
         /\ Tail(events) # <<>> => Tail(events)[Len(Tail(events))] = events[Len(events)]
OBVIOUS

LEMMA FileChangesSound ==
  ASSUME VaultTyped, \A f \in VaultFiles : FileSound(f), NEW f \in VaultFiles, NEW v \in VaultTexts, FileChanges(f, v)
  PROVE  VaultTyped' /\ \A g \in VaultFiles : FileSound(g)'
<1>1. /\ v # vaultFile[f] /\ vaultFile' = [vaultFile EXCEPT ![f] = v]
      /\ UNCHANGED <<vaultRows, debounce, reindex, swallowed, watchVars>>
      /\ raced' = IF \E s \in InFlight(f) : reindex[s].pc = "asked" THEN raced \cup {f} ELSE raced
  BY DEF FileChanges
<1>2. CASE Listening
  <2>1. /\ vaultEvents' = [vaultEvents EXCEPT ![f] = Append(@, IF v = 0 THEN "unlink" ELSE "change")]
        /\ missed' = missed /\ Listening'
    BY <1>1, <1>2 DEF FileChanges, Listening, watchVars
  <2> DEFINE told == IF v = 0 THEN "unlink" ELSE "change"
  <2>2. vaultEvents[f] \in Seq(VaultTold) /\ told \in VaultTold
    BY DEF VaultTyped, VaultTold
  <2>3. /\ vaultEvents'[f] \in Seq(VaultTold) /\ vaultEvents'[f] # <<>>
        /\ vaultEvents'[f][Len(vaultEvents'[f])] = told
    BY <2>1, <2>2, EventAdded DEF VaultTyped
  <2>4. VaultTyped'
    <3>1. vaultEvents' \in [VaultFiles -> Seq(VaultTold)]
      BY <2>1, <2>3 DEF VaultTyped
    <3>2. QED
      BY <1>1, <2>1, <3>1 DEF VaultTyped
  <2>5. FileSound(f)'
    <3>1. EventsTell(f)'
      BY <1>1, <2>1, <2>3 DEF EventsTell, VaultTyped
    <3>2. ReadOnce(f)'
      BY <1>1 DEF ReadOnce, FileSound, InFlight, VaultTyped
    <3>3. QED
      BY <2>3, <3>1, <3>2 DEF FileSound, RowsFollow
  <2>6. ASSUME NEW g \in VaultFiles, g # f PROVE FileSound(g)'
    BY <1>1, <2>1, <2>6, FileUntouched DEF VaultTyped
  <2>7. QED
    BY <2>4, <2>5, <2>6
<1>3. CASE ~Listening
  <2>1. missed' = missed \cup {f} /\ vaultEvents' = vaultEvents /\ vaultEvents[f] = <<>>
    BY <1>1, <1>3 DEF FileChanges, FileSound, EventsTell
  <2>2. VaultTyped'
    BY <1>1, <2>1 DEF VaultTyped
  <2>3. FileSound(f)'
    <3>1. ReadOnce(f)'
      BY <1>1 DEF ReadOnce, FileSound, InFlight, VaultTyped
    <3>2. QED
      BY <2>1, <3>1 DEF FileSound, EventsTell, RowsFollow
  <2>4. ASSUME NEW g \in VaultFiles, g # f PROVE FileSound(g)'
    BY <1>1, <1>3, <2>1, <2>4, FileUntouched DEF VaultTyped
  <2>5. QED
    BY <2>2, <2>3, <2>4
<1>4. QED
  BY <1>2, <1>3

\* A reindexing begins: it holds what the file holds now, alone or under a crossing that is noted.
LEMMA BeginSound ==
  ASSUME VaultTyped, NEW f \in VaultFiles, ReadOnce(f), Begin(f, TRUE) \/ Begin(f, FALSE),
         vaultFile' = vaultFile, vaultRows' = vaultRows
  PROVE  /\ ReadOnce(f)' /\ raced \subseteq raced' /\ raced' \subseteq raced \cup {f}
         /\ reindex' \in [ReindexSlots -> VaultReads]
         /\ \A s \in ReindexSlots : reindex'[s] = reindex[s] \/ (reindex[s] = NoReindex /\ reindex'[s].file = f)
         /\ vaultFile[f] = 0 => reindex' = reindex
         /\ vaultFile[f] # 0 /\ f \notin raced' =>
              /\ InFlight(f)' # {} /\ \A s \in InFlight(f)' : reindex'[s].pc = "asked"
<1>1. CASE vaultFile[f] = 0
  BY <1>1 DEF Begin, ReadOnce, InFlight, VaultTyped
<1>2. CASE vaultFile[f] # 0
  <2>1. PICK first \in BOOLEAN : Begin(f, first)
    OBVIOUS
  <2>2. PICK s \in ReindexSlots :
          /\ reindex[s] = NoReindex
          /\ reindex' = [reindex EXCEPT ![s] = [pc |-> "asked", file |-> f, hash |-> vaultFile[f], text |-> 0, first |-> first]]
          /\ raced' = IF InFlight(f) # {} THEN raced \cup {f} ELSE raced
    BY <1>2, <2>1 DEF Begin
  <2> DEFINE read == [pc |-> "asked", file |-> f, hash |-> vaultFile[f], text |-> 0, first |-> first]
  <2>3. read \in VaultReads
    BY <1>2 DEF VaultTyped, VaultTexts, VaultReads
  <2>4. reindex'[s] = read /\ \A t \in ReindexSlots : t # s => reindex'[t] = reindex[t]
    BY <2>2 DEF VaultTyped
  <2>5. InFlight(f)' = InFlight(f) \cup {s}
    BY <2>4 DEF InFlight
  <2>6. reindex' \in [ReindexSlots -> VaultReads]
    BY <2>2, <2>3 DEF VaultTyped
  <2>7. f \notin raced' => f \notin raced /\ InFlight(f)' = {s}
    BY <2>2, <2>5
  <2>8. ReadOnce(f)'
    BY <2>4, <2>7 DEF ReadOnce
  <2>9. QED
    BY <1>2, <2>2, <2>4, <2>6, <2>7, <2>8
<1>3. QED
  BY <1>1, <1>2

LEMMA TimerFiresSound ==
  ASSUME VaultTyped, \A f \in VaultFiles : FileSound(f), NEW f \in VaultFiles, TimerFires(f)
  PROVE  VaultTyped' /\ \A g \in VaultFiles : FileSound(g)'
<1>1. /\ debounce' = debounce \ {f} /\ Begin(f, FALSE)
      /\ UNCHANGED <<vaultFile, vaultRows, vaultEvents, missed, swallowed, alive>>
  BY DEF TimerFires, watchVars
<1>2. /\ ReadOnce(f)' /\ raced \subseteq raced' /\ raced' \subseteq raced \cup {f}
      /\ reindex' \in [ReindexSlots -> VaultReads]
      /\ \A s \in ReindexSlots : reindex'[s] = reindex[s] \/ (reindex[s] = NoReindex /\ reindex'[s].file = f)
      /\ vaultFile[f] = 0 => reindex' = reindex
      /\ vaultFile[f] # 0 /\ f \notin raced' =>
           /\ InFlight(f)' # {} /\ \A s \in InFlight(f)' : reindex'[s].pc = "asked"
  BY <1>1, BeginSound DEF FileSound
<1>3. VaultTyped'
  BY <1>1, <1>2 DEF VaultTyped
<1>4. FileSound(f)'
  <2>1. EventsTell(f)'
    BY <1>1 DEF FileSound, EventsTell, Listening
  <2>2. RowsFollow(f)'
    <3>1. CASE vaultFile[f] = 0
      BY <1>1, <1>2, <3>1 DEF FileSound, RowsFollow, InFlight, NoRows
    <3>2. CASE vaultFile[f] # 0
      BY <1>1, <1>2, <3>2 DEF RowsFollow
    <3>3. QED
      BY <3>1, <3>2
  <2>3. QED
    BY <1>2, <2>1, <2>2 DEF FileSound
<1>5. ASSUME NEW g \in VaultFiles, g # f PROVE FileSound(g)'
  BY <1>1, <1>2, <1>5, FileUntouched, VaultAssumption DEF VaultAssumption, NoReindex, Listening
<1>6. QED
  BY <1>3, <1>4, <1>5

LEMMA IndexNextSound ==
  ASSUME VaultTyped, \A f \in VaultFiles : FileSound(f), NEW f \in VaultFiles, IndexNext(f)
  PROVE  VaultTyped' /\ \A g \in VaultFiles : FileSound(g)'
<1>1. /\ Begin(f, TRUE) /\ UNCHANGED <<vaultFile, vaultRows, vaultEvents, debounce, swallowed, alive>>
      /\ missed' = IF vaultFile[f] = 0 /\ (vaultRows[f] # NoRows \/ InFlight(f) # {}) THEN missed ELSE missed \ {f}
  BY DEF IndexNext
<1>2. /\ ReadOnce(f)' /\ raced \subseteq raced' /\ raced' \subseteq raced \cup {f}
      /\ reindex' \in [ReindexSlots -> VaultReads]
      /\ \A s \in ReindexSlots : reindex'[s] = reindex[s] \/ (reindex[s] = NoReindex /\ reindex'[s].file = f)
      /\ vaultFile[f] = 0 => reindex' = reindex
      /\ vaultFile[f] # 0 /\ f \notin raced' =>
           /\ InFlight(f)' # {} /\ \A s \in InFlight(f)' : reindex'[s].pc = "asked"
  BY <1>1, BeginSound DEF FileSound
<1>3. VaultTyped'
  BY <1>1, <1>2 DEF VaultTyped
<1>4. FileSound(f)'
  <2>1. EventsTell(f)'
    BY <1>1 DEF FileSound, EventsTell, Listening
  <2>2. RowsFollow(f)'
    <3>1. CASE vaultFile[f] = 0
      <4>1. InFlight(f)' = InFlight(f) /\ \A s \in InFlight(f) : reindex'[s] = reindex[s]
        BY <1>2, <3>1 DEF InFlight
      <4>2. CASE vaultRows[f] # NoRows \/ InFlight(f) # {}
        BY <1>1, <1>2, <3>1, <4>1, <4>2 DEF FileSound, RowsFollow
      <4>3. CASE vaultRows[f] = NoRows /\ InFlight(f) = {}
        BY <1>1, <3>1, <4>1, <4>3 DEF RowsFollow, NoRows
      <4>4. QED
        BY <4>2, <4>3
    <3>2. CASE vaultFile[f] # 0
      BY <1>1, <1>2, <3>2 DEF RowsFollow
    <3>3. QED
      BY <3>1, <3>2
  <2>3. QED
    BY <1>2, <2>1, <2>2 DEF FileSound
<1>5. ASSUME NEW g \in VaultFiles, g # f PROVE FileSound(g)'
  BY <1>1, <1>2, <1>5, FileUntouched, VaultAssumption DEF VaultAssumption, NoReindex, Listening
<1>6. QED
  BY <1>3, <1>4, <1>5

LEMMA LookSound ==
  ASSUME VaultTyped, \A f \in VaultFiles : FileSound(f), NEW s \in ReindexSlots, Look(s)
  PROVE  VaultTyped' /\ \A g \in VaultFiles : FileSound(g)'
<1>0. PICK f \in VaultFiles, h \in VaultVersions : reindex[s].file = f /\ reindex[s].hash = h /\ h # 0
  BY VaultAssumption DEF VaultAssumption, Look, VaultTyped, VaultReads, NoReindex
<1>1. /\ reindex[s].pc = "asked" /\ reindex[s].file = f /\ reindex[s].hash = h /\ h # 0
      /\ UNCHANGED <<vaultFile, vaultRows, vaultEvents, debounce, missed, raced, alive>>
      /\ swallowed' = IF Unchanged(f, h) THEN swallowed \ {f} ELSE swallowed
  BY <1>0 DEF Look, watchVars
<1>2. s \in InFlight(f) /\ FileSound(f)
  BY <1>1 DEF InFlight
<1>3. CASE Unchanged(f, h) \/ vaultFile[f] = 0
  <2>1. reindex' = [reindex EXCEPT ![s] = NoReindex]
    BY <1>1, <1>3 DEF Look
  <2>2. VaultTyped'
    BY <1>1, <2>1 DEF VaultTyped, VaultReads
  <2>3. InFlight(f)' = InFlight(f) \ {s} /\ \A t \in InFlight(f)' : reindex'[t] = reindex[t]
    BY <1>1, <2>1, VaultAssumption DEF VaultAssumption, InFlight, VaultTyped, NoReindex
  <2>4. ReadOnce(f)'
    BY <1>1, <1>2, <2>3 DEF FileSound, ReadOnce
  <2>5. f \notin raced => InFlight(f)' = {} /\ vaultFile[f] = h
    BY <1>1, <1>2, <2>3 DEF FileSound, ReadOnce
  <2>6. RowsFollow(f)'
    BY <1>1, <1>2, <1>3, <2>5 DEF FileSound, RowsFollow, ReadOnce, Unchanged
  <2>7. FileSound(f)'
    BY <1>1, <1>2, <2>4, <2>6 DEF FileSound, EventsTell, Listening
  <2>8. ASSUME NEW g \in VaultFiles, g # f PROVE FileSound(g)'
    BY <1>1, <2>1, <2>8, FileUntouched, VaultAssumption DEF VaultAssumption, VaultTyped, NoReindex, Listening
  <2>9. QED
    BY <2>2, <2>7, <2>8
<1>4. CASE ~(Unchanged(f, h) \/ vaultFile[f] = 0)
  <2>1. PICK later : later = [reindex[s] EXCEPT !.pc = "embedding", !.text = vaultFile[f]]
    OBVIOUS
  <2>9. reindex' = [reindex EXCEPT ![s] = later]
    BY <1>1, <1>4, <2>1 DEF Look, VaultTyped
  <2>2. /\ later \in VaultReads /\ later.pc = "embedding" /\ later.file = f
        /\ later.text = vaultFile[f] /\ later.hash = h
    <3>1. reindex[s] \in [pc : {"asked", "embedding"}, file : VaultFiles, hash : VaultVersions, text : VaultTexts, first : BOOLEAN]
      BY <1>1 DEF VaultTyped, VaultReads, NoReindex
    <3>2. vaultFile[f] \in VaultTexts
      BY DEF VaultTyped
    <3>3. QED
      BY <1>1, <2>1, <3>1, <3>2 DEF VaultReads
  <2>3. VaultTyped'
    BY <1>1, <2>9, <2>2 DEF VaultTyped
  <2>4. InFlight(f)' = InFlight(f) /\ reindex'[s] = later /\ \A t \in ReindexSlots : t # s => reindex'[t] = reindex[t]
    BY <1>1, <2>9, <2>2 DEF InFlight, VaultTyped
  <2>5. ReadOnce(f)' /\ RowsFollow(f)'
    BY <1>1, <1>2, <2>2, <2>4 DEF FileSound, ReadOnce, RowsFollow
  <2>6. FileSound(f)'
    BY <1>1, <1>2, <2>5 DEF FileSound, EventsTell, Listening
  <2>7. ASSUME NEW g \in VaultFiles, g # f PROVE FileSound(g)'
    BY <1>1, <2>2, <2>4, <2>7, FileUntouched DEF Listening
  <2>8. QED
    BY <2>3, <2>6, <2>7
<1>5. QED
  BY <1>3, <1>4

LEMMA UpsertSound ==
  ASSUME VaultTyped, \A f \in VaultFiles : FileSound(f), NEW s \in ReindexSlots, Upsert(s)
  PROVE  VaultTyped' /\ \A g \in VaultFiles : FileSound(g)'
<1>0. PICK f \in VaultFiles : reindex[s].file = f
  BY DEF Upsert, VaultTyped, VaultReads, NoReindex
<1> DEFINE row == [text |-> reindex[s].text, hash |-> reindex[s].hash]
<1>1. /\ reindex[s].pc = "embedding" /\ reindex[s].file = f /\ row \in [text : VaultTexts, hash : VaultTexts]
      /\ vaultRows' = [vaultRows EXCEPT ![f] = row] /\ reindex' = [reindex EXCEPT ![s] = NoReindex]
      /\ UNCHANGED <<vaultFile, vaultEvents, debounce, missed, raced, alive>> /\ swallowed' = swallowed \ {f}
  BY <1>0 DEF Upsert, VaultTyped, VaultReads, VaultTexts, NoReindex, watchVars
<1>2. s \in InFlight(f) /\ FileSound(f)
  BY <1>1 DEF InFlight
<1>3. VaultTyped'
  BY <1>1 DEF VaultTyped, VaultReads
<1>4. InFlight(f)' = InFlight(f) \ {s} /\ (\A t \in InFlight(f)' : reindex'[t] = reindex[t]) /\ vaultRows'[f] = row
  BY <1>1, VaultAssumption DEF VaultAssumption, InFlight, VaultTyped, NoReindex
<1>5. f \notin raced => InFlight(f)' = {} /\ reindex[s].text = reindex[s].hash
  BY <1>1, <1>2, <1>4 DEF FileSound, ReadOnce
<1>6. ReadOnce(f)' /\ RowsFollow(f)'
  BY <1>1, <1>2, <1>4, <1>5 DEF FileSound, ReadOnce, RowsFollow
<1>7. FileSound(f)'
  BY <1>1, <1>2, <1>6 DEF FileSound, EventsTell, Listening
<1>8. ASSUME NEW g \in VaultFiles, g # f PROVE FileSound(g)'
  BY <1>1, <1>8, FileUntouched, VaultAssumption DEF VaultAssumption, VaultTyped, NoReindex, Listening
<1>9. QED
  BY <1>3, <1>7, <1>8

\* A reindexing that fails is one less, and what it was to do is noted.
LEMMA ReindexFailsSound ==
  ASSUME VaultTyped, \A f \in VaultFiles : FileSound(f), NEW s \in ReindexSlots, ReindexFails(s)
  PROVE  VaultTyped' /\ \A g \in VaultFiles : FileSound(g)'
<1>1. PICK f \in VaultFiles : reindex[s].file = f
  BY DEF ReindexFails, VaultTyped, VaultReads, NoReindex
<1>2. /\ reindex' = [reindex EXCEPT ![s] = NoReindex] /\ swallowed' = swallowed \cup {f}
      /\ UNCHANGED <<vaultFile, vaultRows, vaultEvents, debounce, missed, raced, alive>>
  BY <1>1 DEF ReindexFails, watchVars
<1>3. VaultTyped'
  BY <1>2 DEF VaultTyped, VaultReads
<1>4. InFlight(f)' = InFlight(f) \ {s} /\ \A t \in InFlight(f)' : reindex'[t] = reindex[t]
  BY <1>1, <1>2, VaultAssumption DEF VaultAssumption, InFlight, VaultTyped, NoReindex
<1>5. FileSound(f)'
  BY <1>2, <1>4 DEF FileSound, ReadOnce, RowsFollow, EventsTell, Listening
<1>6. ASSUME NEW g \in VaultFiles, g # f PROVE FileSound(g)'
  BY <1>1, <1>2, <1>6, FileUntouched, VaultAssumption DEF VaultAssumption, VaultTyped, NoReindex, Listening
<1>7. QED
  BY <1>3, <1>5, <1>6

LEMMA HandledSound ==
  ASSUME VaultTyped, \A f \in VaultFiles : FileSound(f), NEW f \in VaultFiles, HandleChange(f) \/ handleUnlink(f)
  PROVE  VaultTyped' /\ \A g \in VaultFiles : FileSound(g)'
<1>1. /\ vaultEvents[f] \in Seq(VaultTold) /\ vaultEvents[f] # <<>> /\ FileSound(f)
      /\ vaultEvents' = [vaultEvents EXCEPT ![f] = Tail(@)] /\ UNCHANGED <<vaultFile, reindex, missed, alive>>
  BY DEF HandleChange, handleUnlink, VaultTyped, watchVars
<1>2. /\ vaultEvents'[f] = Tail(vaultEvents[f]) /\ Tail(vaultEvents[f]) \in Seq(VaultTold)
      /\ Tail(vaultEvents[f]) = <<>> => vaultEvents[f][Len(vaultEvents[f])] = Head(vaultEvents[f])
      /\ Tail(vaultEvents[f]) # <<>> => Tail(vaultEvents[f])[Len(Tail(vaultEvents[f]))] = vaultEvents[f][Len(vaultEvents[f])]
  BY <1>1, EventTaken DEF VaultTyped
<1>3. EventsTell(f)'
  BY <1>1, <1>2 DEF FileSound, EventsTell, Listening
<1>4. vaultEvents' \in [VaultFiles -> Seq(VaultTold)]
  BY <1>1, <1>2 DEF VaultTyped
<1>5. InFlight(f)' = InFlight(f)
  BY <1>1 DEF InFlight
<1>6. CASE HandleChange(f)
  <2>1. Head(vaultEvents[f]) = "change" /\ debounce' = debounce \cup {f} /\ UNCHANGED <<vaultRows, raced, swallowed>>
    BY <1>6 DEF HandleChange
  <2>2. VaultTyped'
    BY <1>1, <1>4, <2>1 DEF VaultTyped
  <2>3. vaultEvents'[f] = <<>> => vaultFile[f] # 0
    BY <1>1, <1>2, <2>1 DEF FileSound, EventsTell
  <2>4. ReadOnce(f)' /\ RowsFollow(f)'
    BY <1>1, <1>5, <2>1, <2>3 DEF FileSound, ReadOnce, RowsFollow
  <2>5. ASSUME NEW g \in VaultFiles, g # f PROVE FileSound(g)'
    BY <1>1, <2>1, <2>5, FileUntouched DEF VaultTyped, Listening
  <2>6. QED
    BY <1>3, <2>2, <2>4, <2>5 DEF FileSound
<1>7. CASE handleUnlink(f)
  <2>1. /\ Head(vaultEvents[f]) = "unlink" /\ debounce' = debounce
        /\ raced' = IF InFlight(f) # {} THEN raced \cup {f} ELSE raced
        /\ \/ vaultRows' = [vaultRows EXCEPT ![f] = NoRows] /\ swallowed' = swallowed \ {f}
           \/ vaultRows' = vaultRows /\ swallowed' = swallowed \cup {f}
    BY <1>7 DEF handleUnlink
  <2>2. NoRows \in [text : VaultTexts, hash : VaultTexts]
    BY DEF NoRows, VaultTexts
  <2>3. VaultTyped'
    BY <1>1, <1>4, <2>1, <2>2 DEF VaultTyped
  <2>4. vaultEvents'[f] = <<>> => vaultFile[f] = 0
    BY <1>1, <1>2, <2>1 DEF FileSound, EventsTell
  <2>5. f \notin raced' => f \notin raced /\ InFlight(f)' = {}
    BY <1>5, <2>1
  <2>6. vaultRows'[f] = NoRows \/ (vaultRows'[f] = vaultRows[f] /\ f \in swallowed')
    BY <2>1 DEF VaultTyped
  <2>7. ReadOnce(f)' /\ RowsFollow(f)'
    BY <1>1, <2>4, <2>5, <2>6 DEF FileSound, ReadOnce, RowsFollow, NoRows
  <2>8. ASSUME NEW g \in VaultFiles, g # f PROVE FileSound(g)'
    BY <1>1, <2>1, <2>8, FileUntouched DEF VaultTyped, Listening
  <2>9. QED
    BY <1>3, <2>3, <2>7, <2>8 DEF FileSound
<1>8. QED
  BY <1>6, <1>7

\* The newest of a bounded set of watchers.
LEMMA NewestWatcher ==
  ASSUME NEW S \in SUBSET Nat, NEW n \in Nat, \A w \in S : w <= n
  PROVE  Max({0} \cup S) \in {0} \cup S /\ \A w \in S : w <= Max({0} \cup S)
<1> DEFINE T == {0} \cup S
           rest == {n - w : w \in T}
<1>1. \A w \in T : w \in Nat /\ n - w \in Nat
  OBVIOUS
<1>2. rest \subseteq Nat /\ rest # {}
  BY <1>1
<1>3. \E r \in rest : \A q \in rest : r <= q
  <2> HIDE DEF rest
  <2>1. QED
    BY <1>2, LeastOf
<1>4. PICK m \in T : \A w \in T : n - m <= n - w
  BY <1>3
<1>5. m \in T /\ \A w \in T : m >= w
  BY <1>1, <1>4
<1>6. Max(T) \in T /\ \A w \in T : Max(T) >= w
  <2> HIDE DEF T
  <2>1. QED
    BY <1>5 DEF Max
<1>7. QED
  BY <1>1, <1>6

\* What a step of a document, a timer or a reindexing leaves to the watchers.
LEMMA DocumentStep ==
  ASSUME WatchTyped, WatchSound, UNCHANGED watchVars \/ \E f \in VaultFiles : IndexNext(f)
  PROVE  WatchTyped' /\ WatchSound'
<1>1. CASE UNCHANGED watchVars
  BY <1>1 DEF watchVars, WatchTyped, WatchSound
<1>2. CASE \E f \in VaultFiles : IndexNext(f)
  BY <1>2 DEF IndexNext, WatchTyped, WatchSound
<1>3. QED
  BY <1>1, <1>2

LEMMA WatchersStep ==
  ASSUME WatchTyped, WatchSound,
         startWatcher \/ ListDocs \/ Watch \/ StartFails \/ \E s \in WatchStops : stopWatcher(s) \/ Closed(s)
  PROVE  WatchTyped' /\ WatchSound'
<1>1. CASE startWatcher \/ ListDocs \/ StartFails
  <2>1. \/ starting.pc = "off" /\ watcher = 0 /\ starting' = [pc |-> "called", todo |-> {}]
        \/ /\ starting.pc = "called"
           /\ \E docs \in SUBSET VaultFiles : starting' = [pc |-> "reading", todo |-> docs]
        \/ starting' = [pc |-> "off", todo |-> {}]
    BY <1>1 DEF startWatcher, ListDocs, StartFails, NotStarting
  <2>2. UNCHANGED <<watcher, alive, closing, crossed>>
    BY <1>1 DEF startWatcher, ListDocs, StartFails
  <2>3. QED
    BY <2>1, <2>2 DEF WatchTyped, WatchSound
<1>2. CASE Watch
  <2>1. PICK top \in Nat : \A w \in alive : w <= top
    BY DEF WatchTyped
  <2> DEFINE newest == Max({0} \cup alive)
  <2>7. alive \in SUBSET Nat
    BY DEF WatchTyped
  <2>8. newest \in {0} \cup alive /\ \A w \in alive : w <= newest
    BY <2>1, <2>7, NewestWatcher
  <2> HIDE DEF newest
  <2>2. newest \in Nat /\ \A w \in alive : w <= newest
    BY <2>7, <2>8
  <2>3. /\ starting.pc = "reading" /\ starting' = [pc |-> "off", todo |-> {}] /\ watcher' = 1 + newest
        /\ alive' = alive \cup {1 + newest} /\ UNCHANGED <<closing, crossed>>
    BY <1>2 DEF Watch, AllRead, NotStarting, newest
  <2>4. WatchTyped'
    <3>1. \A w \in alive' : w <= 1 + newest
      BY <2>2, <2>3 DEF WatchTyped
    <3>2. \E n \in Nat : \A w \in alive' : w <= n
      <4>1. 1 + newest \in Nat
        BY <2>2
      <4>2. QED
        BY <3>1, <4>1
    <3>3. watcher' \in Nat /\ alive' \subseteq Nat
      BY <2>2, <2>3, <2>7
    <3>4. QED
      BY <2>3, <3>2, <3>3 DEF WatchTyped
  <2>5. ~crossed => alive = {} /\ \A s \in WatchStops : closing[s] = 0
    BY <2>3 DEF WatchSound
  <2>6. QED
    BY <2>2, <2>3, <2>4, <2>5 DEF WatchSound
<1>3. CASE \E s \in WatchStops : stopWatcher(s)
  <2>1. PICK s \in WatchStops : stopWatcher(s)
    BY <1>3
  <2>2. /\ watcher # 0 /\ closing' = [closing EXCEPT ![s] = watcher]
        /\ crossed' = (crossed \/ \E other \in WatchStops \ {s} : closing[other] # 0)
        /\ UNCHANGED <<watcher, alive, starting>>
    BY <2>1 DEF stopWatcher
  <2>3. WatchTyped'
    BY <2>2 DEF WatchTyped
  <2>4. QED
    BY <2>2, <2>3 DEF WatchTyped, WatchSound
<1>4. CASE \E s \in WatchStops : Closed(s)
  <2>1. PICK s \in WatchStops : Closed(s)
    BY <1>4
  <2>2. /\ closing[s] # 0 /\ alive' = alive \ {closing[s]} /\ watcher' = 0 /\ closing' = [closing EXCEPT ![s] = 0]
        /\ UNCHANGED <<starting, crossed>>
    BY <2>1 DEF Closed
  <2>3. WatchTyped'
    BY <2>2 DEF WatchTyped
  <2>4. QED
    BY <2>2, <2>3 DEF WatchTyped, WatchSound
<1>5. QED
  BY <1>1, <1>2, <1>3, <1>4

\* Starting, stopping and the end of a stop leave the documents as they are, but for what is told no more
\* and for the absences a listing has seen.
LEMMA WatchersLeaveFiles ==
  ASSUME VaultTyped, WatchTyped, \A f \in VaultFiles : FileSound(f),
         startWatcher \/ ListDocs \/ Watch \/ StartFails \/ \E s \in WatchStops : stopWatcher(s) \/ Closed(s)
  PROVE  VaultTyped' /\ \A g \in VaultFiles : FileSound(g)'
<1>1. CASE UNCHANGED vaultDocVars /\ (Listening => Listening')
  <2>1. VaultTyped'
    BY <1>1 DEF vaultDocVars, VaultTyped
  <2>2. ASSUME NEW f \in VaultFiles PROVE FileSound(f)'
    BY <1>1, FileUntouched DEF vaultDocVars
  <2>3. QED
    BY <2>1, <2>2
<1>2. CASE \E s \in WatchStops : Closed(s)
  <2>1. PICK s \in WatchStops : Closed(s)
    BY <1>2
  <2>2. UNCHANGED <<vaultFile, vaultRows, debounce, reindex, raced, swallowed>>
    BY <2>1 DEF Closed
  <2>3. CASE alive' = {}
    <3>1. /\ vaultEvents' = [f \in VaultFiles |-> <<>>]
          /\ missed' = missed \cup {f \in VaultFiles : vaultEvents[f] # <<>>}
      BY <2>1, <2>3 DEF Closed
    <3>2. VaultTyped'
      <4>1. vaultEvents' \in [VaultFiles -> Seq(VaultTold)]
        BY <3>1
      <4>2. QED
        BY <2>2, <3>1, <4>1 DEF VaultTyped
    <3>3. ASSUME NEW f \in VaultFiles PROVE FileSound(f)'
      <4>1. InFlight(f)' = InFlight(f)
        BY <2>2 DEF InFlight
      <4>2. QED
        BY <2>2, <3>1, <4>1 DEF FileSound, ReadOnce, EventsTell, RowsFollow
    <3>4. QED
      BY <3>2, <3>3
  <2>4. CASE alive' # {}
    <3>1. UNCHANGED <<vaultEvents, missed>> /\ Listening'
      BY <2>1, <2>4 DEF Closed, Listening
    <3>2. VaultTyped'
      BY <2>2, <3>1 DEF VaultTyped
    <3>3. ASSUME NEW f \in VaultFiles PROVE FileSound(f)'
      BY <2>2, <3>1, FileUntouched
    <3>4. QED
      BY <3>2, <3>3
  <2>5. QED
    BY <2>3, <2>4
<1>3. CASE startWatcher \/ Watch \/ StartFails \/ \E s \in WatchStops : stopWatcher(s)
  <2>1. UNCHANGED vaultDocVars /\ (Listening => Listening')
    BY <1>3 DEF startWatcher, Watch, StartFails, stopWatcher, Listening
  <2>2. QED
    BY <1>1, <2>1
<1>4. CASE ListDocs
  <2>1. UNCHANGED <<vaultFile, vaultRows, vaultEvents, debounce, reindex, raced, swallowed, alive>>
    BY <1>4 DEF ListDocs
  <2>2. /\ missed' \subseteq missed
        /\ \A f \in missed \ missed' : vaultFile[f] = 0 /\ vaultRows[f] = NoRows /\ InFlight(f) = {}
    BY <1>4 DEF ListDocs
  <2>3. VaultTyped'
    BY <2>1, <2>2 DEF VaultTyped
  <2>4. ASSUME NEW f \in VaultFiles PROVE FileSound(f)'
    <3>1. CASE f \in missed \ missed'
      <4>1. InFlight(f)' = {}
        BY <2>1, <2>2, <3>1 DEF InFlight
      <4>2. QED
        BY <2>1, <2>2, <3>1, <4>1 DEF FileSound, ReadOnce, EventsTell, RowsFollow, Listening, NoRows
    <3>2. CASE f \in missed <=> f \in missed'
      BY <2>1, <3>2, FileUntouched DEF Listening
    <3>3. QED
      BY <2>2, <3>1, <3>2
  <2>5. QED
    BY <2>3, <2>4
<1>5. QED
  BY <1>2, <1>3, <1>4

LEMMA VaultStep == VaultInductive /\ [VaultNext]_vaultVars => VaultInductive'
<1> SUFFICES ASSUME VaultInductive, [VaultNext]_vaultVars PROVE VaultInductive'
  OBVIOUS
<1>1. VaultTyped /\ (\A f \in VaultFiles : FileSound(f)) /\ WatchTyped /\ WatchSound
  BY DEF VaultInductive
<1>2. CASE startWatcher \/ ListDocs \/ Watch \/ StartFails \/ \E s \in WatchStops : stopWatcher(s) \/ Closed(s)
  BY <1>1, <1>2, WatchersStep, WatchersLeaveFiles DEF VaultInductive
<1>3. CASE \E f \in VaultFiles : HandleChange(f) \/ handleUnlink(f)
  <2>1. UNCHANGED watchVars
    BY <1>3 DEF HandleChange, handleUnlink
  <2>2. QED
    BY <1>1, <1>3, <2>1, HandledSound, DocumentStep DEF VaultInductive
<1>4. CASE \E f \in VaultFiles : TimerFires(f)
  <2>1. UNCHANGED watchVars
    BY <1>4 DEF TimerFires
  <2>2. QED
    BY <1>1, <1>4, <2>1, TimerFiresSound, DocumentStep DEF VaultInductive
<1>5. CASE \E f \in VaultFiles : IndexNext(f)
  BY <1>1, <1>5, IndexNextSound, DocumentStep DEF VaultInductive
<1>6. CASE \E f \in VaultFiles, v \in VaultVersions \cup {0} : FileChanges(f, v)
  <2>1. UNCHANGED watchVars
    BY <1>6 DEF FileChanges
  <2>2. QED
    BY <1>1, <1>6, <2>1, FileChangesSound, DocumentStep DEF VaultInductive, VaultTexts
<1>7. CASE \E s \in ReindexSlots : Look(s) \/ Upsert(s) \/ ReindexFails(s)
  <2>1. UNCHANGED watchVars
    BY <1>7 DEF Look, Upsert, ReindexFails
  <2>2. QED
    BY <1>1, <1>7, <2>1, LookSound, UpsertSound, ReindexFailsSound, DocumentStep DEF VaultInductive
<1>8. CASE UNCHANGED vaultVars
  <2>1. UNCHANGED watchVars /\ UNCHANGED vaultDocVars /\ (Listening => Listening')
    BY <1>8 DEF vaultVars, watchVars, Listening
  <2>2. VaultTyped'
    BY <1>1, <2>1 DEF vaultDocVars, VaultTyped
  <2>3. ASSUME NEW f \in VaultFiles PROVE FileSound(f)'
    BY <1>1, <2>1, FileUntouched DEF vaultDocVars
  <2>4. QED
    BY <1>1, <2>1, <2>2, <2>3, DocumentStep DEF VaultInductive
<1>9. QED
  BY <1>2, <1>3, <1>4, <1>5, <1>6, <1>7, <1>8 DEF VaultNext

\* With the watcher on and nothing under way the rows hold what the files hold, unless a file changed
\* while nobody listened or under a reindexing or the last attempt to follow it failed, and no watcher goes on that nobody can stop unless two
\* stops waited for one: for any number of documents, texts, reindexings and stops.
THEOREM VaultHolds == VaultSpec => []VaultInv
<1>1. VaultSpec => []VaultInductive
  BY VaultStarts, VaultStep, PTL DEF VaultSpec
<1>2. QED
  BY <1>1, VaultGives, PTL

-----------------------------------------------------------------------------
(* Vaults of projects *)

ProjectVaultsSpec == ProjectVaultsInit /\ [][ProjectVaultsNext]_projectVaultVars

Wanted(p) == IF project[p] = "live" THEN vaultPath[p] ELSE NoDir

PathsTyped ==
  /\ vaultPath \in [VaultProjects -> VaultDirs]
  /\ desired \in [VaultProjects -> VaultDirs \cup {NoDir}]

\* The last rescan that was asked for has listed what is wanted now, and when it starts watchers those that
\* were wrong are closed.
RescanSound ==
  \A p \in VaultProjects :
    /\ rescan # "off" /\ rescans = 0 => desired[p] = Wanted(p) \/ p \in unasked
    /\ rescan = "starting" => watchedPath[p] \in {NoDir, desired[p]}
    /\ rescan = "off" /\ rescans = 0 => watchedPath[p] = Wanted(p) \/ p \in unasked \cup leftOut

BindingsInductive == ProjectVaultsTypeOK /\ PathsTyped /\ RescanSound

LEMMA BindingsStart == ProjectVaultsInit => BindingsInductive
<1> SUFFICES ASSUME ProjectVaultsInit PROVE BindingsInductive
  OBVIOUS
<1>1. (CHOOSE d \in VaultDirs : TRUE) \in VaultDirs
  BY ProjectVaultsAssumption DEF ProjectVaultsAssumption
<1>2. QED
  BY <1>1 DEF ProjectVaultsInit, BindingsInductive, ProjectVaultsTypeOK, PathsTyped, RescanSound, Wanted

\* A change of a project asks for a rescan or is noted.
LEMMA EditSound ==
  ASSUME BindingsInductive, NEW p \in VaultProjects,
         CreateProject(p) \/ DeleteProject(p) \/ \E d \in VaultDirs : SetVaultPath(p, d)
  PROVE  BindingsInductive'
<1>1. ProjectVaultsTypeOK /\ PathsTyped /\ RescanSound /\ UNCHANGED <<watchedPath, desired, rescan, leftOut>>
  BY DEF BindingsInductive, CreateProject, DeleteProject, SetVaultPath, ProjectEvent
<1>2. CASE CreateProject(p)
  <2>1. project' = [project EXCEPT ![p] = "live"] /\ UNCHANGED vaultPath
    BY <1>2 DEF CreateProject
  <2>2. (rescans' = rescans + 1 /\ unasked' = unasked) \/ (unasked' = unasked \cup {p} /\ rescans' = rescans)
    BY <1>2 DEF CreateProject, AskRescan
  <2>3. QED
    BY <1>1, <2>1, <2>2 DEF BindingsInductive, ProjectVaultsTypeOK, PathsTyped, RescanSound, Wanted
<1>3. CASE DeleteProject(p)
  <2>1. /\ project' = [project EXCEPT ![p] = "deleted"] /\ UNCHANGED <<vaultPath, rescans>>
        /\ unasked' = unasked \cup {p}
    BY <1>3 DEF DeleteProject
  <2>2. QED
    BY <1>1, <2>1 DEF BindingsInductive, ProjectVaultsTypeOK, PathsTyped, RescanSound, Wanted
<1>4. CASE \E d \in VaultDirs : SetVaultPath(p, d)
  <2>1. PICK d \in VaultDirs : vaultPath' = [vaultPath EXCEPT ![p] = d] /\ rescans' = rescans + 1 /\ UNCHANGED <<project, unasked>>
    BY <1>4 DEF SetVaultPath, AskRescan
  <2>2. QED
    BY <1>1, <2>1 DEF BindingsInductive, ProjectVaultsTypeOK, PathsTyped, RescanSound
<1>5. QED
  BY <1>2, <1>3, <1>4

LEMMA RescanSteps ==
  ASSUME BindingsInductive, RescanLists \/ RescanStops \/ startProjectVault \/ RescanThrows
  PROVE  BindingsInductive'
<1>1. ProjectVaultsTypeOK /\ PathsTyped /\ RescanSound /\ UNCHANGED <<project, vaultPath>>
  BY DEF BindingsInductive, RescanLists, RescanStops, startProjectVault, RescanThrows
<1>2. CASE RescanLists
  <2>1. /\ rescan' = "stopping" /\ rescans' = rescans - 1 /\ rescans > 0 /\ unasked' = {} /\ leftOut' = {} /\ UNCHANGED watchedPath
        /\ desired' = [p \in VaultProjects |-> Wanted(p)]
    BY <1>2 DEF RescanLists, Wanted
  <2>2. \A p \in VaultProjects : Wanted(p) \in VaultDirs \cup {NoDir} /\ Wanted(p)' = Wanted(p)
    BY <1>1 DEF Wanted, PathsTyped
  <2>3. RescanSound'
    BY <2>1, <2>2 DEF RescanSound
  <2>4. ProjectVaultsTypeOK' /\ PathsTyped'
    BY <1>1, <2>1, <2>2 DEF ProjectVaultsTypeOK, PathsTyped
  <2>5. QED
    BY <2>3, <2>4 DEF BindingsInductive
<1>3. CASE RescanStops
  <2>1. rescan = "stopping" /\ UNCHANGED <<rescans, desired, unasked, leftOut>>
    BY <1>3 DEF RescanStops
  <2>2. \/ WronglyWatched = {} /\ rescan' = "starting" /\ watchedPath' = watchedPath
        \/ rescan' = "stopping" /\ \E p \in VaultProjects : watchedPath' = [watchedPath EXCEPT ![p] = NoDir]
    BY <1>3, <2>1 DEF RescanStops, WronglyWatched
  <2>3. RescanSound'
    BY <1>1, <2>1, <2>2 DEF RescanSound, Wanted, WronglyWatched
  <2>4. ProjectVaultsTypeOK' /\ PathsTyped'
    BY <1>1, <2>1, <2>2 DEF ProjectVaultsTypeOK, PathsTyped
  <2>5. QED
    BY <2>3, <2>4 DEF BindingsInductive
<1>4. CASE startProjectVault
  <2>1. rescan = "starting" /\ UNCHANGED <<rescans, desired, unasked, leftOut>>
    BY <1>4 DEF startProjectVault
  <2>2. \/ NotYetWatched = {} /\ rescan' = "off" /\ watchedPath' = watchedPath
        \/ rescan' = "starting" /\ \E p \in VaultProjects : watchedPath' = [watchedPath EXCEPT ![p] = desired[p]]
    BY <1>4, <2>1 DEF startProjectVault, NotYetWatched
  <2>3. RescanSound'
    BY <1>1, <2>1, <2>2 DEF RescanSound, Wanted, ProjectVaultsTypeOK, NotYetWatched
  <2>4. ProjectVaultsTypeOK' /\ PathsTyped'
    BY <1>1, <2>1, <2>2 DEF ProjectVaultsTypeOK, PathsTyped
  <2>5. QED
    BY <2>3, <2>4 DEF BindingsInductive
<1>5. CASE RescanThrows
  <2>1. UNCHANGED <<watchedPath, desired, unasked>> /\ rescan' = "off" /\ leftOut' \subseteq VaultProjects
    BY <1>5 DEF RescanThrows, WronglyWatched, NotYetWatched
  <2>2. \/ rescans' = rescans - 1 /\ rescans > 0 /\ leftOut' = VaultProjects
        \/ rescans' = rescans /\ rescan # "off" /\ \A p \in VaultProjects : p \in leftOut' \/ watchedPath[p] = desired[p]
    BY <1>1, <1>5 DEF RescanThrows, WronglyWatched, NotYetWatched, ProjectVaultsTypeOK
  <2>3. RescanSound'
    BY <1>1, <2>1, <2>2 DEF RescanSound, Wanted
  <2>4. ProjectVaultsTypeOK' /\ PathsTyped'
    BY <1>1, <2>1, <2>2 DEF ProjectVaultsTypeOK, PathsTyped
  <2>5. QED
    BY <2>3, <2>4 DEF BindingsInductive
<1>6. QED
  BY <1>2, <1>3, <1>4, <1>5

LEMMA BindingsStep == BindingsInductive /\ [ProjectVaultsNext]_projectVaultVars => BindingsInductive'
<1> SUFFICES ASSUME BindingsInductive, [ProjectVaultsNext]_projectVaultVars PROVE BindingsInductive'
  OBVIOUS
<1>1. CASE UNCHANGED projectVaultVars
  BY <1>1 DEF projectVaultVars, BindingsInductive, ProjectVaultsTypeOK, PathsTyped, RescanSound, Wanted
<1>2. QED
  BY <1>1, EditSound, RescanSteps DEF ProjectVaultsNext

\* When no rescan is asked for or under way the vaults are watched where the settings say, but for what a
\* route that asks for none changed and for what a rescan that threw had not reached: for any number of
\* projects, folders, changes and failures.
THEOREM ProjectVaultsHold == ProjectVaultsSpec => []ProjectVaultsInv
<1>1. BindingsInductive => ProjectVaultsInv
  BY DEF BindingsInductive, ProjectVaultsInv, RescanSound, VaultsWatched, Wanted
<1>2. QED
  BY <1>1, BindingsStart, BindingsStep, PTL DEF ProjectVaultsSpec

-----------------------------------------------------------------------------
(* Skills that are installed and the marketplaces they come from *)

SkillsSpec == SkillsInit /\ [][SkillsNext]_skillVars

Offered == UNION {ToSet(Offers[u]) : u \in DOMAIN Offers}
SkillEntries == [name : {s.name : s \in Offered}, dir : AllDirs, url : DOMAIN Offers, by : SkillOps]
CloneStates ==
  {NoFolder, [st |-> "ready", by |-> "nobody"], [st |-> "broken", by |-> "nobody"]} \cup {BusyWith(o) : o \in SkillOps}
SkillPlaces ==
  {"unasked", "idle", "pulling", "cloning", "listing", "listed", "unclone", "finding", "reading", "copying", "dropping",
   "recording", "done"}
SkillStates ==
  [at : SkillPlaces, seen : Seq(SkillEntries) \cup SUBSET DOMAIN Offers, pick : {<<>>} \cup {<<s>> : s \in Offered}]

\* Adding, refreshing and removing a marketplace; looking for a skill and installing it.
Fills == {"add", "fetch", "remove"}
Copies == {"fetch", "install"}

\* What there is, and what a request has in hand at each place.
SkillsTyped ==
  /\ clones \in [DOMAIN Offers -> CloneStates] /\ markets \subseteq DOMAIN Offers
  /\ managed \in Seq(SkillEntries)
  /\ skillDirs \in [AllDirs -> SUBSET (DOMAIN Offers \cup {"own"})]
  /\ ops \in [SkillOps -> SkillStates]
RequestSound(o) ==
  /\ ops[o].at \in {"copying", "dropping", "recording"} => ops[o].seen \in Seq(SkillEntries)
  /\ ops[o].at = "listed" => ops[o].seen \subseteq DOMAIN Offers
  /\ ops[o].at \in {"pulling", "cloning", "listing"} => OpOf[o].kind \in {"add", "fetch"} /\ Url(o) \in DOMAIN Offers
  /\ ops[o].at = "listed" => OpOf[o].kind \in Fills /\ (OpOf[o].kind # "remove" => Url(o) \in DOMAIN Offers)
  /\ ops[o].at = "unclone" => OpOf[o].kind = "remove"
  /\ ops[o].at \in {"finding", "reading", "copying"} => OpOf[o].kind \in Copies /\ Url(o) \in DOMAIN Offers
  /\ ops[o].at \in {"reading", "copying"} => \E s \in Offered : ops[o].pick = <<s>>
  /\ ops[o].at = "dropping" => OpOf[o].kind = "uninstall"
  /\ ops[o].at = "recording" =>
       \/ OpOf[o].kind \in Copies /\ Url(o) \in DOMAIN Offers
          /\ \E s \in Offered : ops[o].pick = <<s>> /\ s.dir \notin OwnDirs
       \/ OpOf[o].kind = "uninstall" /\ Named(ops[o].seen, OpOf[o].name) # {}

\* A list has one entry to a folder, none to one of the user's, and each was made by a request that is over.
ListSound(list, over) ==
  /\ \A i, j \in DOMAIN list : list[i].dir = list[j].dir => i = j
  /\ \A i \in DOMAIN list : list[i].dir \notin OwnDirs /\ list[i].by \in over
OpsDone == {o \in SkillOps : ops[o].at = "done"}
ListsSound ==
  /\ ListSound(managed, OpsDone)
  /\ \A o \in SkillOps : ops[o].at \in {"copying", "dropping", "recording"} => ListSound(ops[o].seen, OpsDone)

\* The folder a request has worked in and has yet to record.
TargetOf(o) ==
  IF OpOf[o].kind = "uninstall" THEN OnlyIn(ops[o].seen, Named(ops[o].seen, OpOf[o].name))[1].dir ELSE ops[o].pick[1].dir
Workers(d) == {o \in SkillOps : ops[o].at = "recording" /\ TargetOf(o) = d}
EntriesOf(list, d) == {e \in ToSet(list) : e.dir = d}

\* What it read of the folder is no longer so, and will never be again.
StaleAt(o, d) == ~(EntriesOf(ops[o].seen, d) \subseteq EntriesOf(managed, d))
\* The folder is as it left it.
LeftSo(o, d) == IF OpOf[o].kind = "uninstall" THEN skillDirs[d] = {} ELSE Url(o) \in skillDirs[d]

Agrees(d) ==
  /\ skillDirs[d] # {} <=> ManagedDir(managed, d)
  /\ \A e \in ToSet(managed) : e.dir = d => e.url \in skillDirs[d]

\* A folder agrees with the list, or somebody works there and will put it right, or will be found out.
FolderSound(d) ==
  \/ Workers(d) = {} /\ Agrees(d)
  \/ \E o \in Workers(d) : StaleAt(o, d)
  \/ \E o, p \in Workers(d) : o # p /\ EntriesOf(ops[o].seen, d) # {} /\ EntriesOf(ops[p].seen, d) # {}
  \/ \E o \in Workers(d) :
       Workers(d) = {o} /\ LeftSo(o, d) /\ (EntriesOf(ops[o].seen, d) = {} => EntriesOf(managed, d) = {})
  \/ \E o, p \in Workers(d) :
       /\ o # p /\ Workers(d) = {o, p} /\ OpOf[p].kind = "uninstall"
       /\ EntriesOf(ops[o].seen, d) = {} /\ LeftSo(o, d)

FoldersSound ==
  mishaps \cap {"skill lost", "namesakes", "death"} = {} =>
    /\ \A d \in AllDirs \ OwnDirs : FolderSound(d)
    /\ \A o \in SkillOps :
         ops[o].at = "recording" /\ OpOf[o].kind = "uninstall" =>
           Named(ops[o].seen, OpOf[o].name) = EntriesOf(ops[o].seen, TargetOf(o))

\* Who is at a checkout is alone there, and leaves it ready or off the list.
FillersOf(u) == {o \in OpsRunning : Url(o) = u /\ OpOf[o].kind \in Fills}
CheckoutSound(u) ==
  /\ \A o, p \in FillersOf(u) : o = p
  /\ \A o \in FillersOf(u) :
       /\ ops[o].at = "cloning" => clones[u] = BusyWith(o)
       /\ ops[o].at = "listing" \/ (ops[o].at = "listed" /\ OpOf[o].kind # "remove") => clones[u].st = "ready"
       /\ ops[o].at = "unclone" => u \notin markets
  /\ (\A o \in FillersOf(u) : ops[o].at # "cloning") => clones[u].st # "busy" /\ (u \in markets => clones[u].st = "ready")
CheckoutsSound ==
  mishaps \cap {"offline", "raced", "market lost", "death"} = {} => \A u \in DOMAIN Offers : CheckoutSound(u)


-----------------------------------------------------------------------------
(* Lists of what is installed *)

LEMMA EntryHas ==
  ASSUME NEW e \in SkillEntries
  PROVE  e.dir \in AllDirs /\ e.url \in DOMAIN Offers /\ e.by \in SkillOps
  BY DEF SkillEntries

\* The members of a list, rather than their places.
LEMMA ListMembers ==
  ASSUME NEW list \in Seq(SkillEntries), NEW over, ListSound(list, over)
  PROVE  /\ \A e \in ToSet(list) : e \in SkillEntries /\ e.dir \notin OwnDirs /\ e.by \in over
         /\ \A e, f \in ToSet(list) : e.dir = f.dir => e = f
<1>1. \A i \in DOMAIN list : list[i] \in SkillEntries
  OBVIOUS
<1>2. QED
  BY <1>1 DEF ListSound, ToSet

\* A list with entries taken out is as sound.
LEMMA ListShrinks ==
  ASSUME NEW list \in Seq(SkillEntries), NEW over, ListSound(list, over), NEW S
  PROVE  OnlyIn(list, S) \in Seq(SkillEntries) /\ ListSound(OnlyIn(list, S), over)
<1> DEFINE f == [e \in SkillEntries |-> e.dir]
<1> PICK out : out = OnlyIn(list, S)
  OBVIOUS
<1>1. out \in Seq(SkillEntries) /\ ToSet(out) = ToSet(list) \cap S
  BY OnlyInKeeps
<1>2. \A e \in SkillEntries : f[e] = e.dir
  OBVIOUS
<1>3. (\A i \in DOMAIN list : list[i] \in SkillEntries) /\ (\A i \in DOMAIN out : out[i] \in SkillEntries)
  BY <1>1
<1> HIDE DEF f
<1>4. \A i, j \in DOMAIN list : f[list[i]] = f[list[j]] => i = j
  BY <1>2, <1>3 DEF ListSound
<1>5. \A i, j \in DOMAIN out : f[out[i]] = f[out[j]] => i = j
  BY <1>4, OnlyInDistinct
<1>6. \A i, j \in DOMAIN out : out[i].dir = out[j].dir => i = j
  BY <1>2, <1>3, <1>5
<1>7. \A i \in DOMAIN out : out[i] \in ToSet(list)
  <2>1. \A i \in DOMAIN out : out[i] \in ToSet(out)
    BY DEF ToSet
  <2>2. QED
    BY <2>1, <1>1
<1>8. \A i \in DOMAIN out : out[i].dir \notin OwnDirs /\ out[i].by \in over
  BY <1>7, ListMembers
<1>9. QED
  BY <1>1, <1>6, <1>8 DEF ListSound

\* An entry for a folder that has none is added at the end.
LEMMA ListGrows ==
  ASSUME NEW list \in Seq(SkillEntries), NEW over, ListSound(list, over), NEW e \in SkillEntries,
         e.dir \notin OwnDirs, e.by \in over, \A f \in ToSet(list) : f.dir # e.dir
  PROVE  /\ Append(list, e) \in Seq(SkillEntries) /\ ListSound(Append(list, e), over)
         /\ ToSet(Append(list, e)) = ToSet(list) \cup {e}
<1> DEFINE more == Append(list, e)
           M == Len(list) + 1
<1>1. Len(list) \in Nat /\ DOMAIN list = 1..Len(list)
  OBVIOUS
<1>2. more \in Seq(SkillEntries) /\ DOMAIN more = 1..M /\ more[M] = e /\ \A i \in 1..Len(list) : more[i] = list[i]
  OBVIOUS
<1>3. M \in 1..M /\ \A i \in 1..M : i = M \/ i \in DOMAIN list
  BY <1>1
<1>4. \A i \in DOMAIN list : i \in 1..M /\ more[i] = list[i] /\ list[i].dir # e.dir
  BY <1>1, <1>2 DEF ToSet
<1> HIDE DEF more, M
<1>5. ToSet(more) = ToSet(list) \cup {e}
  <2>1. \A i \in DOMAIN more : more[i] \in ToSet(list) \cup {e}
    BY <1>2, <1>3, <1>4 DEF ToSet
  <2>2. \A i \in DOMAIN list : list[i] \in ToSet(more)
    BY <1>2, <1>4 DEF ToSet
  <2>3. e \in ToSet(more)
    BY <1>2, <1>3 DEF ToSet
  <2>4. QED
    BY <2>1, <2>2, <2>3 DEF ToSet
<1>6. \A i, j \in DOMAIN more : more[i].dir = more[j].dir => i = j
  BY <1>2, <1>3, <1>4 DEF ListSound
<1>7. \A i \in DOMAIN more : more[i].dir \notin OwnDirs /\ more[i].by \in over
  BY <1>2, <1>3, <1>4 DEF ListSound
<1>8. ListSound(more, over)
  BY <1>6, <1>7 DEF ListSound
<1>9. QED
  BY <1>2, <1>5, <1>8 DEF more

LEMMA ListLasts ==
  ASSUME NEW list, NEW over, NEW later, over \subseteq later, ListSound(list, over)
  PROVE  ListSound(list, later)
  BY DEF ListSound

\* The entries that go by the name of an uninstall have a folder, which is not the user's.
LEMMA TargetThere ==
  ASSUME NEW o \in SkillOps, OpOf[o].kind = "uninstall", ops[o].seen \in Seq(SkillEntries),
         Named(ops[o].seen, OpOf[o].name) # {}
  PROVE  \E e \in ToSet(ops[o].seen) : e.name = OpOf[o].name /\ e.dir = TargetOf(o)
<1> PICK list : list = ops[o].seen
  OBVIOUS
<1> PICK mine : mine = OnlyIn(list, Named(list, OpOf[o].name))
  OBVIOUS
<1>1. ToSet(list) \cap Named(list, OpOf[o].name) # {}
  BY DEF Named
<1>2. mine[1] \in Named(list, OpOf[o].name)
  BY <1>1, OnlyInKeeps
<1>3. QED
  BY <1>2 DEF TargetOf, Named


-----------------------------------------------------------------------------
(* A request moves *)

Moves(o, to) ==
  /\ ops' \in [SkillOps -> SkillStates] /\ ops'[o].at = to
  /\ \A p \in SkillOps : p # o => ops'[p] = ops[p]
InHand(o) == ops'[o].seen = ops[o].seen /\ ops'[o].pick = ops[o].pick

LEMMA StateHas ==
  ASSUME SkillsTyped, NEW o \in SkillOps
  PROVE  /\ ops[o] \in SkillStates /\ ops[o].at \in SkillPlaces
         /\ ops[o].seen \in Seq(SkillEntries) \cup SUBSET DOMAIN Offers
         /\ ops[o].pick \in {<<>>} \cup {<<s>> : s \in Offered}
<1>1. ops[o] \in SkillStates
  BY DEF SkillsTyped
<1>2. QED
  BY <1>1 DEF SkillStates

LEMMA GoingOn ==
  ASSUME SkillsTyped, NEW o \in SkillOps, NEW to \in SkillPlaces, GoOn(o, to)
  PROVE  Moves(o, to) /\ InHand(o)
<1> DEFINE r == [ops[o] EXCEPT !.at = to]
<1>1. ops[o] \in SkillStates /\ ops \in [SkillOps -> SkillStates]
  BY DEF SkillsTyped
<1>2. r \in SkillStates /\ r.at = to /\ r.seen = ops[o].seen /\ r.pick = ops[o].pick
  BY <1>1 DEF SkillStates
<1>3. ops' = [ops EXCEPT ![o] = r]
  BY DEF GoOn
<1> HIDE DEF r
<1>4. ops' \in [SkillOps -> SkillStates] /\ ops'[o] = r /\ \A p \in SkillOps : p # o => ops'[p] = ops[p]
  BY <1>1, <1>2, <1>3
<1>5. QED
  BY <1>2, <1>4 DEF Moves, InHand

LEMMA ReadingOn ==
  ASSUME SkillsTyped, NEW o \in SkillOps, NEW to \in SkillPlaces, NEW list \in Seq(SkillEntries) \cup SUBSET DOMAIN Offers,
         ops' = [ops EXCEPT ![o].at = to, ![o].seen = list]
  PROVE  Moves(o, to) /\ ops'[o].seen = list /\ ops'[o].pick = ops[o].pick
<1> DEFINE r == [ops[o] EXCEPT !.at = to, !.seen = list]
<1>1. ops[o] \in SkillStates /\ ops \in [SkillOps -> SkillStates]
  BY DEF SkillsTyped
<1>2. r \in SkillStates /\ r.at = to /\ r.seen = list /\ r.pick = ops[o].pick
  BY <1>1 DEF SkillStates
<1>3. ops' = [ops EXCEPT ![o] = r]
  BY <1>1 DEF SkillStates
<1> HIDE DEF r
<1>4. ops' \in [SkillOps -> SkillStates] /\ ops'[o] = r /\ \A p \in SkillOps : p # o => ops'[p] = ops[p]
  BY <1>1, <1>2, <1>3
<1>5. QED
  BY <1>2, <1>4 DEF Moves

\* What the others have in hand is as sound as before, and what was read stays of requests that are over.
LEMMA OthersSound ==
  ASSUME SkillsTyped, \A p \in SkillOps : RequestSound(p), ListsSound, NEW o \in SkillOps, NEW to, Moves(o, to),
         ops[o].at # "done", RequestSound(o)',
         to \in {"copying", "dropping", "recording"} => ListSound(ops'[o].seen, OpsDone)
  PROVE  /\ \A p \in SkillOps : RequestSound(p)'
         /\ OpsDone \subseteq OpsDone'
         /\ \A p \in SkillOps : ops'[p].at \in {"copying", "dropping", "recording"} => ListSound(ops'[p].seen, OpsDone')
<1>1. OpsDone \subseteq OpsDone'
  BY DEF OpsDone, Moves
<1>2. ASSUME NEW p \in SkillOps, p # o PROVE RequestSound(p)'
  BY <1>2 DEF Moves, RequestSound
<1>3. ASSUME NEW p \in SkillOps, ops'[p].at \in {"copying", "dropping", "recording"}
      PROVE  ListSound(ops'[p].seen, OpsDone')
  <2>1. ListSound(ops'[p].seen, OpsDone)
    BY <1>3 DEF Moves, ListsSound
  <2>2. QED
    BY <2>1, <1>1, ListLasts
<1>4. QED
  BY <1>1, <1>2, <1>3

\* The parts about the requests and the lists: each is of its kind, and none reaches a folder of the user's.
SkillsBase == SkillsTyped /\ (\A o \in SkillOps : RequestSound(o)) /\ OwnFoldersKept /\ ListsSound

LEMMA BaseStarts == SkillsInit => SkillsBase
<1> SUFFICES ASSUME SkillsInit PROVE SkillsBase
  OBVIOUS
<1>1. PICK these \in Batches :
        ops = [o \in SkillOps |-> [at |-> IF o \in these THEN "idle" ELSE "unasked", seen |-> <<>>, pick |-> <<>>]]
  BY DEF SkillsInit
<1>2. ops \in [SkillOps -> SkillStates]
  <2>1. <<>> \in Seq(SkillEntries)
    OBVIOUS
  <2>2. ASSUME NEW o \in SkillOps
        PROVE  [at |-> IF o \in these THEN "idle" ELSE "unasked", seen |-> <<>>, pick |-> <<>>] \in SkillStates
    BY <2>1 DEF SkillStates, SkillPlaces
  <2>3. QED
    BY <1>1, <2>2
<1>3. \A o \in SkillOps : ops[o].at \in {"idle", "unasked"}
  BY <1>1
<1>4. managed = <<>> /\ markets = {} /\ <<>> \in Seq(SkillEntries)
  BY DEF SkillsInit
<1>5. clones \in [DOMAIN Offers -> CloneStates]
  BY DEF SkillsInit, CloneStates
<1>6. skillDirs \in [AllDirs -> SUBSET (DOMAIN Offers \cup {"own"})] /\ OwnFoldersKept
  BY DEF SkillsInit, OwnFoldersKept, AllDirs
<1>7. ListsSound
  BY <1>3, <1>4 DEF ListsSound, ListSound
<1>8. \A o \in SkillOps : RequestSound(o)
  BY <1>3 DEF RequestSound
<1>9. QED
  BY <1>2, <1>4, <1>5, <1>6, <1>7, <1>8 DEF SkillsBase, SkillsTyped

LEMMA FetchBase ==
  ASSUME SkillsBase, NEW o \in SkillOps,
         cloneOrRefresh(o) \/ PullEnds(o) \/ CloneEnds(o) \/ getMarketplaces(o) \/ setMarketplaces(o) \/ removeMarketplace(o)
  PROVE  SkillsBase' /\ UNCHANGED <<managed, skillDirs>> /\ mishaps \subseteq mishaps'
         /\ \E to \in SkillPlaces : Moves(o, to) /\ ops[o].at # "recording" /\ to # "recording"
<1>1. UNCHANGED <<managed, skillDirs>> /\ mishaps \subseteq mishaps'
  BY DEF cloneOrRefresh, PullEnds, CloneEnds, getMarketplaces, setMarketplaces, removeMarketplace, Mishap
<1>2. OwnFoldersKept'
  BY <1>1 DEF SkillsBase, OwnFoldersKept
<1>3. SkillsTyped /\ RequestSound(o) /\ ListsSound
  BY DEF SkillsBase
<1>4. BusyWith(o) \in CloneStates /\ NoFolder \in CloneStates /\ [st |-> "ready", by |-> "nobody"] \in CloneStates
  BY DEF CloneStates
<1>5. clones' \in [DOMAIN Offers -> CloneStates]
  BY <1>3, <1>4 DEF cloneOrRefresh, PullEnds, CloneEnds, getMarketplaces, setMarketplaces, removeMarketplace, SkillsTyped
<1>6. markets' \subseteq DOMAIN Offers
  BY <1>3 DEF cloneOrRefresh, PullEnds, CloneEnds, getMarketplaces, setMarketplaces, removeMarketplace, SkillsTyped,
              RequestSound
<1>7. ops[o].at \notin {"done", "recording"}
  BY DEF cloneOrRefresh, Comes, PullEnds, CloneEnds, getMarketplaces, setMarketplaces, removeMarketplace
<1>8. \E to \in SkillPlaces : Moves(o, to) /\ to \notin {"copying", "dropping", "recording"} /\ RequestSound(o)'
  <2>0. SkillPlaces = SkillPlaces /\ \A to \in {"done", "pulling", "cloning", "listing", "listed", "unclone", "finding"} : to \in SkillPlaces
    BY DEF SkillPlaces
  <2>1. CASE cloneOrRefresh(o)
    <3>1. Url(o) \in ValidUrls => Url(o) \in DOMAIN Offers
      BY SkillsAssumption DEF SkillsAssumption
    <3>2. PICK to \in {"done", "pulling", "cloning"} : GoOn(o, to) /\ (to # "done" => Url(o) \in ValidUrls)
      BY <2>1 DEF cloneOrRefresh
    <3>3. Moves(o, to)
      BY <1>3, <2>0, <3>2, GoingOn
    <3>4. RequestSound(o)'
      BY <2>1, <3>1, <3>2, <3>3 DEF RequestSound, Moves, cloneOrRefresh
    <3>5. QED
      BY <2>0, <3>2, <3>3, <3>4
  <2>2. CASE PullEnds(o)
    <3>1. PICK to \in {"listing", "cloning"} : GoOn(o, to)
      BY <2>2 DEF PullEnds
    <3>2. Moves(o, to)
      BY <1>3, <2>0, <3>1, GoingOn
    <3>3. RequestSound(o)'
      BY <2>2, <1>3, <3>1, <3>2 DEF RequestSound, Moves, PullEnds
    <3>4. QED
      BY <2>0, <3>1, <3>2, <3>3
  <2>3. CASE CloneEnds(o)
    <3>1. PICK to \in {"listing", "done"} : GoOn(o, to)
      BY <2>3 DEF CloneEnds
    <3>2. Moves(o, to)
      BY <1>3, <2>0, <3>1, GoingOn
    <3>3. RequestSound(o)'
      BY <2>3, <1>3, <3>1, <3>2 DEF RequestSound, Moves, CloneEnds
    <3>4. QED
      BY <2>0, <3>1, <3>2, <3>3
  <2>4. CASE getMarketplaces(o)
    <3>1. Moves(o, "listed") /\ ops'[o].seen = markets
      BY <1>3, <2>0, <2>4, ReadingOn DEF getMarketplaces, SkillsTyped
    <3>2. RequestSound(o)'
      BY <2>4, <1>3, <3>1 DEF RequestSound, Moves, getMarketplaces, Fills, SkillsTyped
    <3>3. QED
      BY <2>0, <3>1, <3>2
  <2>5. CASE setMarketplaces(o)
    <3>1. PICK to \in {"unclone", "finding", "done"} :
            GoOn(o, to) /\ (to = "unclone" => OpOf[o].kind = "remove") /\ (to = "finding" => OpOf[o].kind = "fetch")
      BY <2>5 DEF setMarketplaces, Past
    <3>2. Moves(o, to)
      BY <1>3, <2>0, <3>1, GoingOn
    <3>3. RequestSound(o)'
      BY <2>5, <1>3, <3>1, <3>2 DEF RequestSound, Moves, setMarketplaces, Copies
    <3>4. QED
      BY <2>0, <3>1, <3>2, <3>3
  <2>6. CASE removeMarketplace(o)
    <3>1. Moves(o, "done")
      BY <1>3, <2>0, <2>6, GoingOn DEF removeMarketplace
    <3>2. RequestSound(o)'
      BY <3>1 DEF RequestSound, Moves
    <3>3. QED
      BY <2>0, <3>1, <3>2
  <2>7. QED
    BY <2>1, <2>2, <2>3, <2>4, <2>5, <2>6
<1>9. PICK to \in SkillPlaces : Moves(o, to) /\ to \notin {"copying", "dropping", "recording"} /\ RequestSound(o)'
  BY <1>8
<1>10. /\ \A p \in SkillOps : RequestSound(p)'
       /\ OpsDone \subseteq OpsDone'
       /\ \A p \in SkillOps : ops'[p].at \in {"copying", "dropping", "recording"} => ListSound(ops'[p].seen, OpsDone')
  BY <1>3, <1>7, <1>9, OthersSound DEF SkillsBase
<1>11. ListSound(managed', OpsDone')
  BY <1>1, <1>3, <1>10, ListLasts DEF ListsSound
<1>12. SkillsTyped'
  BY <1>1, <1>3, <1>5, <1>6, <1>9 DEF SkillsTyped, Moves
<1>13. QED
  BY <1>1, <1>2, <1>7, <1>9, <1>10, <1>11, <1>12 DEF SkillsBase, ListsSound


\* What a scan finds is of what the url offers.
LEMMA FoundOffered ==
  ASSUME NEW u \in DOMAIN Offers, NEW skills \in discoverSkills(u), NEW o, Matching(o, skills) # <<>>
  PROVE  Matching(o, skills)[1] \in Offered
<1> DEFINE all == ToSet(Offers[u])
<1>1. Offers[u] \in Seq(all) /\ all \subseteq Offered
  BY SkillsAssumption DEF SkillsAssumption, Offered
<1> HIDE DEF all
<1>2. skills \in Seq(all)
  <2>1. <<>> \in Seq(all)
    OBVIOUS
  <2>2. \A part \in SUBSET ToSet(Offers[u]) : OnlyIn(Offers[u], part) \in Seq(all)
    BY <1>1, OnlyInKeeps
  <2>3. QED
    BY <1>1, <2>1, <2>2 DEF discoverSkills
<1> PICK dirs : dirs = OnlyIn(skills, {s \in ToSet(skills) : s.dir = OpOf[o].dir})
  OBVIOUS
<1> PICK names : names = OnlyIn(skills, {s \in ToSet(skills) : s.name = OpOf[o].dir})
  OBVIOUS
<1>3. (dirs # <<>> => dirs[1] \in ToSet(skills)) /\ (names # <<>> => names[1] \in ToSet(skills))
  BY <1>2, OnlyInKeeps
<1>4. Matching(o, skills) = dirs \/ Matching(o, skills) = names
  BY DEF Matching
<1>5. ToSet(skills) \subseteq all
  BY <1>2 DEF ToSet
<1>6. QED
  BY <1>1, <1>3, <1>4, <1>5

LEMMA FindBase ==
  ASSUME SkillsBase, NEW o \in SkillOps, FindSkill(o)
  PROVE  SkillsBase' /\ \E to \in {"done", "reading"} : Moves(o, to)
<1>1. SkillsTyped /\ RequestSound(o) /\ ListsSound /\ UNCHANGED <<clones, markets, managed, skillDirs>>
  BY DEF SkillsBase, FindSkill
<1>2. Url(o) \in DOMAIN Offers /\ OpOf[o].kind \in Copies /\ ops[o].at # "done"
  BY <1>1, SkillsAssumption DEF SkillsAssumption, FindSkill, Comes, RequestSound, Copies, Url
<1>3. PICK skills \in discoverSkills(Url(o)) :
        ops' = [ops EXCEPT ![o] = IF Matching(o, skills) = <<>> THEN [@ EXCEPT !.at = "done"]
                                  ELSE [at |-> "reading", seen |-> <<>>, pick |-> <<Matching(o, skills)[1]>>]]
  BY DEF FindSkill
<1>4. "done" \in SkillPlaces /\ "reading" \in SkillPlaces
  BY DEF SkillPlaces
<1>5. PICK to \in {"done", "reading"} : Moves(o, to) /\ (to = "reading" => \E s \in Offered : ops'[o].pick = <<s>>)
  <2>1. CASE Matching(o, skills) = <<>>
    BY <1>1, <1>4, <2>1, <1>3, GoingOn DEF GoOn
  <2>2. CASE Matching(o, skills) # <<>>
    <3> PICK s : s = Matching(o, skills)[1]
      OBVIOUS
    <3>1. s \in Offered
      BY <1>2, <2>2, FoundOffered
    <3> DEFINE r == [at |-> "reading", seen |-> <<>>, pick |-> <<s>>]
    <3>2. r \in SkillStates /\ r.at = "reading" /\ r.pick = <<s>>
      <4>1. <<>> \in Seq(SkillEntries)
        OBVIOUS
      <4>2. QED
        BY <1>4, <3>1, <4>1 DEF SkillStates
    <3>3. ops' = [ops EXCEPT ![o] = r]
      BY <1>3, <2>2
    <3> HIDE DEF r
    <3>4. ops \in [SkillOps -> SkillStates]
      BY <1>1 DEF SkillsTyped
    <3>5. Moves(o, "reading") /\ ops'[o].pick = <<s>>
      BY <3>2, <3>3, <3>4 DEF Moves
    <3>6. QED
      BY <3>1, <3>5
  <2>3. QED
    BY <2>1, <2>2
<1>6. RequestSound(o)'
  BY <1>2, <1>5 DEF RequestSound, Moves
<1>7. /\ \A p \in SkillOps : RequestSound(p)'
      /\ OpsDone \subseteq OpsDone'
      /\ \A p \in SkillOps : ops'[p].at \in {"copying", "dropping", "recording"} => ListSound(ops'[p].seen, OpsDone')
  BY <1>1, <1>2, <1>5, <1>6, OthersSound DEF SkillsBase
<1>8. ListSound(managed', OpsDone')
  BY <1>1, <1>7, ListLasts DEF ListsSound
<1>9. SkillsTyped' /\ OwnFoldersKept'
  BY <1>1, <1>5 DEF SkillsTyped, Moves, SkillsBase, OwnFoldersKept
<1>10. QED
  BY <1>5, <1>7, <1>8, <1>9 DEF SkillsBase, ListsSound

LEMMA ReadBase ==
  ASSUME SkillsBase, NEW o \in SkillOps, getInstalled(o)
  PROVE  SkillsBase' /\ \E to \in {"copying", "dropping"} : Moves(o, to)
<1>1. SkillsTyped /\ RequestSound(o) /\ ListsSound /\ UNCHANGED <<clones, markets, managed, skillDirs>>
  BY DEF SkillsBase, getInstalled
<1>2. PICK to \in {"copying", "dropping"} :
        /\ ops' = [ops EXCEPT ![o].at = to, ![o].seen = managed]
        /\ ops[o].at # "done" /\ (to = "copying" => ops[o].at = "reading") /\ (to = "dropping" => OpOf[o].kind = "uninstall")
  BY DEF getInstalled, Comes
<1>3. to \in SkillPlaces /\ managed \in Seq(SkillEntries)
  BY <1>1 DEF SkillPlaces, SkillsTyped
<1>4. Moves(o, to) /\ ops'[o].seen = managed /\ ops'[o].pick = ops[o].pick
  BY <1>1, <1>2, <1>3, ReadingOn
<1>5. RequestSound(o)'
  BY <1>1, <1>2, <1>3, <1>4 DEF RequestSound, Moves
<1>6. /\ \A p \in SkillOps : RequestSound(p)'
      /\ OpsDone \subseteq OpsDone'
      /\ \A p \in SkillOps : ops'[p].at \in {"copying", "dropping", "recording"} => ListSound(ops'[p].seen, OpsDone')
  <2>1. ListSound(ops'[o].seen, OpsDone)
    BY <1>1, <1>4 DEF ListsSound
  <2>2. QED
    BY <1>1, <1>2, <1>4, <1>5, <2>1, OthersSound DEF SkillsBase
<1>7. ListSound(managed', OpsDone')
  BY <1>1, <1>6, ListLasts DEF ListsSound
<1>8. SkillsTyped' /\ OwnFoldersKept'
  BY <1>1, <1>4 DEF SkillsTyped, Moves, SkillsBase, OwnFoldersKept
<1>9. QED
  BY <1>4, <1>6, <1>7, <1>8 DEF SkillsBase, ListsSound


LEMMA OfferedHas ==
  ASSUME NEW s \in Offered
  PROVE  s.dir \in AllDirs /\ s.name \in {q.name : q \in Offered}
  BY DEF Offered, AllDirs

\* A folder that is not in the list of an install is written into only where it is empty, which one of the user's is not.
LEMMA InstallBase ==
  ASSUME SkillsBase, NEW o \in SkillOps, installSkill(o)
  PROVE  /\ SkillsBase' /\ InHand(o)
         /\ \/ Moves(o, "done") /\ UNCHANGED skillDirs
            \/ /\ Moves(o, "recording") /\ OpOf[o].kind \in Copies /\ Url(o) \in DOMAIN Offers
               /\ TargetOf(o) \in AllDirs \ OwnDirs
               /\ skillDirs' = [skillDirs EXCEPT ![TargetOf(o)] = @ \cup {Url(o)}]
               /\ skillDirs[TargetOf(o)] = {} \/ EntriesOf(ops[o].seen, TargetOf(o)) # {}
<1>1. SkillsTyped /\ RequestSound(o) /\ ListsSound /\ UNCHANGED <<clones, markets, managed>> /\ ops[o].at = "copying"
  BY DEF SkillsBase, installSkill
<1>2. PICK s \in Offered : ops[o].pick = <<s>>
  BY <1>1 DEF RequestSound
<1>3. OpOf[o].kind \in Copies /\ Url(o) \in DOMAIN Offers /\ ops[o].seen \in Seq(SkillEntries)
  BY <1>1 DEF RequestSound
<1>4. TargetOf(o) = s.dir /\ ops[o].pick[1].dir = s.dir /\ s.dir \in AllDirs
  BY <1>2, <1>3, OfferedHas DEF TargetOf, Copies
<1>5. ListSound(ops[o].seen, OpsDone)
  BY <1>1 DEF ListsSound
<1>6. "done" \in SkillPlaces /\ "recording" \in SkillPlaces
  BY DEF SkillPlaces
<1>7. CASE GoOn(o, "done") /\ UNCHANGED skillDirs
  <2>1. Moves(o, "done") /\ InHand(o)
    BY <1>1, <1>6, <1>7, GoingOn
  <2>2. RequestSound(o)'
    BY <2>1 DEF RequestSound, Moves
  <2>3. /\ \A p \in SkillOps : RequestSound(p)'
        /\ OpsDone \subseteq OpsDone'
        /\ \A p \in SkillOps : ops'[p].at \in {"copying", "dropping", "recording"} => ListSound(ops'[p].seen, OpsDone')
    BY <1>1, <2>1, <2>2, OthersSound DEF SkillsBase
  <2>4. ListSound(managed', OpsDone')
    BY <1>1, <2>3, ListLasts DEF ListsSound
  <2>5. SkillsTyped' /\ OwnFoldersKept'
    BY <1>1, <1>7, <2>1 DEF SkillsTyped, Moves, SkillsBase, OwnFoldersKept
  <2>6. QED
    BY <1>7, <2>1, <2>3, <2>4, <2>5 DEF SkillsBase, ListsSound
<1>8. CASE /\ ~InstallRefused(o) /\ GoOn(o, "recording")
           /\ skillDirs' = [skillDirs EXCEPT ![ops[o].pick[1].dir] = @ \cup {Url(o)}]
  <2>1. Moves(o, "recording") /\ InHand(o)
    BY <1>1, <1>6, <1>8, GoingOn
  <2>2. skillDirs[s.dir] = {} \/ EntriesOf(ops[o].seen, s.dir) # {}
    BY <1>4, <1>8 DEF InstallRefused, ManagedDir, EntriesOf
  <2>3. s.dir \notin OwnDirs
    <3>1. ASSUME s.dir \in OwnDirs PROVE skillDirs[s.dir] = {"own"}
      BY <3>1 DEF SkillsBase, OwnFoldersKept
    <3>2. \A e \in ToSet(ops[o].seen) : e.dir \notin OwnDirs
      BY <1>3, <1>5, ListMembers
    <3>3. QED
      BY <2>2, <3>1, <3>2 DEF EntriesOf
  <2>4. skillDirs' \in [AllDirs -> SUBSET (DOMAIN Offers \cup {"own"})] /\ OwnFoldersKept'
    <3>1. skillDirs' = [skillDirs EXCEPT ![s.dir] = @ \cup {Url(o)}]
      BY <1>4, <1>8
    <3>2. skillDirs \in [AllDirs -> SUBSET (DOMAIN Offers \cup {"own"})] /\ OwnFoldersKept
      BY <1>1 DEF SkillsTyped, SkillsBase
    <3>3. skillDirs' \in [AllDirs -> SUBSET (DOMAIN Offers \cup {"own"})]
      BY <1>3, <1>4, <3>1, <3>2
    <3>4. \A d \in AllDirs : d # s.dir => skillDirs'[d] = skillDirs[d]
      BY <3>1, <3>2
    <3>5. QED
      BY <2>3, <3>2, <3>3, <3>4 DEF OwnFoldersKept, AllDirs
  <2>5. RequestSound(o)'
    BY <1>2, <1>3, <2>1, <2>3 DEF RequestSound, Moves, InHand, Copies
  <2>6. /\ \A p \in SkillOps : RequestSound(p)'
        /\ OpsDone \subseteq OpsDone'
        /\ \A p \in SkillOps : ops'[p].at \in {"copying", "dropping", "recording"} => ListSound(ops'[p].seen, OpsDone')
    BY <1>1, <1>5, <2>1, <2>5, OthersSound DEF SkillsBase, InHand
  <2>7. ListSound(managed', OpsDone')
    BY <1>1, <2>6, ListLasts DEF ListsSound
  <2>8. SkillsTyped'
    BY <1>1, <2>1, <2>4 DEF SkillsTyped, Moves
  <2>9. SkillsBase'
    BY <2>4, <2>6, <2>7, <2>8 DEF SkillsBase, ListsSound
  <2>10. skillDirs' = [skillDirs EXCEPT ![s.dir] = @ \cup {Url(o)}]
    BY <1>4, <1>8
  <2>11. QED
    BY <1>3, <1>4, <2>1, <2>2, <2>3, <2>9, <2>10
<1>9. QED
  BY <1>7, <1>8 DEF installSkill

\* An uninstall empties the folder of an entry, which is none of the user's.
LEMMA UninstallBase ==
  ASSUME SkillsBase, NEW o \in SkillOps, uninstallSkill(o)
  PROVE  /\ SkillsBase' /\ InHand(o)
         /\ \/ Moves(o, "done") /\ UNCHANGED <<skillDirs, mishaps>>
            \/ /\ Moves(o, "recording") /\ OpOf[o].kind = "uninstall" /\ TargetOf(o) \in AllDirs \ OwnDirs
               /\ skillDirs' = [skillDirs EXCEPT ![TargetOf(o)] = {}]
               /\ EntriesOf(ops[o].seen, TargetOf(o)) # {} /\ mishaps \subseteq mishaps'
               /\ \/ "namesakes" \in mishaps'
                  \/ Named(ops[o].seen, OpOf[o].name) = EntriesOf(ops[o].seen, TargetOf(o))
<1>1. SkillsTyped /\ RequestSound(o) /\ ListsSound /\ UNCHANGED <<clones, markets, managed>> /\ ops[o].at = "dropping"
  BY DEF SkillsBase, uninstallSkill
<1>2. OpOf[o].kind = "uninstall" /\ ops[o].seen \in Seq(SkillEntries) /\ ListSound(ops[o].seen, OpsDone)
  BY <1>1 DEF RequestSound, ListsSound
<1> PICK list : list = ops[o].seen
  OBVIOUS
<1> PICK mine : mine = OnlyIn(list, Named(list, OpOf[o].name))
  OBVIOUS
<1>3. /\ mine \in Seq(SkillEntries) /\ ToSet(mine) = ToSet(list) \cap Named(list, OpOf[o].name)
      /\ mine = <<>> <=> ToSet(list) \cap Named(list, OpOf[o].name) = {}
      /\ mine # <<>> => mine[1] \in ToSet(list) \cap Named(list, OpOf[o].name)
  BY <1>2, OnlyInKeeps
<1>4. ToSet(list) \cap Named(list, OpOf[o].name) = Named(list, OpOf[o].name)
  BY DEF Named
<1>5. TargetOf(o) = mine[1].dir
  BY <1>2 DEF TargetOf
<1>6. "done" \in SkillPlaces /\ "recording" \in SkillPlaces
  BY DEF SkillPlaces
<1>7. CASE mine = <<>>
  <2>1. GoOn(o, "done") /\ UNCHANGED <<skillDirs, mishaps>>
    BY <1>7 DEF uninstallSkill
  <2>2. Moves(o, "done") /\ InHand(o)
    BY <1>1, <1>6, <2>1, GoingOn
  <2>3. RequestSound(o)'
    BY <2>2 DEF RequestSound, Moves
  <2>4. /\ \A p \in SkillOps : RequestSound(p)'
        /\ OpsDone \subseteq OpsDone'
        /\ \A p \in SkillOps : ops'[p].at \in {"copying", "dropping", "recording"} => ListSound(ops'[p].seen, OpsDone')
    BY <1>1, <2>2, <2>3, OthersSound DEF SkillsBase
  <2>5. ListSound(managed', OpsDone')
    BY <1>1, <2>4, ListLasts DEF ListsSound
  <2>6. SkillsTyped' /\ OwnFoldersKept'
    BY <1>1, <2>1, <2>2 DEF SkillsTyped, Moves, SkillsBase, OwnFoldersKept
  <2>7. QED
    BY <2>1, <2>2, <2>4, <2>5, <2>6 DEF SkillsBase, ListsSound
<1>8. CASE mine # <<>>
  <2>1. /\ skillDirs' = [skillDirs EXCEPT ![mine[1].dir] = {}]
        /\ Mishap(Len(mine) > 1, "namesakes") /\ GoOn(o, "recording")
    BY <1>8 DEF uninstallSkill
  <2>2. Moves(o, "recording") /\ InHand(o)
    BY <1>1, <1>6, <2>1, GoingOn
  <2> PICK e : e = mine[1]
    OBVIOUS
  <2>3. e \in ToSet(list) /\ e.name = OpOf[o].name /\ TargetOf(o) = e.dir
    BY <1>3, <1>5, <1>8 DEF Named
  <2>4. e.dir \in AllDirs \ OwnDirs /\ (\A f \in ToSet(list) : f.dir = e.dir => f = e)
    BY <1>2, <2>3, ListMembers, EntryHas
  <2>5. skillDirs' = [skillDirs EXCEPT ![e.dir] = {}]
    BY <2>1
  <2>6. skillDirs' \in [AllDirs -> SUBSET (DOMAIN Offers \cup {"own"})] /\ OwnFoldersKept'
    <3>1. skillDirs \in [AllDirs -> SUBSET (DOMAIN Offers \cup {"own"})] /\ OwnFoldersKept
      BY <1>1 DEF SkillsTyped, SkillsBase
    <3>2. skillDirs' \in [AllDirs -> SUBSET (DOMAIN Offers \cup {"own"})]
      BY <2>5, <3>1
    <3>3. \A d \in AllDirs : d # e.dir => skillDirs'[d] = skillDirs[d]
      BY <2>5, <3>1
    <3>4. QED
      BY <2>4, <3>1, <3>2, <3>3 DEF OwnFoldersKept, AllDirs
  <2>7. RequestSound(o)'
    BY <1>2, <2>2, <2>3 DEF RequestSound, Moves, InHand, Named
  <2>8. /\ \A p \in SkillOps : RequestSound(p)'
        /\ OpsDone \subseteq OpsDone'
        /\ \A p \in SkillOps : ops'[p].at \in {"copying", "dropping", "recording"} => ListSound(ops'[p].seen, OpsDone')
    BY <1>1, <1>2, <2>2, <2>7, OthersSound DEF SkillsBase, InHand
  <2>9. ListSound(managed', OpsDone')
    BY <1>1, <2>8, ListLasts DEF ListsSound
  <2>10. SkillsTyped'
    BY <1>1, <2>2, <2>6 DEF SkillsTyped, Moves
  <2>11. SkillsBase'
    BY <2>6, <2>8, <2>9, <2>10 DEF SkillsBase, ListsSound
  <2>12. EntriesOf(list, e.dir) = {e}
    BY <2>3, <2>4 DEF EntriesOf
  <2>13. mishaps \subseteq mishaps' /\ (Len(mine) > 1 => "namesakes" \in mishaps')
    BY <2>1 DEF Mishap
  <2>14. ASSUME ~(Len(mine) > 1) PROVE Named(list, OpOf[o].name) = {e}
    <3>1. ToSet(mine) = {mine[1]}
      BY <1>3, <1>8, <2>14, OnlyOne
    <3>2. QED
      BY <1>3, <1>4, <3>1
  <2>15. QED
    BY <1>2, <2>2, <2>3, <2>4, <2>5, <2>11, <2>12, <2>13, <2>14
<1>9. QED
  BY <1>7, <1>8


\* An uninstall drops the entries of its name; an install puts its own in the place of those of its folder.
LEMMA RecordBase ==
  ASSUME SkillsBase, NEW o \in SkillOps, setInstalled(o)
  PROVE  /\ SkillsBase' /\ Moves(o, "done") /\ ops[o].at = "recording" /\ UNCHANGED skillDirs /\ mishaps \subseteq mishaps'
         /\ ops[o].seen = managed \/ "skill lost" \in mishaps'
         /\ IF OpOf[o].kind = "uninstall"
            THEN ToSet(managed') = ToSet(ops[o].seen) \ Named(ops[o].seen, OpOf[o].name)
            ELSE \E e \in SkillEntries :
                   /\ e.dir = TargetOf(o) /\ e.url = Url(o) /\ e.by = o
                   /\ ToSet(managed') = {f \in ToSet(ops[o].seen) : f.dir # TargetOf(o)} \cup {e}
<1>1. SkillsTyped /\ RequestSound(o) /\ ListsSound /\ UNCHANGED <<clones, markets, skillDirs>> /\ ops[o].at = "recording"
  BY DEF SkillsBase, setInstalled
<1>2. ops[o].seen \in Seq(SkillEntries) /\ ListSound(ops[o].seen, OpsDone)
  BY <1>1 DEF RequestSound, ListsSound
<1>3. GoOn(o, "done") /\ "done" \in SkillPlaces /\ mishaps \subseteq mishaps'
      /\ (ops[o].seen = managed \/ "skill lost" \in mishaps')
  BY DEF setInstalled, SkillPlaces, Mishap
<1>4. Moves(o, "done")
  BY <1>1, <1>3, GoingOn
<1>5. RequestSound(o)'
  BY <1>4 DEF RequestSound, Moves
<1>6. /\ \A p \in SkillOps : RequestSound(p)'
      /\ OpsDone \subseteq OpsDone'
      /\ \A p \in SkillOps : ops'[p].at \in {"copying", "dropping", "recording"} => ListSound(ops'[p].seen, OpsDone')
  BY <1>1, <1>4, <1>5, OthersSound DEF SkillsBase
<1> PICK list : list = ops[o].seen
  OBVIOUS
<1>7. list \in Seq(SkillEntries) /\ ListSound(list, OpsDone')
  BY <1>2, <1>6, ListLasts
<1>8. o \in OpsDone'
  BY <1>4 DEF Moves, OpsDone
<1>9. ASSUME OpOf[o].kind = "uninstall"
      PROVE  /\ managed' \in Seq(SkillEntries) /\ ListSound(managed', OpsDone')
             /\ ToSet(managed') = ToSet(list) \ Named(list, OpOf[o].name)
  <2>1. managed' = OnlyIn(list, ToSet(list) \ Named(list, OpOf[o].name))
    BY <1>9 DEF setInstalled
  <2>2. managed' \in Seq(SkillEntries) /\ ListSound(managed', OpsDone')
    BY <1>7, <2>1, ListShrinks
  <2>3. ToSet(managed') = ToSet(list) \ Named(list, OpOf[o].name)
    <3>1. ToSet(managed') = ToSet(list) \cap (ToSet(list) \ Named(list, OpOf[o].name))
      BY <1>7, <2>1, OnlyInKeeps
    <3>2. QED
      BY <3>1
  <2>4. QED
    BY <2>2, <2>3
<1>10. ASSUME OpOf[o].kind # "uninstall"
       PROVE  /\ managed' \in Seq(SkillEntries) /\ ListSound(managed', OpsDone')
              /\ \E e \in SkillEntries :
                   /\ e.dir = TargetOf(o) /\ e.url = Url(o) /\ e.by = o
                   /\ ToSet(managed') = {f \in ToSet(list) : f.dir # TargetOf(o)} \cup {e}
  <2>1. OpOf[o].kind \in Copies /\ Url(o) \in DOMAIN Offers
    BY <1>1, <1>10 DEF RequestSound
  <2>2. PICK s \in Offered : ops[o].pick = <<s>> /\ s.dir \notin OwnDirs
    BY <1>1, <1>10 DEF RequestSound
  <2> DEFINE e == [name |-> s.name, dir |-> s.dir, url |-> Url(o), by |-> o]
             kept == {f \in ToSet(list) : f.dir # s.dir}
  <2>3. e \in SkillEntries /\ e.dir = s.dir /\ e.url = Url(o) /\ e.by = o
    BY <2>1, <2>2, OfferedHas DEF SkillEntries
  <2>4. TargetOf(o) = s.dir
    BY <1>10, <2>2 DEF TargetOf
  <2> PICK others : others = OnlyIn(list, kept)
    OBVIOUS
  <2>5. managed' = Append(others, e)
    <3>1. managed' = Append(OnlyIn(ops[o].seen, {f \in ToSet(ops[o].seen) : f.dir # ops[o].pick[1].dir}),
                            [name |-> ops[o].pick[1].name, dir |-> ops[o].pick[1].dir, url |-> Url(o), by |-> o])
      BY <1>10 DEF setInstalled
    <3>2. ops[o].pick[1] = s
      BY <2>2
    <3>3. QED
      BY <3>1, <3>2, Zenon
  <2> HIDE DEF e, kept
  <2>6. others \in Seq(SkillEntries) /\ ListSound(others, OpsDone') /\ ToSet(others) = ToSet(list) \cap kept
    BY <1>7, ListShrinks, OnlyInKeeps
  <2>7. ToSet(others) = kept /\ \A f \in ToSet(others) : f.dir # e.dir
    BY <2>3, <2>6 DEF kept
  <2>8. managed' \in Seq(SkillEntries) /\ ListSound(managed', OpsDone') /\ ToSet(managed') = kept \cup {e}
    BY <1>8, <2>2, <2>3, <2>5, <2>6, <2>7, ListGrows
  <2>9. QED
    BY <2>3, <2>4, <2>8 DEF kept
<1>11. managed' \in Seq(SkillEntries) /\ ListSound(managed', OpsDone')
  BY <1>9, <1>10
<1>12. SkillsTyped' /\ OwnFoldersKept'
  BY <1>1, <1>4, <1>11 DEF SkillsTyped, Moves, SkillsBase, OwnFoldersKept
<1>13. QED
  BY <1>1, <1>3, <1>4, <1>6, <1>9, <1>10, <1>11, <1>12 DEF SkillsBase, ListsSound

LEMMA DeathBase ==
  ASSUME SkillsBase, SkillServerDies
  PROVE  SkillsBase' /\ "death" \in mishaps'
<1>1. SkillsTyped /\ ListsSound /\ UNCHANGED <<markets, managed, skillDirs>> /\ "death" \in mishaps'
  BY DEF SkillsBase, SkillServerDies
<1>2. ops' = [o \in SkillOps |-> IF o \in OpsRunning THEN [ops[o] EXCEPT !.at = "done"] ELSE ops[o]]
  BY DEF SkillServerDies
<1>3. ASSUME NEW o \in SkillOps
      PROVE  ops'[o] \in SkillStates /\ ops'[o].at \in {"unasked", "idle", "done"} /\ (ops[o].at = "done" => ops'[o].at = "done")
  <2>1. ops[o] \in SkillStates
    BY <1>1 DEF SkillsTyped
  <2>2. CASE o \in OpsRunning
    <3>1. ops'[o] = [ops[o] EXCEPT !.at = "done"]
      BY <1>2, <2>2
    <3>2. [ops[o] EXCEPT !.at = "done"] \in SkillStates /\ [ops[o] EXCEPT !.at = "done"].at = "done"
      BY <2>1 DEF SkillStates, SkillPlaces
    <3>3. QED
      BY <3>1, <3>2
  <2>3. CASE o \notin OpsRunning
    <3>1. ops'[o] = ops[o]
      BY <1>2, <2>3
    <3>2. QED
      BY <2>1, <2>3, <3>1 DEF OpsRunning
  <2>4. QED
    BY <2>2, <2>3
<1>4. ops' \in [SkillOps -> SkillStates]
  BY <1>2, <1>3
<1>5. clones' \in [DOMAIN Offers -> CloneStates]
  <2>1. clones' = [u \in DOMAIN clones |-> IF clones[u].st = "busy" THEN [st |-> "broken", by |-> "nobody"] ELSE clones[u]]
    BY DEF SkillServerDies
  <2>2. DOMAIN clones = DOMAIN Offers /\ [st |-> "broken", by |-> "nobody"] \in CloneStates
        /\ \A u \in DOMAIN Offers : clones[u] \in CloneStates
    BY <1>1 DEF SkillsTyped, CloneStates
  <2>3. QED
    BY <2>1, <2>2
<1>6. OpsDone \subseteq OpsDone'
  BY <1>3 DEF OpsDone
<1>7. ListSound(managed', OpsDone')
  BY <1>1, <1>6, ListLasts DEF ListsSound
<1>8. ListsSound'
  BY <1>3, <1>7 DEF ListsSound
<1>9. \A o \in SkillOps : RequestSound(o)'
  BY <1>3 DEF RequestSound
<1>10. SkillsTyped' /\ OwnFoldersKept'
  BY <1>1, <1>4, <1>5 DEF SkillsTyped, SkillsBase, OwnFoldersKept
<1>11. QED
  BY <1>1, <1>8, <1>9, <1>10 DEF SkillsBase

-----------------------------------------------------------------------------
(* The folders and the list *)

\* A folder at which nothing happens stays as sound as it was.
LEMMA FolderKept ==
  ASSUME NEW d, Workers(d)' = Workers(d), \A p \in Workers(d) : ops'[p] = ops[p],
         skillDirs'[d] = skillDirs[d], EntriesOf(managed', d) = EntriesOf(managed, d), FolderSound(d)
  PROVE  FolderSound(d)'
<1>1. Agrees(d) => Agrees(d)'
  BY DEF Agrees, ManagedDir, EntriesOf
<1>2. \A p \in Workers(d) : StaleAt(p, d) => StaleAt(p, d)'
  BY DEF StaleAt
<1>3. \A p \in Workers(d) : LeftSo(p, d) => LeftSo(p, d)'
  BY DEF LeftSo
<1>4. QED
  BY <1>1, <1>2, <1>3 DEF FolderSound

LEMMA WorkersOnly ==
  ASSUME SkillsTyped, NEW o \in SkillOps, NEW to, Moves(o, to), NEW d
  PROVE  /\ \A p \in SkillOps : p # o => TargetOf(p)' = TargetOf(p)
         /\ Workers(d)' \ {o} = Workers(d) \ {o}
         /\ o \in Workers(d)' <=> to = "recording" /\ TargetOf(o)' = d
         /\ o \in Workers(d) <=> ops[o].at = "recording" /\ TargetOf(o) = d
         /\ o \notin Workers(d) /\ o \notin Workers(d)' => Workers(d)' = Workers(d)
         /\ Workers(d) \subseteq SkillOps
         /\ InHand(o) => TargetOf(o)' = TargetOf(o)
<1>1. \A p \in SkillOps : p # o => TargetOf(p)' = TargetOf(p)
  BY DEF Moves, TargetOf
<1>2. \A p \in SkillOps : p # o => (p \in Workers(d)' <=> p \in Workers(d))
  BY <1>1 DEF Moves, Workers
<1>3. Workers(d) \subseteq SkillOps /\ Workers(d)' \subseteq SkillOps
  BY DEF Workers
<1>4. Workers(d)' \ {o} = Workers(d) \ {o}
  BY <1>2, <1>3 DEF Workers
<1>5. (o \in Workers(d)' <=> to = "recording" /\ TargetOf(o)' = d) /\ (o \in Workers(d) <=> ops[o].at = "recording" /\ TargetOf(o) = d)
  BY DEF Moves, Workers
<1>6. ASSUME o \notin Workers(d), o \notin Workers(d)' PROVE Workers(d)' = Workers(d)
  <2>1. \A p \in SkillOps : p \in Workers(d)' <=> p \in Workers(d)
    BY <1>2, <1>6
  <2>2. QED
    BY <2>1 DEF Workers
<1>7. InHand(o) => TargetOf(o)' = TargetOf(o)
  BY DEF InHand, TargetOf
<1>8. QED
  BY <1>1, <1>3, <1>4, <1>5, <1>6, <1>7

\* Requests that neither touch a folder nor record leave all folders as sound.
LEMMA FoldersUntouched ==
  ASSUME SkillsTyped, FoldersSound, NEW o \in SkillOps, NEW to, Moves(o, to),
         ops[o].at # "recording", to # "recording", UNCHANGED <<managed, skillDirs>>, mishaps \subseteq mishaps'
  PROVE  FoldersSound'
<1> SUFFICES ASSUME mishaps' \cap {"skill lost", "namesakes", "death"} = {}
             PROVE  /\ \A d \in AllDirs \ OwnDirs : FolderSound(d)'
                    /\ \A p \in SkillOps :
                         ops'[p].at = "recording" /\ OpOf[p].kind = "uninstall" =>
                           Named(ops'[p].seen, OpOf[p].name) = EntriesOf(ops'[p].seen, TargetOf(p)')
  BY DEF FoldersSound
<1>1. mishaps \cap {"skill lost", "namesakes", "death"} = {}
  OBVIOUS
<1>2. ASSUME NEW d \in AllDirs \ OwnDirs PROVE FolderSound(d)'
  <2>1. FolderSound(d)
    BY <1>1 DEF FoldersSound
  <2>2. Workers(d)' = Workers(d) /\ o \notin Workers(d)
    <3>1. o \notin Workers(d)' /\ o \notin Workers(d)
      BY WorkersOnly
    <3>2. QED
      BY <3>1, WorkersOnly
  <2>3. \A p \in Workers(d) : ops'[p] = ops[p]
    BY <2>2, WorkersOnly DEF Moves
  <2>4. EntriesOf(managed', d) = EntriesOf(managed, d)
    OBVIOUS
  <2>5. QED
    BY <2>1, <2>2, <2>3, <2>4, FolderKept
<1>3. ASSUME NEW p \in SkillOps, ops'[p].at = "recording", OpOf[p].kind = "uninstall"
      PROVE  Named(ops'[p].seen, OpOf[p].name) = EntriesOf(ops'[p].seen, TargetOf(p)')
  <2>1. p # o /\ ops'[p] = ops[p] /\ TargetOf(p)' = TargetOf(p)
    BY <1>3, WorkersOnly DEF Moves
  <2>2. QED
    BY <1>1, <1>3, <2>1 DEF FoldersSound
<1>4. QED
  BY <1>2, <1>3


\* Who uninstalls from a folder has read of an entry of it.
LEMMA UninstallerKnows ==
  ASSUME SkillsBase, NEW d, NEW p \in Workers(d), OpOf[p].kind = "uninstall"
  PROVE  EntriesOf(ops[p].seen, d) # {}
<1>1. p \in SkillOps /\ ops[p].at = "recording" /\ TargetOf(p) = d
  BY DEF Workers
<1>2. ops[p].seen \in Seq(SkillEntries) /\ Named(ops[p].seen, OpOf[p].name) # {}
  BY <1>1 DEF SkillsBase, RequestSound, Copies
<1>3. PICK e \in ToSet(ops[p].seen) : e.dir = d
  BY <1>1, <1>2, TargetThere
<1>4. QED
  BY <1>3 DEF EntriesOf

\* Everything but the folder a request works in stays as it was.
LEMMA FolderElsewhere ==
  ASSUME SkillsTyped, NEW o \in SkillOps, NEW to, Moves(o, to), NEW d,
         ops[o].at = "recording" => TargetOf(o) # d, to = "recording" => TargetOf(o)' # d,
         skillDirs'[d] = skillDirs[d], EntriesOf(managed', d) = EntriesOf(managed, d), FolderSound(d)
  PROVE  FolderSound(d)'
<1>1. o \notin Workers(d) /\ o \notin Workers(d)'
  BY WorkersOnly
<1>2. Workers(d)' = Workers(d) /\ Workers(d) \subseteq SkillOps
  BY <1>1, WorkersOnly
<1>3. \A p \in Workers(d) : ops'[p] = ops[p]
  BY <1>1, <1>2 DEF Moves
<1>4. QED
  BY <1>2, <1>3, FolderKept

\* Another request comes to work in a folder; the list is as it was.
Joins(o, d) ==
  /\ Workers(d) \subseteq SkillOps /\ o \notin Workers(d) /\ Workers(d)' = Workers(d) \cup {o}
  /\ \A p \in Workers(d) : ops'[p] = ops[p]
  /\ ops'[o].seen = ops[o].seen /\ managed' = managed
  /\ LeftSo(o, d)'

LEMMA Joining ==
  ASSUME SkillsTyped, NEW o \in SkillOps, Moves(o, "recording"), InHand(o), ops[o].at # "recording",
         NEW d, d = TargetOf(o), managed' = managed, LeftSo(o, d)'
  PROVE  Joins(o, d)
<1>1. o \notin Workers(d) /\ o \in Workers(d)' /\ Workers(d)' \ {o} = Workers(d) \ {o} /\ Workers(d) \subseteq SkillOps
  BY WorkersOnly
<1>2. Workers(d)' = Workers(d) \cup {o}
  <2> PICK before : before = Workers(d)
    OBVIOUS
  <2> PICK after : after = Workers(d)'
    OBVIOUS
  <2>1. after \ {o} = before \ {o} /\ o \in after
    BY <1>1
  <2>2. after = before \cup {o}
    BY <2>1
  <2>3. QED
    BY <2>2
<1>3. \A p \in Workers(d) : ops'[p] = ops[p]
  BY <1>1 DEF Moves
<1>4. QED
  BY <1>1, <1>2, <1>3 DEF Joins, InHand

\* Who comes to a folder and has read an entry of it: settles it alone, or with another will be found out.
LEMMA JoinKnowing ==
  ASSUME SkillsBase, NEW o \in SkillOps, NEW d, Joins(o, d), FolderSound(d), EntriesOf(ops[o].seen, d) # {}
  PROVE  FolderSound(d)'
<1>1. \A p \in Workers(d) : p \in Workers(d)' /\ (StaleAt(p, d) => StaleAt(p, d)') /\ EntriesOf(ops'[p].seen, d) = EntriesOf(ops[p].seen, d)
  BY DEF Joins, StaleAt
<1>2. o \in Workers(d)' /\ EntriesOf(ops'[o].seen, d) # {} /\ (StaleAt(o, d) => StaleAt(o, d)')
  BY DEF Joins, StaleAt
<1>3. CASE \E p \in Workers(d) : StaleAt(p, d)
  BY <1>1, <1>3 DEF FolderSound
<1>4. CASE StaleAt(o, d)
  BY <1>2, <1>4 DEF FolderSound
<1>5. CASE \E p \in Workers(d) : EntriesOf(ops[p].seen, d) # {}
  <2>1. PICK p \in Workers(d) : EntriesOf(ops[p].seen, d) # {}
    BY <1>5
  <2>2. p # o /\ p \in Workers(d)' /\ EntriesOf(ops'[p].seen, d) # {}
    BY <1>1, <2>1 DEF Joins
  <2>3. QED
    BY <1>2, <2>2 DEF FolderSound
<1>6. CASE Workers(d) = {}
  <2>1. Workers(d)' = {o}
    BY <1>6 DEF Joins
  <2>2. LeftSo(o, d)'
    BY DEF Joins
  <2>3. QED
    BY <1>2, <2>1, <2>2 DEF FolderSound
<1>7. ASSUME \A p \in Workers(d) : ~StaleAt(p, d) /\ EntriesOf(ops[p].seen, d) = {}, ~StaleAt(o, d), Workers(d) # {} PROVE FALSE
  <2>1. \A p \in Workers(d) : OpOf[p].kind # "uninstall"
    BY <1>7, UninstallerKnows
  <2>2. \E p \in Workers(d) : EntriesOf(managed, d) = {}
    BY <1>7, <2>1 DEF FolderSound
  <2>3. QED
    BY <1>7, <2>2 DEF StaleAt
<1>8. QED
  BY <1>3, <1>4, <1>5, <1>6, <1>7

\* Who comes to a folder that was empty and was in nobody's list: alone, or beside an uninstall.
LEMMA JoinFresh ==
  ASSUME SkillsBase, NEW o \in SkillOps, NEW d, Joins(o, d), FolderSound(d), EntriesOf(ops[o].seen, d) = {},
         skillDirs[d] = {}
  PROVE  FolderSound(d)'
<1>1. \A p \in Workers(d) : p \in Workers(d)' /\ (StaleAt(p, d) => StaleAt(p, d)') /\ EntriesOf(ops'[p].seen, d) = EntriesOf(ops[p].seen, d)
  BY DEF Joins, StaleAt
<1>2. o \in Workers(d)' /\ EntriesOf(ops'[o].seen, d) = {} /\ LeftSo(o, d)' /\ o \notin Workers(d)
  BY DEF Joins
<1>3. \A p \in Workers(d) : LeftSo(p, d) => OpOf[p].kind = "uninstall"
  BY DEF LeftSo
<1>4. CASE Workers(d) = {} /\ Agrees(d)
  <2>1. Workers(d)' = {o}
    BY <1>4 DEF Joins
  <2>2. EntriesOf(managed', d) = {}
    BY <1>4 DEF Agrees, ManagedDir, EntriesOf, Joins
  <2>3. QED
    BY <1>2, <2>1, <2>2 DEF FolderSound
<1>5. CASE \E p \in Workers(d) : StaleAt(p, d)
  BY <1>1, <1>5 DEF FolderSound
<1>6. CASE \E p, q \in Workers(d) : p # q /\ EntriesOf(ops[p].seen, d) # {} /\ EntriesOf(ops[q].seen, d) # {}
  BY <1>1, <1>6 DEF FolderSound
<1>7. ASSUME NEW p \in Workers(d), Workers(d) = {p}, LeftSo(p, d) PROVE FolderSound(d)'
  <2>1. OpOf[p].kind = "uninstall" /\ p # o /\ Workers(d)' = {o, p} /\ p \in Workers(d)'
    BY <1>1, <1>2, <1>3, <1>7 DEF Joins
  <2>2. QED
    BY <1>2, <2>1 DEF FolderSound
<1>8. CASE \E q, p \in Workers(d) : /\ q # p /\ Workers(d) = {q, p} /\ OpOf[p].kind = "uninstall"
                                    /\ EntriesOf(ops[q].seen, d) = {} /\ LeftSo(q, d)
  BY <1>3, <1>8, UninstallerKnows
<1>9. QED
  BY <1>4, <1>5, <1>6, <1>7, <1>8 DEF FolderSound


\* The entries of each uninstall's name are those of the folder it emptied.
NamesakeFree(p) ==
  ops[p].at = "recording" /\ OpOf[p].kind = "uninstall" =>
    Named(ops[p].seen, OpOf[p].name) = EntriesOf(ops[p].seen, TargetOf(p))

LEMMA FoldersInstall ==
  ASSUME SkillsBase, FoldersSound, NEW o \in SkillOps, installSkill(o)
  PROVE  FoldersSound'
<1>1. SkillsTyped /\ UNCHANGED <<managed, mishaps>> /\ ops[o].at = "copying" /\ InHand(o) /\ mishaps \subseteq mishaps'
  BY InstallBase DEF SkillsBase, installSkill
<1>2. CASE Moves(o, "done") /\ UNCHANGED skillDirs
  BY <1>1, <1>2, FoldersUntouched
<1>3. CASE /\ Moves(o, "recording") /\ OpOf[o].kind \in Copies /\ Url(o) \in DOMAIN Offers
           /\ TargetOf(o) \in AllDirs \ OwnDirs
           /\ skillDirs' = [skillDirs EXCEPT ![TargetOf(o)] = @ \cup {Url(o)}]
           /\ skillDirs[TargetOf(o)] = {} \/ EntriesOf(ops[o].seen, TargetOf(o)) # {}
  <2> SUFFICES ASSUME mishaps' \cap {"skill lost", "namesakes", "death"} = {}
               PROVE  (\A d \in AllDirs \ OwnDirs : FolderSound(d)') /\ (\A p \in SkillOps : NamesakeFree(p)')
    BY DEF FoldersSound, NamesakeFree
  <2>1. (\A d \in AllDirs \ OwnDirs : FolderSound(d)) /\ (\A p \in SkillOps : NamesakeFree(p))
    BY <1>1 DEF FoldersSound, NamesakeFree
  <2> PICK t : t = TargetOf(o)
    OBVIOUS
  <2>2. t \in AllDirs \ OwnDirs /\ TargetOf(o)' = t
    BY <1>1, <1>3, WorkersOnly
  <2>3. skillDirs'[t] = skillDirs[t] \cup {Url(o)} /\ \A d \in AllDirs : d # t => skillDirs'[d] = skillDirs[d]
    <3>1. skillDirs' = [skillDirs EXCEPT ![t] = @ \cup {Url(o)}] /\ DOMAIN skillDirs = AllDirs
      BY <1>1, <1>3 DEF SkillsTyped
    <3>2. QED
      BY <2>2, <3>1
  <2>4. ASSUME NEW d \in AllDirs \ OwnDirs, d # t PROVE FolderSound(d)'
    BY <1>1, <1>3, <2>1, <2>2, <2>3, <2>4, FolderElsewhere
  <2>5. LeftSo(o, t)'
    BY <1>3, <2>3 DEF LeftSo, Copies
  <2>6. Joins(o, t)
    BY <1>1, <1>3, <2>5, Joining
  <2>7. FolderSound(t)'
    <3>1. CASE EntriesOf(ops[o].seen, t) # {}
      BY <2>1, <2>2, <2>6, <3>1, JoinKnowing
    <3>2. CASE EntriesOf(ops[o].seen, t) = {}
      BY <1>3, <2>1, <2>2, <2>6, <3>2, JoinFresh
    <3>3. QED
      BY <3>1, <3>2
  <2>8. ASSUME NEW p \in SkillOps PROVE NamesakeFree(p)'
    <3>1. CASE p = o
      BY <1>3, <3>1 DEF NamesakeFree, Copies
    <3>2. CASE p # o
      <4>1. ops'[p] = ops[p] /\ TargetOf(p)' = TargetOf(p)
        BY <1>1, <1>3, <3>2, WorkersOnly DEF Moves
      <4>2. QED
        BY <2>1, <4>1 DEF NamesakeFree
    <3>3. QED
      BY <3>1, <3>2
  <2>9. QED
    BY <2>4, <2>7, <2>8
<1>4. QED
  BY <1>2, <1>3, InstallBase

LEMMA FoldersUninstall ==
  ASSUME SkillsBase, FoldersSound, NEW o \in SkillOps, uninstallSkill(o)
  PROVE  FoldersSound'
<1>1. SkillsTyped /\ UNCHANGED managed /\ ops[o].at = "dropping" /\ InHand(o)
  BY UninstallBase DEF SkillsBase, uninstallSkill
<1>2. CASE Moves(o, "done") /\ UNCHANGED <<skillDirs, mishaps>>
  BY <1>1, <1>2, FoldersUntouched
<1>3. CASE /\ Moves(o, "recording") /\ OpOf[o].kind = "uninstall" /\ TargetOf(o) \in AllDirs \ OwnDirs
           /\ skillDirs' = [skillDirs EXCEPT ![TargetOf(o)] = {}]
           /\ EntriesOf(ops[o].seen, TargetOf(o)) # {} /\ mishaps \subseteq mishaps'
           /\ \/ "namesakes" \in mishaps'
              \/ Named(ops[o].seen, OpOf[o].name) = EntriesOf(ops[o].seen, TargetOf(o))
  <2> SUFFICES ASSUME mishaps' \cap {"skill lost", "namesakes", "death"} = {}
               PROVE  (\A d \in AllDirs \ OwnDirs : FolderSound(d)') /\ (\A p \in SkillOps : NamesakeFree(p)')
    BY DEF FoldersSound, NamesakeFree
  <2>0. mishaps \cap {"skill lost", "namesakes", "death"} = {}
    BY <1>3
  <2>1. (\A d \in AllDirs \ OwnDirs : FolderSound(d)) /\ (\A p \in SkillOps : NamesakeFree(p))
    BY <2>0 DEF FoldersSound, NamesakeFree
  <2> PICK t : t = TargetOf(o)
    OBVIOUS
  <2>2. t \in AllDirs \ OwnDirs /\ TargetOf(o)' = t
    BY <1>1, <1>3, WorkersOnly
  <2>3. skillDirs'[t] = {} /\ \A d \in AllDirs : d # t => skillDirs'[d] = skillDirs[d]
    <3>1. skillDirs' = [skillDirs EXCEPT ![t] = {}] /\ DOMAIN skillDirs = AllDirs
      BY <1>1, <1>3 DEF SkillsTyped
    <3>2. QED
      BY <2>2, <3>1
  <2>4. ASSUME NEW d \in AllDirs \ OwnDirs, d # t PROVE FolderSound(d)'
    BY <1>1, <1>3, <2>1, <2>2, <2>3, <2>4, FolderElsewhere
  <2>5. LeftSo(o, t)'
    BY <1>3, <2>3 DEF LeftSo
  <2>6. Joins(o, t)
    BY <1>1, <1>3, <2>5, Joining
  <2>7. FolderSound(t)'
    BY <1>3, <2>1, <2>2, <2>6, JoinKnowing
  <2>8. ASSUME NEW p \in SkillOps PROVE NamesakeFree(p)'
    <3>1. CASE p = o
      <4>1. Named(ops[o].seen, OpOf[o].name) = EntriesOf(ops[o].seen, t)
        BY <1>3
      <4>2. Named(ops'[o].seen, OpOf[o].name) = EntriesOf(ops'[o].seen, t)
        BY <1>1, <4>1 DEF InHand
      <4>3. QED
        BY <2>2, <3>1, <4>2 DEF NamesakeFree
    <3>2. CASE p # o
      <4>1. ops'[p] = ops[p] /\ TargetOf(p)' = TargetOf(p)
        BY <1>1, <1>3, <3>2, WorkersOnly DEF Moves
      <4>2. QED
        BY <2>1, <4>1 DEF NamesakeFree
    <3>3. QED
      BY <3>1, <3>2
  <2>9. QED
    BY <2>4, <2>7, <2>8
<1>4. QED
  BY <1>2, <1>3, UninstallBase

\* The last who works in a folder leaves it as the list says, and who read of an entry that is gone is found out.
LEMMA Leaving ==
  ASSUME SkillsBase, NEW o \in SkillOps, NEW d, FolderSound(d), o \in Workers(d),
         EntriesOf(ops[o].seen, d) = EntriesOf(managed, d),
         Workers(d)' = Workers(d) \ {o}, \A p \in Workers(d) : p # o => ops'[p] = ops[p],
         skillDirs'[d] = skillDirs[d],
         IF OpOf[o].kind = "uninstall" THEN EntriesOf(managed', d) = {}
         ELSE \E e : e.by = o /\ e.url = Url(o) /\ EntriesOf(managed', d) = {e}
  PROVE  FolderSound(d)'
<1>1. ~StaleAt(o, d)
  BY DEF StaleAt
<1>2. \A p \in Workers(d) : p # o => p \in Workers(d)' /\ ops'[p] = ops[p] /\ EntriesOf(ops'[p].seen, d) = EntriesOf(ops[p].seen, d)
  OBVIOUS
<1>3. ASSUME NEW p \in Workers(d), p # o, EntriesOf(ops[p].seen, d) # {} PROVE StaleAt(p, d)'
  <2>1. p \in SkillOps /\ ops[p].at = "recording"
    BY DEF Workers
  <2>2. ops[p].seen \in Seq(SkillEntries) /\ ListSound(ops[p].seen, OpsDone)
    BY <2>1 DEF SkillsBase, RequestSound, ListsSound
  <2>3. \A e \in EntriesOf(ops[p].seen, d) : e.by \in OpsDone
    BY <2>2, ListMembers DEF EntriesOf
  <2>4. o \notin OpsDone
    BY DEF OpsDone, Workers
  <2>5. ~(EntriesOf(ops[p].seen, d) \subseteq EntriesOf(managed', d))
    BY <1>3, <2>3, <2>4
  <2>6. QED
    BY <1>2, <1>3, <2>5 DEF StaleAt
<1>4. \A p \in Workers(d) : p # o /\ StaleAt(p, d) => EntriesOf(ops[p].seen, d) # {}
  BY DEF StaleAt
<1>5. CASE \E p \in Workers(d) : StaleAt(p, d)
  BY <1>1, <1>2, <1>3, <1>4, <1>5 DEF FolderSound
<1>6. CASE \E p, q \in Workers(d) : p # q /\ EntriesOf(ops[p].seen, d) # {} /\ EntriesOf(ops[q].seen, d) # {}
  BY <1>2, <1>3, <1>6 DEF FolderSound
<1>7. CASE Workers(d) = {o} /\ LeftSo(o, d)
  <2>1. Workers(d)' = {}
    BY <1>7
  <2>2. Agrees(d)'
    <3>1. CASE OpOf[o].kind = "uninstall"
      <4>1. EntriesOf(managed', d) = {} /\ skillDirs'[d] = {}
        BY <1>7, <3>1 DEF LeftSo
      <4>2. QED
        BY <4>1 DEF Agrees, ManagedDir, EntriesOf
    <3>2. CASE OpOf[o].kind # "uninstall"
      <4>1. PICK e : e.by = o /\ e.url = Url(o) /\ EntriesOf(managed', d) = {e}
        BY <3>2
      <4>2. Url(o) \in skillDirs'[d]
        BY <1>7, <3>2 DEF LeftSo
      <4>3. QED
        BY <4>1, <4>2 DEF Agrees, ManagedDir, EntriesOf
    <3>3. QED
      BY <3>1, <3>2
  <2>3. QED
    BY <2>1, <2>2 DEF FolderSound
<1>8. ASSUME NEW q \in Workers(d), NEW p \in Workers(d), q # p, Workers(d) = {q, p}, OpOf[p].kind = "uninstall",
             EntriesOf(ops[q].seen, d) = {}, LeftSo(q, d)
      PROVE  FolderSound(d)'
  <2>1. EntriesOf(ops[p].seen, d) # {}
    BY <1>8, UninstallerKnows
  <2>2. CASE p # o
    BY <1>2, <1>3, <2>1, <2>2 DEF FolderSound
  <2>3. CASE p = o
    <3>1. EntriesOf(managed', d) = {}
      BY <1>8, <2>3
    <3>2. Workers(d)' = {q} /\ q # o
      BY <1>8, <2>3
    <3>3. LeftSo(q, d)'
      BY <1>2, <1>8, <3>2 DEF LeftSo
    <3>4. QED
      BY <3>1, <3>2, <3>3 DEF FolderSound
  <2>4. QED
    BY <2>2, <2>3
<1>9. \A p \in Workers(d) : Workers(d) = {p} => p = o
  OBVIOUS
<1>10. QED
  BY <1>5, <1>6, <1>7, <1>8, <1>9 DEF FolderSound

LEMMA FoldersRecord ==
  ASSUME SkillsBase, FoldersSound, NEW o \in SkillOps, setInstalled(o)
  PROVE  FoldersSound'
<1>1. /\ SkillsTyped /\ Moves(o, "done") /\ ops[o].at = "recording" /\ UNCHANGED skillDirs /\ mishaps \subseteq mishaps'
      /\ ops[o].seen = managed \/ "skill lost" \in mishaps'
      /\ IF OpOf[o].kind = "uninstall"
         THEN ToSet(managed') = ToSet(ops[o].seen) \ Named(ops[o].seen, OpOf[o].name)
         ELSE \E e \in SkillEntries :
                /\ e.dir = TargetOf(o) /\ e.url = Url(o) /\ e.by = o
                /\ ToSet(managed') = {f \in ToSet(ops[o].seen) : f.dir # TargetOf(o)} \cup {e}
  BY RecordBase DEF SkillsBase
<1> SUFFICES ASSUME mishaps' \cap {"skill lost", "namesakes", "death"} = {}
             PROVE  (\A d \in AllDirs \ OwnDirs : FolderSound(d)') /\ (\A p \in SkillOps : NamesakeFree(p)')
  BY DEF FoldersSound, NamesakeFree
<1>2. mishaps \cap {"skill lost", "namesakes", "death"} = {} /\ ops[o].seen = managed
  BY <1>1
<1>3. (\A d \in AllDirs \ OwnDirs : FolderSound(d)) /\ (\A p \in SkillOps : NamesakeFree(p))
  BY <1>2 DEF FoldersSound, NamesakeFree
<1> PICK t : t = TargetOf(o)
  OBVIOUS
<1>4. \A d : d # t => EntriesOf(managed', d) = EntriesOf(managed, d)
  <2>1. CASE OpOf[o].kind = "uninstall"
    <3>1. ToSet(managed') = ToSet(managed) \ EntriesOf(managed, t)
      BY <1>1, <1>2, <1>3, <2>1 DEF NamesakeFree
    <3>2. QED
      BY <3>1 DEF EntriesOf
  <2>2. CASE OpOf[o].kind # "uninstall"
    <3>1. PICK e : e.dir = t /\ ToSet(managed') = {f \in ToSet(managed) : f.dir # t} \cup {e}
      BY <1>1, <1>2, <2>2
    <3>2. QED
      BY <3>1 DEF EntriesOf
  <2>3. QED
    BY <2>1, <2>2
<1>5. IF OpOf[o].kind = "uninstall" THEN EntriesOf(managed', t) = {}
      ELSE \E e : e.by = o /\ e.url = Url(o) /\ EntriesOf(managed', t) = {e}
  <2>1. CASE OpOf[o].kind = "uninstall"
    <3>1. ToSet(managed') = ToSet(managed) \ EntriesOf(managed, t)
      BY <1>1, <1>2, <1>3, <2>1 DEF NamesakeFree
    <3>2. EntriesOf(managed', t) = {}
      BY <3>1 DEF EntriesOf
    <3>3. QED
      BY <2>1, <3>2
  <2>2. CASE OpOf[o].kind # "uninstall"
    <3>1. PICK e : e.dir = t /\ e.url = Url(o) /\ e.by = o /\ ToSet(managed') = {f \in ToSet(managed) : f.dir # t} \cup {e}
      BY <1>1, <1>2, <2>2
    <3>2. EntriesOf(managed', t) = {e}
      BY <3>1 DEF EntriesOf
    <3>3. QED
      BY <2>2, <3>1, <3>2
  <2>3. QED
    BY <2>1, <2>2
<1>6. SkillsTyped /\ Moves(o, "done") /\ ops[o].at = "recording" /\ skillDirs' = skillDirs
  BY <1>1
<1>7. ASSUME NEW d \in AllDirs \ OwnDirs, d # t PROVE FolderSound(d)'
  <2>1. FolderSound(d) /\ EntriesOf(managed', d) = EntriesOf(managed, d) /\ skillDirs'[d] = skillDirs[d]
    BY <1>3, <1>4, <1>6, <1>7
  <2>2. "done" # "recording" /\ TargetOf(o) # d
    BY <1>7
  <2>3. QED
    BY <1>6, <2>1, <2>2, FolderElsewhere
<1>8. ASSUME t \in AllDirs \ OwnDirs PROVE FolderSound(t)'
  <2>1. /\ o \in Workers(t)' <=> "done" = "recording" /\ TargetOf(o)' = t
        /\ o \in Workers(t) <=> ops[o].at = "recording" /\ TargetOf(o) = t
        /\ Workers(t)' \ {o} = Workers(t) \ {o} /\ Workers(t) \subseteq SkillOps
    BY <1>6, WorkersOnly, Zenon
  <2>2. o \in Workers(t) /\ o \notin Workers(t)'
    BY <1>6, <2>1
  <2>3. Workers(t)' = Workers(t) \ {o}
    <3> PICK before : before = Workers(t)
      OBVIOUS
    <3> PICK after : after = Workers(t)'
      OBVIOUS
    <3>1. after \ {o} = before \ {o} /\ o \notin after
      BY <2>1, <2>2
    <3>2. after = before \ {o}
      BY <3>1
    <3>3. QED
      BY <3>2
  <2>4. \A p \in Workers(t) : p # o => ops'[p] = ops[p]
    BY <1>1, <2>1 DEF Moves
  <2>5. EntriesOf(ops[o].seen, t) = EntriesOf(managed, t)
    BY <1>2
  <2>6. FolderSound(t) /\ skillDirs'[t] = skillDirs[t]
    BY <1>3, <1>6, <1>8
  <2>7. QED
    BY <1>5, <2>2, <2>3, <2>4, <2>5, <2>6, Leaving
<1>9. ASSUME NEW p \in SkillOps PROVE NamesakeFree(p)'
  <2>1. CASE p = o
    BY <1>1, <2>1 DEF NamesakeFree, Moves
  <2>2. CASE p # o
    <3>1. ops'[p] = ops[p] /\ TargetOf(p)' = TargetOf(p)
      BY <1>1, <2>2, WorkersOnly DEF Moves
    <3>2. QED
      BY <1>3, <3>1 DEF NamesakeFree
  <2>3. QED
    BY <2>1, <2>2
<1>10. QED
  BY <1>7, <1>8, <1>9


-----------------------------------------------------------------------------
(* The checkouts and the list of marketplaces *)

LEMMA FillersMove ==
  ASSUME SkillsTyped, NEW o \in SkillOps, NEW to, Moves(o, to), NEW u
  PROVE  /\ \A p \in SkillOps : p # o => (p \in FillersOf(u)' <=> p \in FillersOf(u)) /\ ops'[p].at = ops[p].at
         /\ o \in FillersOf(u)' <=> to \notin {"unasked", "idle", "done"} /\ Url(o) = u /\ OpOf[o].kind \in Fills
         /\ o \in FillersOf(u) <=> ops[o].at \notin {"unasked", "idle", "done"} /\ Url(o) = u /\ OpOf[o].kind \in Fills
         /\ FillersOf(u) \subseteq SkillOps /\ FillersOf(u)' \subseteq SkillOps
  BY DEF Moves, FillersOf, OpsRunning, Url

\* A request that is none of a checkout's leaves it as it was.
LEMMA CheckoutElsewhere ==
  ASSUME SkillsTyped, NEW o \in SkillOps, NEW to, Moves(o, to), NEW u, Url(o) # u \/ OpOf[o].kind \notin Fills,
         clones'[u] = clones[u], u \in markets' <=> u \in markets, CheckoutSound(u)
  PROVE  CheckoutSound(u)'
<1>1. o \notin FillersOf(u) /\ o \notin FillersOf(u)' /\ FillersOf(u) \subseteq SkillOps /\ FillersOf(u)' \subseteq SkillOps
  BY FillersMove
<1>2. \A p \in SkillOps : p # o => (p \in FillersOf(u)' <=> p \in FillersOf(u)) /\ ops'[p].at = ops[p].at
  BY FillersMove
<1>3. \A p : (p \in FillersOf(u)' <=> p \in FillersOf(u)) /\ (p \in FillersOf(u) => ops'[p].at = ops[p].at)
  BY <1>1, <1>2
<1>4. QED
  BY <1>3 DEF CheckoutSound

\* Where a request is alone at its checkout, what it leaves is all there is to say.
LEMMA CheckoutAlone ==
  ASSUME NEW o \in SkillOps, NEW to, Moves(o, to), NEW u, FillersOf(u)' \subseteq {o},
         to = "cloning" => clones'[u] = BusyWith(o) /\ o \in FillersOf(u)',
         to = "listing" \/ (to = "listed" /\ OpOf[o].kind # "remove") => clones'[u].st = "ready",
         to = "unclone" => u \notin markets',
         to # "cloning" => clones'[u].st # "busy" /\ (u \in markets' => clones'[u].st = "ready")
  PROVE  CheckoutSound(u)'
<1>1. ops'[o].at = to
  BY DEF Moves
<1>2. \A p \in FillersOf(u)' : p = o
  OBVIOUS
<1>3. (\A p \in FillersOf(u)' : ops'[p].at # "cloning") => to # "cloning"
  BY <1>1
<1>4. QED
  BY <1>1, <1>2, <1>3 DEF CheckoutSound

\* Who comes when nobody is there, or was there, is alone.
LEMMA AloneThere ==
  ASSUME SkillsTyped, NEW o \in SkillOps, NEW to, Moves(o, to), CheckoutSound(Url(o)), OpOf[o].kind \in Fills,
         ops[o].at \in {"unasked", "idle", "done"} => ~Raced(o)
  PROVE  /\ FillersOf(Url(o))' \subseteq {o} /\ FillersOf(Url(o)) \subseteq {o}
         /\ ops[o].at \in {"unasked", "idle", "done"} => FillersOf(Url(o)) = {}
<1> PICK u : u = Url(o)
  OBVIOUS
<1>1. ops[o].at \in {"unasked", "idle", "done"} => FillersOf(u) = {}
  BY DEF Raced, FillersOf, Fills
<1>2. ops[o].at \notin {"unasked", "idle", "done"} => o \in FillersOf(u)
  BY FillersMove
<1>3. FillersOf(u) \subseteq {o}
  BY <1>1, <1>2 DEF CheckoutSound
<1>4. FillersOf(u)' \subseteq {o}
  BY <1>3, FillersMove
<1>5. QED
  BY <1>1, <1>3, <1>4

LEMMA CheckoutsStart == SkillsInit => CheckoutsSound
<1> SUFFICES ASSUME SkillsInit PROVE \A u \in DOMAIN Offers : CheckoutSound(u)
  BY DEF CheckoutsSound
<1>1. \A o \in SkillOps : ops[o].at \in {"idle", "unasked"}
  BY DEF SkillsInit
<1>2. \A u \in DOMAIN Offers : FillersOf(u) = {}
  BY <1>1 DEF FillersOf, OpsRunning
<1>3. markets = {} /\ \A u \in DOMAIN Offers : clones[u] = NoFolder /\ NoFolder.st # "busy"
  BY DEF SkillsInit, NoFolder
<1>4. QED
  BY <1>2, <1>3 DEF CheckoutSound

\* Nobody else is at a checkout that a request fills, refreshes or removes, or the two would have raced.
LEMMA CheckoutsFilled ==
  ASSUME SkillsBase, CheckoutsSound, NEW o \in SkillOps,
         cloneOrRefresh(o) \/ PullEnds(o) \/ CloneEnds(o) \/ getMarketplaces(o) \/ setMarketplaces(o) \/ removeMarketplace(o)
  PROVE  CheckoutsSound'
<1> SUFFICES ASSUME mishaps' \cap {"offline", "raced", "market lost", "death"} = {}
             PROVE  \A u \in DOMAIN Offers : CheckoutSound(u)'
  BY DEF CheckoutsSound
<1>1. PICK to \in SkillPlaces : Moves(o, to)
  BY FetchBase
<1>2. SkillsTyped /\ RequestSound(o) /\ mishaps \subseteq mishaps'
  BY FetchBase DEF SkillsBase
<1>3. \A u \in DOMAIN Offers : CheckoutSound(u)
  BY <1>2 DEF CheckoutsSound
<1>4. OpOf[o].kind \in Fills
  BY <1>2 DEF cloneOrRefresh, PullEnds, CloneEnds, getMarketplaces, setMarketplaces, removeMarketplace, RequestSound, Fills
<1>5. \A u \in DOMAIN Offers : u # Url(o) => clones'[u] = clones[u]
  BY <1>2 DEF cloneOrRefresh, PullEnds, CloneEnds, getMarketplaces, setMarketplaces, removeMarketplace, SkillsTyped
<1>6. \A u \in DOMAIN Offers : u # Url(o) => (u \in markets' <=> u \in markets)
  BY DEF cloneOrRefresh, PullEnds, CloneEnds, getMarketplaces, setMarketplaces, removeMarketplace, Mishap
<1>7. ASSUME NEW u \in DOMAIN Offers, u # Url(o) PROVE CheckoutSound(u)'
  BY <1>1, <1>2, <1>3, <1>5, <1>6, <1>7, CheckoutElsewhere
<1>8. ASSUME Url(o) \in DOMAIN Offers PROVE CheckoutSound(Url(o))'
  <2> PICK u : u = Url(o)
    OBVIOUS
  <2>1. u \in DOMAIN Offers /\ CheckoutSound(u) /\ clones[u] \in CloneStates
    BY <1>2, <1>3, <1>8 DEF SkillsTyped
  <2>2. ops[o].at \in {"unasked", "idle", "done"} => ~Raced(o)
    <3>1. ASSUME NEW cond, Mishap(cond, "raced") PROVE ~cond
      BY <3>1 DEF Mishap
    <3>2. cloneOrRefresh(o) => ~Raced(o)
      BY <3>1 DEF cloneOrRefresh
    <3>3. getMarketplaces(o) => ops[o].at # "idle" \/ ~Raced(o)
      BY <3>1 DEF getMarketplaces
    <3>4. QED
      BY <3>2, <3>3 DEF PullEnds, CloneEnds, getMarketplaces, Comes, setMarketplaces, removeMarketplace
  <2>3. /\ FillersOf(u)' \subseteq {o} /\ FillersOf(u) \subseteq {o}
        /\ ops[o].at \in {"unasked", "idle", "done"} => FillersOf(u) = {}
    BY <1>1, <1>2, <1>4, <2>1, <2>2, AloneThere
  <2>4. /\ o \in FillersOf(u)' <=> to \notin {"unasked", "idle", "done"}
        /\ o \in FillersOf(u) <=> ops[o].at \notin {"unasked", "idle", "done"}
    BY <1>1, <1>2, <1>4, FillersMove
  <2>5. ops[o].at # "cloning" => clones[u].st # "busy" /\ (u \in markets => clones[u].st = "ready")
    BY <2>1, <2>3 DEF CheckoutSound
  <2>6. ops'[o].at = to /\ DOMAIN clones = DOMAIN Offers /\ ops \in [SkillOps -> SkillStates]
    BY <1>1, <1>2 DEF Moves, SkillsTyped
  <2>7. BusyWith(o).st = "busy" /\ NoFolder.st = "none"
    BY DEF BusyWith, NoFolder
  <2>8. \A at : GoOn(o, at) => to = at
    BY <2>6 DEF GoOn, SkillStates
  <2>9. CASE cloneOrRefresh(o)
    <3>1. ops[o].at = "idle"
      BY <2>9 DEF cloneOrRefresh, Comes
    <3>2. \/ to \in {"done", "pulling"} /\ clones' = clones
          \/ to = "cloning" /\ clones' = [clones EXCEPT ![u] = IF @.st = "none" THEN BusyWith(o) ELSE @]
             /\ clones[u].st \in {"none", "busy"}
      BY <2>8, <2>9 DEF cloneOrRefresh
    <3>3. to = "cloning" => clones'[u] = BusyWith(o)
      BY <2>1, <2>5, <2>6, <3>1, <3>2
    <3>4. markets' = markets
      BY <2>9 DEF cloneOrRefresh
    <3>5. QED
      BY <1>1, <2>3, <2>4, <2>5, <3>1, <3>2, <3>3, <3>4, CheckoutAlone
  <2>10. CASE PullEnds(o)
    <3>1. ops[o].at = "pulling" /\ markets' = markets
      BY <2>10 DEF PullEnds
    <3>2. \/ to = "listing" /\ clones' = clones /\ clones[u].st = "ready"
          \/ to = "cloning" /\ clones' = [clones EXCEPT ![u] = BusyWith(o)]
      BY <2>8, <2>10 DEF PullEnds
    <3>3. to = "cloning" => clones'[u] = BusyWith(o)
      BY <2>1, <2>6, <3>2
    <3>4. QED
      BY <1>1, <2>3, <2>4, <2>5, <3>1, <3>2, <3>3, CheckoutAlone
  <2>11. CASE CloneEnds(o)
    <3>1. ops[o].at = "cloning" /\ markets' = markets
      BY <2>11 DEF CloneEnds
    <3>2. clones[u] = BusyWith(o)
      BY <2>1, <2>4, <3>1 DEF CheckoutSound
    <3>3. \/ to = "listing" /\ clones' = [clones EXCEPT ![u] = [st |-> "ready", by |-> "nobody"]]
          \/ to = "done" /\ Mishap(u \in markets, "offline") /\ clones' = [clones EXCEPT ![u] = NoFolder]
      BY <2>8, <2>11, <3>2 DEF CloneEnds
    <3>4. to = "listing" => clones'[u].st = "ready"
      <4> DEFINE ready == [st |-> "ready", by |-> "nobody"]
      <4>1. ready.st = "ready"
        OBVIOUS
      <4>2. to = "listing" => clones' = [clones EXCEPT ![u] = ready]
        BY <3>3
      <4> HIDE DEF ready
      <4>3. to = "listing" => clones'[u] = ready
        BY <2>1, <2>6, <4>2
      <4>4. QED
        BY <4>1, <4>3
    <3>5. to = "done" => clones'[u] = NoFolder /\ u \notin markets
      BY <2>1, <2>6, <3>3 DEF Mishap
    <3>6. to \in {"listing", "done"}
      BY <3>3
    <3>7. QED
      BY <1>1, <2>3, <2>7, <3>1, <3>4, <3>5, <3>6, CheckoutAlone
  <2>12. CASE getMarketplaces(o)
    <3>1. to = "listed" /\ markets' = markets /\ clones' = clones /\ ops[o].at \in {"listing", "idle"}
          /\ (ops[o].at = "idle" => OpOf[o].kind = "remove")
      BY <2>6, <2>12 DEF getMarketplaces, Comes, SkillStates
    <3>2. ops[o].at = "listing" => clones[u].st = "ready"
      BY <2>1, <2>4 DEF CheckoutSound
    <3>3. QED
      BY <1>1, <2>3, <2>5, <3>1, <3>2, CheckoutAlone
  <2>13. CASE setMarketplaces(o)
    <3>1. ops[o].at = "listed" /\ clones' = clones /\ ops[o].seen = markets
      BY <2>13 DEF setMarketplaces, Mishap
    <3>2. \/ OpOf[o].kind = "remove" /\ markets' = markets \ {u} /\ to = "unclone"
          \/ OpOf[o].kind # "remove" /\ markets' = markets \cup {u} /\ to \in {"finding", "done"}
      BY <2>8, <2>13, <3>1 DEF setMarketplaces, Past
    <3>3. OpOf[o].kind # "remove" => clones[u].st = "ready"
      BY <2>1, <2>4, <3>1 DEF CheckoutSound
    <3>4. QED
      BY <1>1, <2>3, <2>5, <3>1, <3>2, <3>3, CheckoutAlone
  <2>14. CASE removeMarketplace(o)
    <3>1. ops[o].at = "unclone" /\ to = "done" /\ markets' = markets /\ clones' = [clones EXCEPT ![u] = NoFolder]
      BY <2>8, <2>14 DEF removeMarketplace
    <3>2. clones'[u] = NoFolder /\ u \notin markets
      BY <2>1, <2>4, <2>6, <3>1 DEF CheckoutSound
    <3>3. to \notin {"cloning", "listing", "listed", "unclone"} /\ u \notin markets' /\ clones'[u].st = "none"
      BY <2>7, <3>1, <3>2
    <3>4. clones'[u].st # "busy" /\ (u \in markets' => clones'[u].st = "ready")
      BY <3>3
    <3>5. QED
      BY <1>1, <2>3, <3>3, <3>4, CheckoutAlone
  <2>15. QED
    BY <2>9, <2>10, <2>11, <2>12, <2>13, <2>14
<1>9. QED
  BY <1>7, <1>8

\* Installing and uninstalling touch neither list nor checkout of a marketplace.
LEMMA CheckoutsUntouched ==
  ASSUME SkillsBase, CheckoutsSound, NEW o \in SkillOps, NEW to, Moves(o, to), UNCHANGED <<clones, markets>>,
         mishaps \subseteq mishaps', to \notin {"cloning", "listing", "listed", "unclone"}, ops[o].at # "cloning",
         OpOf[o].kind \in Fills => ops[o].at \notin {"unasked", "idle", "done"}
  PROVE  CheckoutsSound'
<1> SUFFICES ASSUME mishaps' \cap {"offline", "raced", "market lost", "death"} = {}, NEW u \in DOMAIN Offers
             PROVE  CheckoutSound(u)'
  BY DEF CheckoutsSound
<1>1. CheckoutSound(u) /\ SkillsTyped
  BY DEF CheckoutsSound, SkillsBase
<1>2. clones'[u] = clones[u] /\ markets' = markets
  OBVIOUS
<1>3. CASE Url(o) # u \/ OpOf[o].kind \notin Fills
  BY <1>1, <1>2, <1>3, CheckoutElsewhere
<1>4. CASE Url(o) = u /\ OpOf[o].kind \in Fills
  <2>1. FillersOf(u)' \subseteq {o} /\ FillersOf(u) \subseteq {o}
    BY <1>1, <1>4, AloneThere
  <2>2. clones[u].st # "busy" /\ (u \in markets => clones[u].st = "ready")
    BY <1>1, <2>1 DEF CheckoutSound
  <2>3. QED
    BY <1>2, <2>1, <2>2, CheckoutAlone
<1>5. QED
  BY <1>3, <1>4


-----------------------------------------------------------------------------
(* What a stage is given, and what is read *)

LEMMA SeqOfIsSeq ==
  ASSUME NEW S, NEW m \in Nat, NEW s \in SeqOf(S, m)
  PROVE  s \in Seq(S)
<1>1. PICK n \in 0..m : s \in [1..n -> S]
  BY DEF SeqOf
<1>2. QED
  BY <1>1

\* A sequence that repeats nothing is as long as it has members.
LEMMA SizeOfDistinct ==
  ASSUME NEW T, NEW s \in Seq(T), IsInjective(s)
  PROVE  IsFiniteSet(ToSet(s)) /\ Cardinality(ToSet(s)) = Len(s)
<1>1. Len(s) \in Nat /\ DOMAIN s = 1..Len(s) /\ 1 \in Int /\ Len(s) \in Int
  OBVIOUS
<1>2. IsFiniteSet(1..Len(s)) /\ Cardinality(1..Len(s)) = Len(s)
  BY <1>1, FS_Interval
<1>3. s \in [1..Len(s) -> ToSet(s)] /\ \A t \in ToSet(s) : \E i \in 1..Len(s) : s[i] = t
  BY <1>1 DEF ToSet
<1>4. s \in Surjection(1..Len(s), ToSet(s)) /\ s \in Injection(1..Len(s), ToSet(s))
  BY <1>3 DEF Surjection, Injection
<1>5. QED
  BY <1>2, <1>4, FS_Surjection

LEMMA MembersFinite ==
  ASSUME NEW T, NEW s \in Seq(T)
  PROVE  IsFiniteSet(ToSet(s))
<1>1. Len(s) \in Nat /\ DOMAIN s = 1..Len(s) /\ 1 \in Int /\ Len(s) \in Int
  OBVIOUS
<1>2. IsFiniteSet(1..Len(s))
  BY <1>1, FS_Interval
<1>3. s \in [1..Len(s) -> ToSet(s)] /\ \A t \in ToSet(s) : \E i \in 1..Len(s) : s[i] = t
  BY <1>1 DEF ToSet
<1>4. s \in Surjection(1..Len(s), ToSet(s))
  BY <1>3 DEF Surjection
<1>5. QED
  BY <1>2, <1>4, FS_Surjection

\* The distinct ones of the first n names, up to the cap: all of them while there is room.
ChosenOf(out, names, n, T) ==
  /\ out \in Seq(T) /\ IsInjective(out) /\ Len(out) <= SkillCap
  /\ ToSet(out) \subseteq {names[i] : i \in 1..n}
  /\ Len(out) < SkillCap => ToSet(out) = {names[i] : i \in 1..n}

LEMMA ChosenGrows ==
  ASSUME NEW T, NEW names \in Seq(T), NEW n \in 1..Len(names), NEW out, ChosenOf(out, names, n - 1, T), SkillCap \in Nat
  PROVE  ChosenOf(IF names[n] \notin ToSet(out) /\ Len(out) < SkillCap THEN Append(out, names[n]) ELSE out, names, n, T)
<1>1. out \in Seq(T) /\ Len(out) \in Nat /\ DOMAIN out = 1..Len(out) /\ names[n] \in T /\ n \in Nat /\ n >= 1
  BY DEF ChosenOf
<1>2. {names[i] : i \in 1..n} = {names[i] : i \in 1..(n - 1)} \cup {names[n]}
  <2>1. \A i \in 1..n : i = n \/ i \in 1..(n - 1)
    BY <1>1
  <2>2. \A i \in 1..(n - 1) : i \in 1..n
    BY <1>1
  <2>3. n \in 1..n
    BY <1>1
  <2>4. QED
    BY <2>1, <2>2, <2>3
<1>3. CASE ~(names[n] \notin ToSet(out) /\ Len(out) < SkillCap)
  <2>1. Len(out) < SkillCap => names[n] \in ToSet(out)
    BY <1>3
  <2>2. ChosenOf(out, names, n, T)
    BY <1>2, <2>1 DEF ChosenOf
  <2>3. QED
    BY <1>3, <2>2
<1>4. CASE names[n] \notin ToSet(out) /\ Len(out) < SkillCap
  <2> DEFINE more == Append(out, names[n])
             M == Len(out) + 1
  <2>1. more \in Seq(T) /\ Len(more) = M /\ DOMAIN more = 1..M /\ more[M] = names[n] /\ \A i \in 1..Len(out) : more[i] = out[i]
    BY <1>1
  <2>2. (\A i \in 1..M : i = M \/ i \in 1..Len(out)) /\ M \in 1..M /\ \A i \in 1..Len(out) : i \in 1..M
    BY <1>1
  <2>3. M <= SkillCap
    BY <1>1, <1>4
  <2> HIDE DEF more, M
  <2>4. \A i \in 1..Len(out) : out[i] \in ToSet(out)
    BY <1>1 DEF ToSet
  <2>5. ToSet(more) = ToSet(out) \cup {names[n]}
    BY <1>1, <2>1, <2>2 DEF ToSet
  <2>6. \A i, j \in 1..M : more[i] = more[j] => i = j
    BY <1>1, <1>4, <2>1, <2>2, <2>4 DEF ChosenOf, IsInjective
  <2>7. IsInjective(more)
    BY <2>1, <2>6 DEF IsInjective
  <2>8. ToSet(out) = {names[i] : i \in 1..(n - 1)}
    BY <1>4 DEF ChosenOf
  <2>9. ChosenOf(more, names, n, T)
    BY <1>2, <2>1, <2>3, <2>5, <2>7, <2>8 DEF ChosenOf
  <2>10. QED
    BY <1>4, <2>9 DEF more
<1>5. QED
  BY <1>3, <1>4

LEMMA ChosenAll ==
  ASSUME NEW T, NEW names \in Seq(T)
  PROVE  ChosenOf(dedupeCap(names), names, Len(names), T)
<1> DEFINE N == Len(names)
           step(q, n) == IF names[n] \notin ToSet(q) /\ Len(q) < SkillCap THEN Append(q, names[n]) ELSE q
           next == [x \in Seq(T) \X (1..N) |-> step(x[1], x[2])]
           Is(g) == g = [n \in 0..N |-> IF n = 0 THEN <<>>
                           ELSE IF names[n] \notin ToSet(g[n - 1]) /\ Len(g[n - 1]) < SkillCap THEN Append(g[n - 1], names[n])
                                ELSE g[n - 1]]
           out == CHOOSE g : Is(g)
<1>1. N \in Nat /\ (\A n \in 1..N : names[n] \in T) /\ SkillCap \in Nat
  BY SkillsAssumption DEF SkillsAssumption
<1>2. next \in [Seq(T) \X (1..N) -> Seq(T)]
  BY <1>1
<1>3. \A q \in Seq(T), n \in 1..N : next[<<q, n>>] = step(q, n)
  <2> SUFFICES ASSUME NEW q \in Seq(T), NEW n \in 1..N PROVE next[<<q, n>>] = step(q, n)
    OBVIOUS
  <2>1. <<q, n>> \in Seq(T) \X (1..N) /\ <<q, n>>[1] = q /\ <<q, n>>[2] = n
    OBVIOUS
  <2> HIDE DEF step
  <2>2. QED
    BY <2>1
<1>4. <<>> \in Seq(T)
  OBVIOUS
<1>5. PICK f : Walk(f, N, Seq(T), <<>>, next)
  <2> HIDE DEF next, N
  <2>1. QED
    BY <1>1, <1>2, <1>4, WalkThere
<1> HIDE DEF next
<1>6. Is(f)
  <2>1. \A n \in 1..N : n - 1 \in 0..N
    BY <1>1
  <2>2. \A n \in 1..N : f[n] = step(f[n - 1], n)
    <3> HIDE DEF step
    <3>1. QED
      BY <1>3, <1>5, <2>1 DEF Walk
  <2>3. \A n \in 0..N : n = 0 \/ n \in 1..N
    BY <1>1
  <2>4. \A n \in 0..N : f[n] = IF n = 0 THEN <<>> ELSE step(f[n - 1], n)
    <3> HIDE DEF step
    <3>1. QED
      BY <1>5, <2>2, <2>3 DEF Walk
  <2>5. f = [n \in 0..N |-> f[n]]
    BY <1>5 DEF Walk
  <2>6. QED
    BY <2>4, <2>5
<1>7. dedupeCap(names) = out[N] /\ Is(out)
  <2>1. dedupeCap(names) = out[N]
    BY DEF dedupeCap
  <2> HIDE DEF Is
  <2>2. Is(out)
    BY <1>6
  <2>3. QED
    BY <2>1, <2>2
<1>8. \A n \in 0..N : out[n] = IF n = 0 THEN <<>> ELSE step(out[n - 1], n)
  <2> HIDE DEF out
  <2>1. QED
    BY <1>7
<1> HIDE DEF out
<1> DEFINE G == {n \in 0..N : ChosenOf(out[n], names, n, T)}
<1>9. 0 \in G
  <2>1. 0 \in 0..N /\ out[0] = <<>>
    BY <1>1, <1>8
  <2>2. <<>> \in Seq(T) /\ Len(<<>>) = 0 /\ DOMAIN <<>> = {} /\ 1..0 = {}
    OBVIOUS
  <2>3. ChosenOf(<<>>, names, 0, T)
    BY <1>1, <2>2 DEF ChosenOf, IsInjective, ToSet
  <2>4. QED
    BY <2>1, <2>3
<1>10. ASSUME NEW n \in 1..N, n - 1 \in G PROVE n \in G
  <2>1. n \in 0..N /\ n # 0
    BY <1>1
  <2>2. out[n] = step(out[n - 1], n)
    BY <1>8, <2>1
  <2>3. ChosenOf(out[n - 1], names, n - 1, T)
    BY <1>10
  <2>4. ChosenOf(step(out[n - 1], n), names, n, T)
    BY <1>1, <2>3, ChosenGrows
  <2>5. QED
    BY <2>1, <2>2, <2>4
<1>11. N \in G
  <2> HIDE DEF G, N
  <2>1. \A n \in 0..N : n \in G
    BY <1>1, <1>9, <1>10, UpFromZero
  <2>2. QED
    BY <2>1, <1>1
<1>12. QED
  BY <1>7, <1>11

\* A plan is given no more than the cap, each once, and all it wrote that are known if they fit.
LEMMA PlanRight ==
  ASSUME ChooseSkills
  PROVE  SkillsRead'
<1>1. PICK known \in SUBSET SkillNames, plan \in SeqOf(SkillNames, WrittenMax) :
        worked' = [about |-> "plan", known |-> known, written |-> plan, chosen |-> parsePlanSkills(plan, known)]
  BY DEF ChooseSkills
<1>2. plan \in Seq(SkillNames) /\ SkillCap \in Nat
  BY SeqOfIsSeq, SkillsAssumption DEF SkillsAssumption
<1> PICK names : names = OnlyIn(plan, known)
  OBVIOUS
<1> PICK chosen : chosen = parsePlanSkills(plan, known)
  OBVIOUS
<1>3. names \in Seq(SkillNames) /\ ToSet(names) = ToSet(plan) \cap known
  BY <1>2, OnlyInKeeps
<1>4. ChosenOf(chosen, names, Len(names), SkillNames)
  BY <1>3, ChosenAll DEF parsePlanSkills
<1>5. ToSet(names) = {names[i] : i \in 1..Len(names)}
  BY <1>3 DEF ToSet
<1> DEFINE all == ToSet(plan) \cap known
<1>6. /\ chosen \in Seq(SkillNames) /\ IsInjective(chosen) /\ Len(chosen) <= SkillCap /\ ToSet(chosen) \subseteq all
      /\ Len(chosen) < SkillCap => ToSet(chosen) = all
  BY <1>3, <1>4, <1>5 DEF ChosenOf
<1>7. IsFiniteSet(all)
  BY <1>3, MembersFinite
<1>8. Cardinality(ToSet(chosen)) = Len(chosen) /\ Len(chosen) \in Nat
  BY <1>6, SizeOfDistinct
<1> HIDE DEF all
<1>9. Cardinality(all) \in Nat /\ Len(chosen) <= Cardinality(all)
  BY <1>6, <1>7, <1>8, FS_Subset, FS_CardinalityType
<1>10. Len(chosen) = IF Cardinality(all) < SkillCap THEN Cardinality(all) ELSE SkillCap
  BY <1>2, <1>6, <1>8, <1>9
<1>11. ToSet(chosen) \subseteq known
  BY <1>6 DEF all
<1>12. /\ worked'.about = "plan" /\ worked'.chosen = chosen /\ worked'.known = known /\ worked'.written = plan
  BY <1>1
<1>13. QED
  BY <1>6, <1>10, <1>11, <1>12 DEF SkillsRead, all


\* Of the first n skills of both folders, by name: each name of the project's is there, and nothing that another
\* folder has under a name of the project's.
StageRows == [name : SkillNames, from : {"project", "home"}]
TakenIn(out, nearer, n) ==
  /\ out \in Seq(StageRows)
  /\ \A i \in 1..Len(nearer) : i <= n => \E t \in ToSet(out) : t.name = nearer[i]
  /\ \A t \in ToSet(out) : t.from = "home" => t.name \notin ToSet(nearer)

LEMMA TakenInGrows ==
  ASSUME NEW nearer \in Seq(SkillNames), NEW out, NEW n \in Nat \ {0}, TakenIn(out, nearer, n - 1), NEW row \in StageRows,
         n <= Len(nearer) => row.name = nearer[n], row.from = "home" => n > Len(nearer)
  PROVE  TakenIn(IF \E t \in ToSet(out) : t.name = row.name THEN out ELSE Append(out, row), nearer, n)
<1>1. Len(nearer) \in Nat /\ out \in Seq(StageRows) /\ Len(out) \in Nat /\ DOMAIN out = 1..Len(out)
  BY DEF TakenIn
<1>2. \A i \in 1..Len(nearer) : i <= n => i <= n - 1 \/ i = n
  BY <1>1
<1>3. CASE \E t \in ToSet(out) : t.name = row.name
  <2>1. \A i \in 1..Len(nearer) : i <= n => \E t \in ToSet(out) : t.name = nearer[i]
    BY <1>1, <1>2, <1>3 DEF TakenIn
  <2>2. TakenIn(out, nearer, n)
    BY <2>1 DEF TakenIn
  <2>3. QED
    BY <1>3, <2>2
<1>4. CASE ~\E t \in ToSet(out) : t.name = row.name
  <2> DEFINE more == Append(out, row)
             M == Len(out) + 1
  <2>1. more \in Seq(StageRows) /\ Len(more) = M /\ DOMAIN more = 1..M /\ more[M] = row /\ \A i \in 1..Len(out) : more[i] = out[i]
    BY <1>1
  <2>2. (\A i \in 1..M : i = M \/ i \in 1..Len(out)) /\ M \in 1..M /\ \A i \in 1..Len(out) : i \in 1..M
    BY <1>1
  <2> HIDE DEF more, M
  <2>3. ToSet(more) = ToSet(out) \cup {row}
    BY <1>1, <2>1, <2>2 DEF ToSet
  <2>4. ASSUME row.from = "home" PROVE row.name \notin ToSet(nearer)
    <3>1. ASSUME NEW i \in 1..Len(nearer), nearer[i] = row.name PROVE FALSE
      <4>1. i <= n - 1
        BY <1>1, <2>4
      <4>2. QED
        BY <1>4, <3>1, <4>1 DEF TakenIn
    <3>2. DOMAIN nearer = 1..Len(nearer)
      OBVIOUS
    <3>3. QED
      BY <3>1, <3>2 DEF ToSet
  <2>5. \A i \in 1..Len(nearer) : i <= n => \E t \in ToSet(more) : t.name = nearer[i]
    BY <1>2, <2>3 DEF TakenIn
  <2>6. TakenIn(more, nearer, n)
    BY <2>1, <2>3, <2>4, <2>5 DEF TakenIn
  <2>7. QED
    BY <1>4, <2>6 DEF more
<1>5. QED
  BY <1>3, <1>4

LEMMA ListRight ==
  ASSUME NEW nearer \in Seq(SkillNames), NEW home \in Seq(SkillNames), NEW allow
  PROVE  /\ listSkills(nearer, home, allow) \in Seq(StageRows)
         /\ \A t \in ToSet(listSkills(nearer, home, allow)) :
              (allow = {} \/ t.name \in allow) /\ (t.from = "home" => t.name \notin ToSet(nearer))
<1> DEFINE ours == [i \in DOMAIN nearer |-> [name |-> nearer[i], from |-> "project"]]
           theirs == [i \in DOMAIN home |-> [name |-> home[i], from |-> "home"]]
           all == ours \o theirs
           N == Len(all)
           step(q, n) == IF \E t \in ToSet(q) : t.name = all[n].name THEN q ELSE Append(q, all[n])
           next == [x \in Seq(StageRows) \X (1..N) |-> step(x[1], x[2])]
           Is(g) == g = [n \in 0..N |-> IF n = 0 THEN <<>>
                           ELSE IF \E t \in ToSet(g[n - 1]) : t.name = all[n].name THEN g[n - 1] ELSE Append(g[n - 1], all[n])]
           out == CHOOSE g : Is(g)
<1>1. ours \in Seq(StageRows) /\ theirs \in Seq(StageRows) /\ Len(ours) = Len(nearer) /\ Len(nearer) \in Nat
  <2>1. DOMAIN nearer = 1..Len(nearer) /\ DOMAIN home = 1..Len(home) /\ Len(nearer) \in Nat /\ Len(home) \in Nat
    OBVIOUS
  <2>2. ours \in [1..Len(nearer) -> StageRows] /\ theirs \in [1..Len(home) -> StageRows]
    BY <2>1 DEF StageRows
  <2>3. QED
    BY <2>1, <2>2
<1>2. /\ \A n \in 1..Len(nearer) : ours[n].name = nearer[n] /\ ours[n].from = "project"
      /\ DOMAIN ours = 1..Len(nearer)
  OBVIOUS
<1> HIDE DEF ours, theirs
<1>3. all \in Seq(StageRows) /\ N \in Nat /\ (\A n \in 1..N : all[n] \in StageRows) /\ \A n \in 1..Len(nearer) : all[n] = ours[n]
  BY <1>1, <1>2
<1> HIDE DEF all
<1>4. next \in [Seq(StageRows) \X (1..N) -> Seq(StageRows)]
  BY <1>3
<1>5. \A q \in Seq(StageRows), n \in 1..N : next[<<q, n>>] = step(q, n)
  <2> SUFFICES ASSUME NEW q \in Seq(StageRows), NEW n \in 1..N PROVE next[<<q, n>>] = step(q, n)
    OBVIOUS
  <2>1. <<q, n>> \in Seq(StageRows) \X (1..N) /\ <<q, n>>[1] = q /\ <<q, n>>[2] = n
    OBVIOUS
  <2> HIDE DEF step
  <2>2. QED
    BY <2>1
<1>6. <<>> \in Seq(StageRows)
  OBVIOUS
<1>7. PICK f : Walk(f, N, Seq(StageRows), <<>>, next)
  <2> HIDE DEF next, N
  <2>1. QED
    BY <1>3, <1>4, <1>6, WalkThere
<1> HIDE DEF next
<1>8. Is(f)
  <2>1. \A n \in 1..N : n - 1 \in 0..N
    BY <1>3
  <2>2. \A n \in 1..N : f[n] = step(f[n - 1], n)
    <3> HIDE DEF step
    <3>1. QED
      BY <1>5, <1>7, <2>1 DEF Walk
  <2>3. \A n \in 0..N : n = 0 \/ n \in 1..N
    BY <1>3
  <2>4. \A n \in 0..N : f[n] = IF n = 0 THEN <<>> ELSE step(f[n - 1], n)
    <3> HIDE DEF step
    <3>1. QED
      BY <1>7, <2>2, <2>3 DEF Walk
  <2>5. f = [n \in 0..N |-> f[n]]
    BY <1>7 DEF Walk
  <2>6. QED
    BY <2>4, <2>5
<1>9. Is(out)
  <2> HIDE DEF Is
  <2>1. QED
    BY <1>8
<1>10. listSkills(nearer, home, allow) =
        IF allow = {} THEN out[N] ELSE OnlyIn(out[N], {s \in ToSet(out[N]) : s.name \in allow})
  BY DEF listSkills, all, ours, theirs
<1>11. \A n \in 0..N : out[n] = IF n = 0 THEN <<>> ELSE step(out[n - 1], n)
  <2> HIDE DEF out
  <2>1. QED
    BY <1>9
<1> HIDE DEF out
<1> DEFINE G == {n \in 0..N : TakenIn(out[n], nearer, n)}
<1>12. 0 \in G
  <2>1. 0 \in 0..N /\ out[0] = <<>> /\ ToSet(<<>>) = {} /\ <<>> \in Seq(StageRows)
    BY <1>3, <1>11 DEF ToSet
  <2>2. \A i \in 1..Len(nearer) : ~(i <= 0)
    BY <1>1
  <2>3. TakenIn(<<>>, nearer, 0)
    BY <2>1, <2>2 DEF TakenIn
  <2>4. QED
    BY <2>1, <2>3
<1>13. ASSUME NEW n \in 1..N, n - 1 \in G PROVE n \in G
  <2>1. n \in 0..N /\ n # 0 /\ n \in Nat \ {0}
    BY <1>3
  <2>2. out[n] = step(out[n - 1], n)
    BY <1>11, <2>1
  <2>3. TakenIn(out[n - 1], nearer, n - 1)
    BY <1>13
  <2>4. n <= Len(nearer) => all[n].name = nearer[n] /\ all[n].from = "project"
    BY <1>1, <1>2, <1>3, <2>1
  <2>5. all[n] \in StageRows
    BY <1>3
  <2>6. (n <= Len(nearer) => all[n].name = nearer[n]) /\ (all[n].from = "home" => n > Len(nearer))
    BY <1>1, <2>1, <2>4
  <2>7. TakenIn(step(out[n - 1], n), nearer, n)
    BY <2>1, <2>3, <2>5, <2>6, TakenInGrows
  <2>8. QED
    BY <2>1, <2>2, <2>7
<1>14. N \in G
  <2> HIDE DEF G, N
  <2>1. \A n \in 0..N : n \in G
    BY <1>3, <1>12, <1>13, UpFromZero
  <2>2. QED
    BY <2>1, <1>3
<1> PICK byName : byName = out[N]
  OBVIOUS
<1>15. byName \in Seq(StageRows) /\ \A t \in ToSet(byName) : t.from = "home" => t.name \notin ToSet(nearer)
  BY <1>14 DEF TakenIn
<1>16. CASE allow = {}
  BY <1>10, <1>15, <1>16
<1>17. CASE allow # {}
  <2> DEFINE some == {s \in ToSet(byName) : s.name \in allow}
  <2> PICK kept : kept = OnlyIn(byName, some)
    OBVIOUS
  <2>1. listSkills(nearer, home, allow) = kept
    BY <1>10, <1>17
  <2>2. kept \in Seq(StageRows) /\ ToSet(kept) = ToSet(byName) \cap some
    <3> HIDE DEF some
    <3>1. QED
      BY <1>15, OnlyInKeeps
  <2>3. QED
    BY <1>15, <2>1, <2>2
<1>18. QED
  BY <1>16, <1>17

\* A stage is given what both lists let through, the project's own before the user's.
LEMMA StageRight ==
  ASSUME StageSkills
  PROVE  SkillsRead'
<1>1. PICK nearer \in SeqOf(SkillNames, 2), home \in SeqOf(SkillNames, 2), allow \in SUBSET SkillNames,
           own \in {<<>>} \cup {<<s>> : s \in SUBSET SkillNames} :
        worked' = [about |-> "stage", project |-> nearer, home |-> home, allow |-> allow, own |-> own,
                   index |-> skillsForAgent(listSkills(nearer, home, allow), own)]
  BY DEF StageSkills
<1>2. nearer \in Seq(SkillNames) /\ home \in Seq(SkillNames)
  BY SeqOfIsSeq
<1> PICK list : list = listSkills(nearer, home, allow)
  OBVIOUS
<1> PICK index : index = skillsForAgent(list, own)
  OBVIOUS
<1>3. list \in Seq(StageRows) /\ \A t \in ToSet(list) :
        (allow = {} \/ t.name \in allow) /\ (t.from = "home" => t.name \notin ToSet(nearer))
  BY <1>2, ListRight
<1>4. \A t \in ToSet(index) : t \in ToSet(list) /\ (own = <<>> \/ t.name \in own[1])
  <2>1. CASE own = <<>>
    BY <2>1 DEF skillsForAgent
  <2>2. CASE own # <<>>
    <3> DEFINE some == {s \in ToSet(list) : s.name \in own[1]}
    <3>1. index = OnlyIn(list, some)
      BY <2>2 DEF skillsForAgent
    <3>2. ToSet(index) = ToSet(list) \cap some
      <4> HIDE DEF some
      <4>1. QED
        BY <1>3, <3>1, OnlyInKeeps
    <3>3. QED
      BY <3>2
  <2>3. QED
    BY <2>1, <2>2
<1>5. /\ worked'.about = "stage" /\ worked'.index = index /\ worked'.allow = allow /\ worked'.own = own
      /\ worked'.project = nearer
  BY <1>1
<1>6. QED
  BY <1>3, <1>4, <1>5 DEF SkillsRead

\* A search gives rows that have a source, and no more than asked for.
LEMMA SearchRight ==
  ASSUME SearchSkills
  PROVE  SkillsRead'
<1> DEFINE Rows == {"a", ""} \X {"owner/repo", "elsewhere"}
<1>1. PICK rows \in SeqOf(Rows, WrittenMax), limit \in 0..2 :
        worked' = [about |-> "search", rows |-> rows, limit |-> limit, found |-> searchRegistry(rows, limit)]
  BY DEF SearchSkills
<1> HIDE DEF Rows
<1>2. rows \in Seq(Rows)
  BY SeqOfIsSeq, SkillsAssumption DEF SkillsAssumption
<1> DEFINE sourced == {r \in ToSet(rows) : r[1] # "" /\ r[2] = "owner/repo"}
<1> PICK kept : kept = OnlyIn(rows, sourced)
  OBVIOUS
<1> PICK found : found = searchRegistry(rows, limit)
  OBVIOUS
<1>3. found = IF limit = 0 \/ Len(kept) <= limit THEN kept ELSE SubSeq(kept, 1, limit)
  <2>1. searchRegistry(rows, limit) = IF limit = 0 \/ Len(OnlyIn(rows, sourced)) <= limit THEN OnlyIn(rows, sourced)
                                      ELSE SubSeq(OnlyIn(rows, sourced), 1, limit)
    BY Zenon DEF searchRegistry
  <2>2. QED
    BY <2>1, Zenon
<1> HIDE DEF sourced
<1>4. kept \in Seq(Rows) /\ ToSet(kept) = ToSet(rows) \cap sourced
  BY <1>2, OnlyInKeeps
<1>5. Len(kept) \in Nat /\ DOMAIN kept = 1..Len(kept) /\ limit \in Nat
  BY <1>4
<1>6. (limit > 0 => Len(found) <= limit) /\ ToSet(found) \subseteq ToSet(kept)
  <2>1. CASE limit = 0 \/ Len(kept) <= limit
    BY <1>3, <1>5, <2>1
  <2>2. CASE ~(limit = 0 \/ Len(kept) <= limit)
    <3>1. 1 \in Int /\ limit \in Int /\ 1 <= limit /\ limit - 1 + 1 = limit /\ \A i \in 1..limit : i \in 1..Len(kept) /\ 1 + i - 1 = i
      BY <1>5, <2>2
    <3>2. \A i \in 1..limit : kept[i] \in Rows
      BY <1>4, <1>5, <3>1
    <3>3. /\ found \in Seq(Rows) /\ Len(found) = limit
          /\ \A i \in 1..limit : found[i] = kept[i]
      BY <1>3, <2>2, <3>1, <3>2, SubSeqProperties
    <3>4. DOMAIN found = 1..limit
      BY <3>3
    <3>5. \A i \in DOMAIN found : found[i] \in ToSet(kept)
      BY <1>5, <3>1, <3>3, <3>4 DEF ToSet
    <3>6. QED
      BY <1>5, <3>3, <3>5 DEF ToSet
  <2>3. QED
    BY <2>1, <2>2
<1>7. worked'.about = "search" /\ worked'.found = found /\ worked'.limit = limit /\ worked'.rows = rows
  BY <1>1
<1>8. \A r \in ToSet(found) : r \in ToSet(rows) /\ r[2] = "owner/repo"
  BY <1>4, <1>6 DEF sourced
<1>9. QED
  BY <1>6, <1>7, <1>8 DEF SkillsRead


LEMMA LeastIn ==
  ASSUME NEW N \in Nat, NEW S \in SUBSET (1..N), S # {}
  PROVE  \E i \in S : \A j \in 1..(i - 1) : j \notin S
<1>1. S \subseteq Nat
  OBVIOUS
<1>2. PICK i \in S : \A n \in S : i <= n
  BY <1>1, LeastOf
<1>3. \A j \in 1..(i - 1) : ~(i <= j)
  BY <1>1
<1>4. QED
  BY <1>2, <1>3

\* The lines of a field are between its key and the next.
NoKey(l) == l[1] \in {"indented", "blank"}
Within(block, i, l) ==
  \E j \in i..Len(block) : block[j] = l /\ \A k \in (i + 1)..Len(block) : ~NoKey(block[k]) => j < k

LEMMA FieldRight ==
  ASSUME NEW block \in Seq(MetaLine), NEW key, NEW i \in 1..Len(block), block[i][1] = key,
         \A j \in 1..(i - 1) : block[j][1] # key
  PROVE  \A l \in ToSet(frontmatterField(block, key)) : Within(block, i, l)
<1> DEFINE first == FirstAt(block, LAMBDA l : l[1] = key)
           rest == SubSeq(block, i + 1, Len(block))
           end == FirstAt(rest, LAMBDA l : l[1] \notin {"indented", "blank"})
           M == Len(block) - i
           own == IF \E l \in ToSet(rest) : l[1] \notin {"indented", "blank"} THEN SubSeq(rest, 1, end - 1) ELSE rest
           lines == {l \in ToSet(own) : l[1] # "blank"}
<1>1. Len(block) \in Nat /\ DOMAIN block = 1..Len(block) /\ i \in Nat /\ i >= 1 /\ i <= Len(block) /\ M \in Nat
      /\ \A n \in 1..Len(block) : block[n] \in MetaLine
  OBVIOUS
<1>2. first = i
  <2>1. first = CHOOSE n \in DOMAIN block : block[n][1] = key /\ \A j \in 1..(n - 1) : ~(block[j][1] = key)
    BY DEF FirstAt
  <2>2. \A n \in DOMAIN block : block[n][1] = key /\ (\A j \in 1..(n - 1) : ~(block[j][1] = key)) => n = i
    <3> SUFFICES ASSUME NEW n \in DOMAIN block, block[n][1] = key, \A j \in 1..(n - 1) : ~(block[j][1] = key) PROVE n = i
      OBVIOUS
    <3>1. n \in 1..Len(block) /\ ~(n \in 1..(i - 1)) /\ ~(i \in 1..(n - 1))
      BY <1>1
    <3>2. QED
      BY <1>1, <3>1
  <2>3. i \in DOMAIN block /\ block[i][1] = key /\ \A j \in 1..(i - 1) : ~(block[j][1] = key)
    BY <1>1
  <2> HIDE DEF first
  <2>4. QED
    BY <2>1, <2>2, <2>3
<1>3. \E l \in ToSet(block) : l[1] = key
  BY <1>1 DEF ToSet
<1>4. frontmatterField(block, key) = IF block[i][2] = "plain" THEN <<block[i]>> ELSE OnlyIn(own, lines)
  <2>1. frontmatterField(block, key) =
          IF ~\E l \in ToSet(block) : l[1] = key THEN <<>>
          ELSE IF block[first][2] = "plain" THEN <<block[first]>>
               ELSE LET more == SubSeq(block, first + 1, Len(block))
                        mine == IF \E l \in ToSet(more) : l[1] \notin {"indented", "blank"}
                                THEN SubSeq(more, 1, FirstAt(more, LAMBDA l : l[1] \notin {"indented", "blank"}) - 1) ELSE more IN
                    OnlyIn(mine, {l \in ToSet(mine) : l[1] # "blank"})
    BY DEF frontmatterField
  <2> HIDE DEF first
  <2>2. QED
    BY <1>2, <1>3, <2>1, Zenon
<1> HIDE DEF first
<1>5. /\ rest \in Seq(MetaLine) /\ Len(rest) = M /\ DOMAIN rest = 1..M
      /\ \A n \in 1..M : rest[n] = block[i + n] /\ i + n \in 1..Len(block)
  <2>1. i + 1 \in Int /\ Len(block) \in Int /\ \A n \in (i + 1)..Len(block) : n \in 1..Len(block)
    BY <1>1
  <2>2. \A n \in (i + 1)..Len(block) : block[n] \in MetaLine
    BY <1>1, <2>1
  <2>3. /\ rest \in Seq(MetaLine) /\ Len(rest) = IF i + 1 <= Len(block) THEN Len(block) - (i + 1) + 1 ELSE 0
        /\ \A n \in 1..(Len(block) - (i + 1) + 1) : rest[n] = block[i + 1 + n - 1]
    BY <2>1, <2>2, SubSeqProperties
  <2>4. Len(block) - (i + 1) + 1 = M /\ (\A n \in 1..M : i + 1 + n - 1 = i + n /\ i + n \in 1..Len(block))
        /\ (i + 1 <= Len(block) \/ M = 0)
    <3> PICK L : L = Len(block)
      OBVIOUS
    <3>1. L \in Nat /\ i \in Nat /\ i >= 1 /\ i <= L
      BY <1>1
    <3>2. L - (i + 1) + 1 = L - i /\ (i + 1 <= L \/ L - i = 0)
      BY <3>1
    <3>3. \A n \in 1..(L - i) : i + 1 + n - 1 = i + n /\ i + n \in 1..L
      BY <3>1
    <3>4. QED
      BY <3>2, <3>3
  <2> HIDE DEF rest, M
  <2>5. QED
    BY <2>3, <2>4
<1> HIDE DEF rest
<1>6. own \in Seq(MetaLine) /\ \A l \in ToSet(own) : \E n \in 1..M : l = rest[n] /\ \A k \in 1..M : ~NoKey(rest[k]) => n < k
  <2>1. CASE ~\E l \in ToSet(rest) : l[1] \notin {"indented", "blank"}
    <3>1. \A k \in 1..M : NoKey(rest[k])
      BY <1>5, <2>1 DEF NoKey, ToSet
    <3>2. own = rest
      BY <2>1
    <3> HIDE DEF own
    <3>3. \A l \in ToSet(own) : \E n \in 1..M : l = rest[n]
      BY <1>5, <3>2 DEF ToSet
    <3>4. QED
      BY <1>5, <3>1, <3>2, <3>3
  <2>2. CASE \E l \in ToSet(rest) : l[1] \notin {"indented", "blank"}
    <3> DEFINE keys == {k \in 1..M : ~NoKey(rest[k])}
    <3>1. keys # {}
      BY <1>5, <2>2 DEF NoKey, ToSet
    <3>2. end = CHOOSE k \in DOMAIN rest : rest[k][1] \notin {"indented", "blank"} /\ \A j \in 1..(k - 1) : ~(rest[j][1] \notin {"indented", "blank"})
      BY DEF FirstAt
    <3>3. \E k \in keys : \A j \in 1..(k - 1) : j \notin keys
      <4> HIDE DEF keys
      <4>1. keys \in SUBSET (1..M)
        BY DEF keys
      <4> HIDE DEF M
      <4>2. QED
        BY <1>1, <3>1, <4>1, LeastIn
    <3>4. PICK k \in DOMAIN rest : ~NoKey(rest[k]) /\ \A j \in 1..(k - 1) : NoKey(rest[j])
      <4>1. PICK k \in keys : \A j \in 1..(k - 1) : j \notin keys
        BY <3>3
      <4>2. k \in 1..M /\ \A j \in 1..(k - 1) : j \in 1..M
        BY <1>1
      <4>3. QED
        BY <1>5, <4>1, <4>2
    <3>5. end \in DOMAIN rest /\ ~NoKey(rest[end]) /\ \A j \in 1..(end - 1) : NoKey(rest[j])
      <4>1. k \in DOMAIN rest /\ rest[k][1] \notin {"indented", "blank"} /\ \A j \in 1..(k - 1) : ~(rest[j][1] \notin {"indented", "blank"})
        BY <3>4 DEF NoKey
      <4> HIDE DEF end
      <4>2. end \in DOMAIN rest /\ rest[end][1] \notin {"indented", "blank"} /\ \A j \in 1..(end - 1) : ~(rest[j][1] \notin {"indented", "blank"})
        BY <3>2, <4>1
      <4>3. QED
        BY <4>2 DEF NoKey
    <3>6. own = SubSeq(rest, 1, end - 1)
      BY <2>2
    <3> HIDE DEF end, own
    <3>7. end \in 1..M /\ end \in Nat /\ end - 1 \in Int /\ 1 \in Int /\ \A n \in 1..(end - 1) : n \in 1..M /\ 1 + n - 1 = n
      BY <1>1, <1>5, <3>5
    <3>8. \A n \in 1..(end - 1) : rest[n] \in MetaLine
      BY <1>5, <3>7
    <3>9. /\ own \in Seq(MetaLine) /\ Len(own) = IF 1 <= end - 1 THEN end - 1 - 1 + 1 ELSE 0
          /\ \A n \in 1..(end - 1 - 1 + 1) : own[n] = rest[1 + n - 1]
      BY <3>6, <3>7, <3>8, SubSeqProperties
    <3>10. end - 1 - 1 + 1 = end - 1 /\ (1 <= end - 1 \/ end - 1 = 0)
      BY <3>7
    <3>11. Len(own) = end - 1 /\ DOMAIN own = 1..(end - 1) /\ \A n \in 1..(end - 1) : own[n] = rest[n] /\ n \in 1..M
      BY <3>7, <3>9, <3>10
    <3>12. \A n \in 1..(end - 1), q \in 1..M : ~NoKey(rest[q]) => n < q
      <4> SUFFICES ASSUME NEW n \in 1..(end - 1), NEW q \in 1..M, ~NoKey(rest[q]) PROVE n < q
        OBVIOUS
      <4>1. q \notin 1..(end - 1)
        BY <3>5
      <4>2. QED
        BY <1>1, <3>7, <4>1
    <3>13. own \in Seq(MetaLine)
      BY <3>9
    <3>14. QED
      BY <3>11, <3>12, <3>13 DEF ToSet
  <2>3. QED
    BY <2>1, <2>2
<1> HIDE DEF own
<1>7. ASSUME NEW n \in 1..M, \A k \in 1..M : ~NoKey(rest[k]) => n < k PROVE Within(block, i, rest[n])
  <2>1. i + n \in i..Len(block) /\ block[i + n] = rest[n]
    BY <1>1, <1>5
  <2>2. ASSUME NEW k \in (i + 1)..Len(block), ~NoKey(block[k]) PROVE i + n < k
    <3>1. k - i \in 1..M /\ i + (k - i) = k
      BY <1>1
    <3>2. rest[k - i] = block[k]
      BY <1>5, <3>1
    <3>3. n < k - i
      BY <1>7, <2>2, <3>1, <3>2
    <3>4. QED
      BY <1>1, <3>3
  <2>3. QED
    BY <2>1, <2>2 DEF Within
<1>8. \A l \in ToSet(own) : Within(block, i, l)
  BY <1>6, <1>7
<1>9. CASE block[i][2] = "plain"
  <2>1. frontmatterField(block, key) = <<block[i]>>
    BY <1>4, <1>9
  <2>2. ToSet(<<block[i]>>) = {block[i]}
    BY DEF ToSet
  <2>3. Within(block, i, block[i])
    <3>1. i \in i..Len(block) /\ \A k \in (i + 1)..Len(block) : i < k
      BY <1>1
    <3>2. QED
      BY <3>1 DEF Within
  <2>4. QED
    BY <2>1, <2>2, <2>3
<1>10. CASE block[i][2] # "plain"
  <2>1. frontmatterField(block, key) = OnlyIn(own, lines)
    BY <1>4, <1>10
  <2> HIDE DEF lines
  <2>2. ToSet(OnlyIn(own, lines)) = ToSet(own) \cap lines
    BY <1>6, OnlyInKeeps
  <2>3. QED
    BY <1>8, <2>1, <2>2
<1>11. QED
  BY <1>9, <1>10

\* A field of a skill's front matter never takes a line of another.
LEMMA MetaRight ==
  ASSUME ReadMeta
  PROVE  SkillsRead'
<1>1. PICK block \in SeqOf(MetaLine, MetaLines) : worked' = [about |-> "meta", block |-> block, got |-> readSkillMeta(block)]
  BY DEF ReadMeta
<1>2. block \in Seq(MetaLine)
  BY SeqOfIsSeq, SkillsAssumption DEF SkillsAssumption
<1> PICK got : got = readSkillMeta(block)
  OBVIOUS
<1>3. got["name"] = frontmatterField(block, "name") /\ got["description"] = frontmatterField(block, "description")
  BY DEF readSkillMeta
<1>4. worked'.about = "meta" /\ worked'.block = block /\ worked'.got = got
  BY <1>1
<1>5. ASSUME NEW key \in {"name", "description"}, NEW i \in DOMAIN block, block[i][1] = key,
             \A j \in 1..(i - 1) : block[j][1] # key, NEW l \in ToSet(got[key])
      PROVE  Within(block, i, l)
  <2>1. got[key] = frontmatterField(block, key)
    BY <1>3
  <2>2. i \in 1..Len(block)
    BY <1>2
  <2>3. QED
    BY <1>2, <1>5, <2>1, <2>2, FieldRight
<1>6. ASSUME NEW key \in {"name", "description"}, NEW i \in DOMAIN block, block[i][1] = key,
             \A j \in 1..(i - 1) : block[j][1] # key, NEW l \in ToSet(got[key])
      PROVE  \E j \in i..Len(block) : block[j] = l /\
               \A k \in {q \in (i + 1)..Len(block) : block[q][1] \notin {"indented", "blank"}} : j < k
  <2>1. PICK j \in i..Len(block) : block[j] = l /\ \A k \in (i + 1)..Len(block) : ~NoKey(block[k]) => j < k
    BY <1>5, <1>6 DEF Within
  <2>2. \A k \in {q \in (i + 1)..Len(block) : block[q][1] \notin {"indented", "blank"}} : j < k
    BY <2>1 DEF NoKey
  <2>3. QED
    BY <2>1, <2>2
<1>7. QED
  BY <1>4, <1>6 DEF SkillsRead


-----------------------------------------------------------------------------
(* What is offered, installed and given out holds *)

SkillsInductive == SkillsBase /\ FoldersSound /\ CheckoutsSound /\ SkillsRead

LEMMA SkillsGive == SkillsInductive => SkillsInv
<1> SUFFICES ASSUME SkillsInductive PROVE SkillsInv
  OBVIOUS
<1>1. SkillsTyped /\ OwnFoldersKept /\ ListsSound /\ FoldersSound /\ CheckoutsSound /\ SkillsRead
  BY DEF SkillsInductive, SkillsBase
<1>2. ASSUME NoOpRuns, mishaps \cap {"skill lost", "namesakes", "death"} = {}, NEW d \in AllDirs \ OwnDirs PROVE Agrees(d)
  <2>1. Workers(d) = {}
    BY <1>2 DEF Workers, NoOpRuns, OpsRunning
  <2>2. FolderSound(d)
    BY <1>1, <1>2 DEF FoldersSound
  <2>3. QED
    BY <2>1, <2>2 DEF FolderSound
<1>3. InstalledAgrees
  BY <1>2 DEF InstalledAgrees, Agrees
<1>4. OneEntryEach
  BY <1>1 DEF OneEntryEach, ListsSound, ListSound
<1>5. ASSUME NoOpRuns, mishaps \cap {"offline", "raced", "market lost", "death"} = {}, NEW u \in markets
      PROVE  clones[u].st = "ready"
  <2>1. u \in DOMAIN Offers /\ FillersOf(u) = {}
    BY <1>1, <1>5 DEF SkillsTyped, NoOpRuns, FillersOf
  <2>2. CheckoutSound(u)
    BY <1>1, <1>5, <2>1 DEF CheckoutsSound
  <2>3. QED
    BY <2>1, <2>2 DEF CheckoutSound
<1>6. MarketsThere
  BY <1>5 DEF MarketsThere
<1>7. QED
  BY <1>1, <1>3, <1>4, <1>6 DEF SkillsInv

LEMMA SkillsStart == SkillsInit => SkillsInductive
<1> SUFFICES ASSUME SkillsInit PROVE SkillsInductive
  OBVIOUS
<1>1. SkillsBase /\ CheckoutsSound
  BY BaseStarts, CheckoutsStart
<1>2. \A o \in SkillOps : ops[o].at # "recording"
  BY DEF SkillsInit
<1>3. \A d : Workers(d) = {}
  BY <1>2 DEF Workers
<1>4. managed = <<>> /\ ToSet(managed) = {} /\ \A d \in AllDirs \ OwnDirs : skillDirs[d] = {}
  BY DEF SkillsInit, ToSet
<1>5. \A d \in AllDirs \ OwnDirs : Agrees(d)
  BY <1>4 DEF Agrees, ManagedDir
<1>6. FoldersSound
  BY <1>2, <1>3, <1>5 DEF FoldersSound, FolderSound
<1>7. SkillsRead
  BY DEF SkillsInit, SkillsRead
<1>8. QED
  BY <1>1, <1>6, <1>7 DEF SkillsInductive

LEMMA ReadKept ==
  ASSUME SkillsRead, UNCHANGED worked
  PROVE  SkillsRead'
  BY DEF SkillsRead

LEMMA RequestSteps ==
  ASSUME SkillsInductive, NEW o \in SkillOps,
         \/ cloneOrRefresh(o) \/ PullEnds(o) \/ CloneEnds(o) \/ getMarketplaces(o) \/ setMarketplaces(o)
         \/ removeMarketplace(o) \/ FindSkill(o) \/ getInstalled(o) \/ installSkill(o) \/ uninstallSkill(o) \/ setInstalled(o)
  PROVE  SkillsInductive'
<1>1. SkillsBase /\ FoldersSound /\ CheckoutsSound /\ SkillsRead /\ SkillsTyped /\ RequestSound(o)
  BY DEF SkillsInductive, SkillsBase
<1>2. UNCHANGED worked
  BY DEF cloneOrRefresh, PullEnds, CloneEnds, getMarketplaces, setMarketplaces, removeMarketplace, FindSkill, getInstalled,
         installSkill, uninstallSkill, setInstalled
<1>3. SkillsRead'
  BY <1>1, <1>2, ReadKept
<1>4. CASE cloneOrRefresh(o) \/ PullEnds(o) \/ CloneEnds(o) \/ getMarketplaces(o) \/ setMarketplaces(o) \/ removeMarketplace(o)
  <2>1. SkillsBase' /\ UNCHANGED <<managed, skillDirs>> /\ mishaps \subseteq mishaps'
    BY <1>1, <1>4, FetchBase
  <2>2. PICK to \in SkillPlaces : Moves(o, to) /\ ops[o].at # "recording" /\ to # "recording"
    BY <1>1, <1>4, FetchBase
  <2>3. FoldersSound'
    BY <1>1, <2>1, <2>2, FoldersUntouched
  <2>4. CheckoutsSound'
    BY <1>1, <1>4, CheckoutsFilled
  <2>5. QED
    BY <1>3, <2>1, <2>3, <2>4 DEF SkillsInductive
<1>5. CASE FindSkill(o)
  <2>1. SkillsBase' /\ UNCHANGED <<clones, markets, managed, skillDirs, mishaps>> /\ mishaps \subseteq mishaps'
    BY <1>1, <1>5, FindBase DEF FindSkill
  <2>2. PICK to \in {"done", "reading"} : Moves(o, to)
    BY <1>1, <1>5, FindBase
  <2>3. ops[o].at \in {"finding", "idle"} /\ (OpOf[o].kind \in Fills => ops[o].at = "finding")
    BY <1>5 DEF FindSkill, Comes, Fills
  <2>4. FoldersSound'
    BY <1>1, <2>1, <2>2, <2>3, FoldersUntouched
  <2>5. CheckoutsSound'
    BY <1>1, <2>1, <2>2, <2>3, CheckoutsUntouched
  <2>6. QED
    BY <1>3, <2>1, <2>4, <2>5 DEF SkillsInductive
<1>6. CASE getInstalled(o)
  <2>1. SkillsBase' /\ UNCHANGED <<clones, markets, managed, skillDirs, mishaps>> /\ mishaps \subseteq mishaps'
    BY <1>1, <1>6, ReadBase DEF getInstalled
  <2>2. PICK to \in {"copying", "dropping"} : Moves(o, to)
    BY <1>1, <1>6, ReadBase
  <2>3. ops[o].at \in {"reading", "idle"} /\ (OpOf[o].kind \in Fills => ops[o].at = "reading")
    BY <1>6 DEF getInstalled, Comes, Fills
  <2>4. FoldersSound'
    BY <1>1, <2>1, <2>2, <2>3, FoldersUntouched
  <2>5. CheckoutsSound'
    BY <1>1, <2>1, <2>2, <2>3, CheckoutsUntouched
  <2>6. QED
    BY <1>3, <2>1, <2>4, <2>5 DEF SkillsInductive
<1>7. CASE installSkill(o)
  <2>1. SkillsBase' /\ FoldersSound' /\ UNCHANGED <<clones, markets, mishaps>> /\ mishaps \subseteq mishaps'
    BY <1>1, <1>7, InstallBase, FoldersInstall DEF installSkill
  <2>2. PICK to \in {"done", "recording"} : Moves(o, to)
    BY <1>1, <1>7, InstallBase
  <2>3. ops[o].at = "copying"
    BY <1>7 DEF installSkill
  <2>4. CheckoutsSound'
    BY <1>1, <2>1, <2>2, <2>3, CheckoutsUntouched
  <2>5. QED
    BY <1>3, <2>1, <2>4 DEF SkillsInductive
<1>8. CASE uninstallSkill(o)
  <2>1. SkillsBase' /\ FoldersSound' /\ UNCHANGED <<clones, markets>>
    BY <1>1, <1>8, UninstallBase, FoldersUninstall DEF uninstallSkill
  <2>2. PICK to \in {"done", "recording"} : Moves(o, to)
    BY <1>1, <1>8, UninstallBase
  <2>3. ops[o].at = "dropping" /\ mishaps \subseteq mishaps'
    BY <1>8 DEF uninstallSkill, Mishap
  <2>4. CheckoutsSound'
    BY <1>1, <2>1, <2>2, <2>3, CheckoutsUntouched
  <2>5. QED
    BY <1>3, <2>1, <2>4 DEF SkillsInductive
<1>9. CASE setInstalled(o)
  <2>1. SkillsBase' /\ FoldersSound' /\ UNCHANGED <<clones, markets>> /\ Moves(o, "done") /\ ops[o].at = "recording"
        /\ mishaps \subseteq mishaps'
    BY <1>1, <1>9, RecordBase, FoldersRecord DEF setInstalled
  <2>2. CheckoutsSound'
    BY <1>1, <2>1, CheckoutsUntouched
  <2>3. QED
    BY <1>3, <2>1, <2>2 DEF SkillsInductive
<1>10. QED
  BY <1>4, <1>5, <1>6, <1>7, <1>8, <1>9

LEMMA SkillsStep == SkillsInductive /\ [SkillsNext]_skillVars => SkillsInductive'
<1> SUFFICES ASSUME SkillsInductive, [SkillsNext]_skillVars PROVE SkillsInductive'
  OBVIOUS
<1>1. SkillsBase /\ FoldersSound /\ CheckoutsSound /\ SkillsRead
  BY DEF SkillsInductive
<1>2. ASSUME UNCHANGED marketVars PROVE SkillsBase' /\ FoldersSound' /\ CheckoutsSound'
  <2>1. UNCHANGED <<clones, markets, managed, skillDirs, ops, mishaps>>
    BY <1>2 DEF marketVars
  <2>2. SkillsBase'
    BY <1>1, <2>1 DEF SkillsBase, SkillsTyped, RequestSound, OwnFoldersKept, ListsSound, OpsDone
  <2>3. \A d : Workers(d)' = Workers(d)
    BY <2>1 DEF Workers, TargetOf
  <2>4. ASSUME NEW d, FolderSound(d) PROVE FolderSound(d)'
    BY <2>1, <2>3, <2>4, FolderKept
  <2>5. FoldersSound'
    BY <1>1, <2>1, <2>4 DEF FoldersSound, TargetOf
  <2>6. \A u : FillersOf(u)' = FillersOf(u)
    BY <2>1 DEF FillersOf, OpsRunning, Url
  <2>7. ASSUME NEW u, CheckoutSound(u) PROVE CheckoutSound(u)'
    BY <2>1, <2>6, <2>7 DEF CheckoutSound, BusyWith
  <2>8. CheckoutsSound'
    BY <1>1, <2>1, <2>7 DEF CheckoutsSound
  <2>9. QED
    BY <2>2, <2>5, <2>8
<1>3. CASE UNCHANGED skillVars
  <2>1. UNCHANGED marketVars /\ UNCHANGED worked
    BY <1>3 DEF skillVars, marketVars
  <2>2. QED
    BY <1>1, <1>2, <2>1, ReadKept DEF SkillsInductive
<1>4. ASSUME NEW o \in SkillOps,
             \/ cloneOrRefresh(o) \/ PullEnds(o) \/ CloneEnds(o) \/ getMarketplaces(o) \/ setMarketplaces(o)
             \/ removeMarketplace(o) \/ FindSkill(o) \/ getInstalled(o) \/ installSkill(o) \/ uninstallSkill(o) \/ setInstalled(o)
      PROVE  SkillsInductive'
  BY <1>4, RequestSteps
<1>5. CASE SkillServerDies
  <2>1. SkillsBase' /\ "death" \in mishaps' /\ UNCHANGED worked
    BY <1>1, <1>5, DeathBase DEF SkillServerDies
  <2>2. FoldersSound' /\ CheckoutsSound'
    BY <2>1 DEF FoldersSound, CheckoutsSound
  <2>3. QED
    BY <1>1, <2>1, <2>2, ReadKept DEF SkillsInductive
<1>6. CASE (ReadMeta \/ StageSkills \/ ChooseSkills \/ SearchSkills) /\ UNCHANGED marketVars
  BY <1>2, <1>6, MetaRight, StageRight, PlanRight, SearchRight DEF SkillsInductive
<1>7. QED
  BY <1>3, <1>4, <1>5, <1>6 DEF SkillsNext

\* Skills are installed, listed and given out as their purpose says (Skills), for any marketplaces, requests and folders:
\* what the user wrote is never touched, and the list tells of the folders once nobody works there.
THEOREM SkillsHold == SkillsSpec => []SkillsInv
  BY SkillsGive, SkillsStart, SkillsStep, PTL DEF SkillsSpec

-----------------------------------------------------------------------------
(* What is decided by pure functions *)

PoliciesSpec == PoliciesInit /\ [][PoliciesNext]_policiesVars

\* In a sequence that is not empty something comes first, by a strict weak order B and then by its place.
LEMMA FirstBest ==
  ASSUME NEW D, NEW s \in Seq(D), Len(s) # 0, NEW B,
         \A p, q \in D : <<p, q>> \in B => <<q, p>> \notin B,
         \A p, q, r \in D : <<p, q>> \in B => <<p, r>> \in B \/ <<r, q>> \in B
  PROVE  \E i \in DOMAIN s : \A j \in DOMAIN s : <<s[j], s[i]>> \notin B /\ (j < i => <<s[i], s[j]>> \in B)
<1> DEFINE N == Len(s)
           First(i, n) == i \in 1..n /\ \A j \in 1..n : <<s[j], s[i]>> \notin B /\ (j < i => <<s[i], s[j]>> \in B)
           good == {n \in 0..N : n = 0 \/ \E i : First(i, n)}
<1>1. N \in Nat /\ N # 0 /\ DOMAIN s = 1..N /\ \A n \in 1..N : s[n] \in D
  OBVIOUS
<1>2. \A p \in D : <<p, p>> \notin B
  OBVIOUS
<1>3. ASSUME NEW n \in 1..N, n - 1 \in good PROVE n \in good
  <2> HIDE DEF N
  <2>1. n \in 0..N /\ n \in 1..n /\ \A j \in 1..n : j \in 1..N /\ (j = n \/ (j \in 1..(n - 1) /\ j < n))
    BY <1>1
  <2>2. CASE n = 1
    <3>1. First(1, 1)
      <4>1. \A j \in 1..1 : j = 1
        OBVIOUS
      <4>2. s[1] \in D /\ 1 \in 1..1 /\ ~(1 < 1)
        BY <1>1, <2>1, <2>2
      <4>3. QED
        BY <4>1, <4>2, <1>2
    <3> HIDE DEF First
    <3>2. QED
      BY <3>1, <2>1, <2>2
  <2>3. CASE n # 1
    <3>1. PICK i : First(i, n - 1)
      BY <1>3, <2>3
    <3>2. i \in 1..(n - 1) /\ i < n /\ i \in 1..n /\ s[i] \in D /\ s[n] \in D /\ ~(n < i) /\ ~(n < n)
      BY <1>1, <3>1
    <3>3. CASE <<s[n], s[i]>> \in B
      <4>1. ASSUME NEW j \in 1..n PROVE <<s[j], s[n]>> \notin B /\ (j < n => <<s[n], s[j]>> \in B)
        <5>1. s[j] \in D
          BY <1>1, <2>1
        <5>2. CASE j = n
          BY <5>2, <3>2, <1>2
        <5>3. CASE j # n
          <6>1. <<s[j], s[i]>> \notin B
            BY <5>3, <2>1, <3>1
          <6>2. <<s[n], s[j]>> \in B
            BY <6>1, <3>3, <5>1, <3>2
          <6>3. QED
            BY <6>2, <5>1, <3>2
        <5>4. QED
          BY <5>2, <5>3
      <4>2. First(n, n)
        BY <4>1, <2>1
      <4> HIDE DEF First
      <4>3. QED
        BY <4>2, <2>1
    <3>4. CASE <<s[n], s[i]>> \notin B
      <4>1. First(i, n)
        BY <3>4, <3>1, <3>2, <2>1
      <4> HIDE DEF First
      <4>2. QED
        BY <4>1, <2>1
    <3>5. QED
      BY <3>3, <3>4
  <2>4. QED
    BY <2>2, <2>3
<1>4. 0 \in good
  BY <1>1
<1>5. N \in good
  <2> HIDE DEF good, N
  <2>1. \A n \in 0..N : n \in good
    BY <1>1, <1>3, <1>4, UpFromZero
  <2>2. QED
    BY <2>1, <1>1
<1>6. PICK i : First(i, N)
  BY <1>5, <1>1
<1>7. QED
  BY <1>6, <1>1

\* So it is where two numbers are compared, the second where the first are equal.
Less(f, g, p, q) == f[p] < f[q] \/ (f[p] = f[q] /\ g[p] < g[q])
LEMMA LexBest ==
  ASSUME NEW D, NEW s \in Seq(D), s # <<>>, NEW f \in [D -> Int], NEW g \in [D -> Int]
  PROVE  \E i \in DOMAIN s : \A j \in DOMAIN s : ~Less(f, g, s[j], s[i]) /\ (j < i => Less(f, g, s[i], s[j]))
<1> DEFINE B == {pq \in D \X D : Less(f, g, pq[1], pq[2])}
<1>1. \A p, q \in D : <<p, q>> \in B <=> Less(f, g, p, q)
  OBVIOUS
<1>2. ASSUME NEW p \in D, NEW q \in D, Less(f, g, p, q) PROVE ~Less(f, g, q, p)
  <2>1. f[p] \in Int /\ f[q] \in Int /\ g[p] \in Int /\ g[q] \in Int
    OBVIOUS
  <2>2. QED
    BY <1>2, <2>1 DEF Less
<1>3. ASSUME NEW p \in D, NEW q \in D, NEW r \in D, Less(f, g, p, q) PROVE Less(f, g, p, r) \/ Less(f, g, r, q)
  <2>1. f[p] \in Int /\ f[q] \in Int /\ f[r] \in Int /\ g[p] \in Int /\ g[q] \in Int /\ g[r] \in Int
    OBVIOUS
  <2>2. QED
    BY <1>3, <2>1 DEF Less
<1> HIDE DEF B
<1>4. \E i \in DOMAIN s : \A j \in DOMAIN s : <<s[j], s[i]>> \notin B /\ (j < i => <<s[i], s[j]>> \in B)
  <2>1. \A p, q \in D : <<p, q>> \in B => <<q, p>> \notin B
    BY <1>1, <1>2
  <2>2. \A p, q, r \in D : <<p, q>> \in B => <<p, r>> \in B \/ <<r, q>> \in B
    BY <1>1, <1>3
  <2>3. Len(s) # 0
    OBVIOUS
  <2>4. QED
    BY <2>1, <2>2, <2>3, FirstBest
<1>5. \A i \in DOMAIN s : s[i] \in D
  OBVIOUS
<1>6. PICK i \in DOMAIN s : \A j \in DOMAIN s : <<s[j], s[i]>> \notin B /\ (j < i => <<s[i], s[j]>> \in B)
  BY <1>4
<1>7. ASSUME NEW j \in DOMAIN s PROVE ~Less(f, g, s[j], s[i]) /\ (j < i => Less(f, g, s[i], s[j]))
  BY <1>1, <1>5, <1>6
<1>8. QED
  BY <1>7

TierOf == [p \in ModelPairs |-> Tiers[p.tier]]
QualityOf == [p \in ModelPairs |-> p.quality]
WorseOf == [p \in ModelPairs |-> 0 - p.quality]

LEMMA PairOrder ==
  /\ TierOf \in [ModelPairs -> Int] /\ QualityOf \in [ModelPairs -> Int] /\ WorseOf \in [ModelPairs -> Int]
  /\ \A p, q \in ModelPairs : Less(TierOf, WorseOf, p, q) <=> Cheaper(p, q)
  /\ \A p, q \in ModelPairs : Less(WorseOf, TierOf, p, q) <=> Better(p, q)
  /\ \A p, q \in ModelPairs : Less(QualityOf, [r \in ModelPairs |-> 0], p, q) <=> p.quality < q.quality
<1>1. \A p \in ModelPairs : p.quality \in Nat /\ p.tier \in {"free", "cheap", "expensive"}
  BY PoliciesAssumption DEF PoliciesAssumption
<1>2. \A t \in {"free", "cheap", "expensive"} : Tiers[t] \in Nat
  BY DEF Tiers
<1>3. \A t, u \in {"free", "cheap", "expensive"} : Tiers[t] = Tiers[u] => t = u
  BY DEF Tiers
<1>4. \A p \in ModelPairs : TierOf[p] = Tiers[p.tier] /\ QualityOf[p] = p.quality /\ WorseOf[p] = 0 - p.quality
  BY DEF TierOf, QualityOf, WorseOf
<1>5. TierOf \in [ModelPairs -> Int]
  BY <1>1, <1>2 DEF TierOf
<1>6. QualityOf \in [ModelPairs -> Int] /\ WorseOf \in [ModelPairs -> Int]
  BY <1>1 DEF QualityOf, WorseOf
<1>7. ASSUME NEW p \in ModelPairs, NEW q \in ModelPairs
      PROVE  /\ Less(TierOf, WorseOf, p, q) <=> Cheaper(p, q)
             /\ Less(WorseOf, TierOf, p, q) <=> Better(p, q)
             /\ Less(QualityOf, [r \in ModelPairs |-> 0], p, q) <=> p.quality < q.quality
  <2>1. p.quality \in Nat /\ q.quality \in Nat /\ Tiers[p.tier] \in Nat /\ Tiers[q.tier] \in Nat
    BY <1>1, <1>2
  <2>2. Tiers[p.tier] = Tiers[q.tier] <=> p.tier = q.tier
    BY <1>1, <1>3
  <2>3. Less(TierOf, WorseOf, p, q) <=> Cheaper(p, q)
    BY <1>4, <2>1, <2>2 DEF Less, Cheaper
  <2>4. Less(WorseOf, TierOf, p, q) <=> Better(p, q)
    BY <1>4, <2>1, <2>2 DEF Less, Better
  <2>5. Less(QualityOf, [r \in ModelPairs |-> 0], p, q) <=> p.quality < q.quality
    BY <1>4, <2>1 DEF Less
  <2>6. QED
    BY <2>3, <2>4, <2>5
<1>8. QED
  BY <1>5, <1>6, <1>7

\* The best of a list is on it, and nothing on it is better.
LEMMA BestIsBest ==
  ASSUME NEW pairs \in Seq(ModelPairs), pairs # <<>>
  PROVE  /\ BestBy(pairs, Cheaper) \in ToSet(pairs) /\ \A p \in ToSet(pairs) : ~Cheaper(p, BestBy(pairs, Cheaper))
         /\ BestBy(pairs, Better) \in ToSet(pairs) /\ \A p \in ToSet(pairs) : ~Better(p, BestBy(pairs, Better))
         /\ LET best == BestBy(pairs, LAMBDA p, q : p.quality < q.quality) IN
            best \in ToSet(pairs) /\ \A p \in ToSet(pairs) : ~(p.quality < best.quality)
<1>1. \A i \in DOMAIN pairs : pairs[i] \in ModelPairs
  OBVIOUS
<1>2. ToSet(pairs) = {pairs[i] : i \in DOMAIN pairs}
  BY DEF ToSet
<1>3. BestBy(pairs, Cheaper) \in ToSet(pairs) /\ \A p \in ToSet(pairs) : ~Cheaper(p, BestBy(pairs, Cheaper))
  <2> DEFINE Is(i) == \A j \in DOMAIN pairs : ~Cheaper(pairs[j], pairs[i]) /\ (j < i => Cheaper(pairs[i], pairs[j]))
  <2>1. \E i \in DOMAIN pairs : Is(i)
    <3>1. PICK i \in DOMAIN pairs : \A j \in DOMAIN pairs :
            ~Less(TierOf, WorseOf, pairs[j], pairs[i]) /\ (j < i => Less(TierOf, WorseOf, pairs[i], pairs[j]))
      BY PairOrder, LexBest
    <3>2. Is(i)
      BY <1>1, <3>1, PairOrder
    <3> HIDE DEF Is
    <3>3. QED
      BY <3>2
  <2>2. BestBy(pairs, Cheaper) = pairs[CHOOSE i \in DOMAIN pairs : Is(i)]
    BY DEF BestBy
  <2> HIDE DEF Is
  <2>3. PICK i \in DOMAIN pairs : BestBy(pairs, Cheaper) = pairs[i] /\ Is(i)
    BY <2>1, <2>2
  <2>4. QED
    BY <1>2, <2>3 DEF Is
<1>4. BestBy(pairs, Better) \in ToSet(pairs) /\ \A p \in ToSet(pairs) : ~Better(p, BestBy(pairs, Better))
  <2> DEFINE Is(i) == \A j \in DOMAIN pairs : ~Better(pairs[j], pairs[i]) /\ (j < i => Better(pairs[i], pairs[j]))
  <2>1. \E i \in DOMAIN pairs : Is(i)
    <3>1. PICK i \in DOMAIN pairs : \A j \in DOMAIN pairs :
            ~Less(WorseOf, TierOf, pairs[j], pairs[i]) /\ (j < i => Less(WorseOf, TierOf, pairs[i], pairs[j]))
      BY PairOrder, LexBest
    <3>2. Is(i)
      BY <1>1, <3>1, PairOrder
    <3> HIDE DEF Is
    <3>3. QED
      BY <3>2
  <2>2. BestBy(pairs, Better) = pairs[CHOOSE i \in DOMAIN pairs : Is(i)]
    BY DEF BestBy
  <2> HIDE DEF Is
  <2>3. PICK i \in DOMAIN pairs : BestBy(pairs, Better) = pairs[i] /\ Is(i)
    BY <2>1, <2>2
  <2>4. QED
    BY <1>2, <2>3 DEF Is
<1>5. LET best == BestBy(pairs, LAMBDA p, q : p.quality < q.quality) IN
      best \in ToSet(pairs) /\ \A p \in ToSet(pairs) : ~(p.quality < best.quality)
  <2>1. PICK none : none = [r \in ModelPairs |-> 0]
    OBVIOUS
  <2>2. PICK i \in DOMAIN pairs : \A j \in DOMAIN pairs :
          ~Less(QualityOf, none, pairs[j], pairs[i]) /\ (j < i => Less(QualityOf, none, pairs[i], pairs[j]))
    <3>1. none \in [ModelPairs -> Int] /\ QualityOf \in [ModelPairs -> Int]
      BY <2>1, PairOrder
    <3>2. QED
      BY <3>1, LexBest
  <2> DEFINE Is(k) == \A j \in DOMAIN pairs :
                        ~(pairs[j].quality < pairs[k].quality) /\ (j < k => pairs[k].quality < pairs[j].quality)
  <2>3. \E k \in DOMAIN pairs : Is(k)
    <3>1. \A p, q \in ModelPairs : Less(QualityOf, none, p, q) <=> p.quality < q.quality
      BY <2>1, PairOrder
    <3>2. ASSUME NEW j \in DOMAIN pairs
          PROVE  ~(pairs[j].quality < pairs[i].quality) /\ (j < i => pairs[i].quality < pairs[j].quality)
      <4>1. pairs[i] \in ModelPairs /\ pairs[j] \in ModelPairs
        BY <1>1
      <4>2. ~Less(QualityOf, none, pairs[j], pairs[i]) /\ (j < i => Less(QualityOf, none, pairs[i], pairs[j]))
        BY <2>2
      <4>3. /\ Less(QualityOf, none, pairs[j], pairs[i]) <=> pairs[j].quality < pairs[i].quality
            /\ Less(QualityOf, none, pairs[i], pairs[j]) <=> pairs[i].quality < pairs[j].quality
        BY <3>1, <4>1
      <4>4. QED
        BY <4>2, <4>3
    <3>3. Is(i)
      BY <3>2
    <3> HIDE DEF Is
    <3>4. QED
      BY <3>3
  <2> PICK best : best = BestBy(pairs, LAMBDA p, q : p.quality < q.quality)
    OBVIOUS
  <2>4. best = pairs[CHOOSE k \in DOMAIN pairs : Is(k)]
    BY DEF BestBy
  <2> HIDE DEF Is
  <2>5. PICK k \in DOMAIN pairs : best = pairs[k] /\ Is(k)
    BY <2>3, <2>4
  <2>6. best \in ToSet(pairs) /\ \A p \in ToSet(pairs) : ~(p.quality < best.quality)
    BY <1>2, <2>5 DEF Is
  <2>7. QED
    BY <2>6
<1>6. QED
  BY <1>3, <1>4, <1>5

\* The pick of a role is on the list and first by the strategy; an escalation is the next better one.
LEMMA PickRight == DecidePick => PoliciesInv'
<1> SUFFICES ASSUME DecidePick PROVE PoliciesInv'
  OBVIOUS
<1>0. PICK pairs \in SeqOf(ModelPairs, PairsMax) \ {<<>>}, role \in {"plan", "work"},
           base \in {"cheapest-first", "quality-first", "balanced"}, large \in {"none", "yes", "no"}, attempts \in 1..2 :
        LET p == pickForRole(pairs, role, resolveStrategy(base, large)) IN
        decided' = [about |-> "pick", pairs |-> pairs, role |-> role, strategy |-> resolveStrategy(base, large),
                    attempts |-> attempts, pick |-> p, next |-> escalate(pairs, p, attempts)]
  BY DEF DecidePick
<1> PICK strategy : strategy = resolveStrategy(base, large)
  OBVIOUS
<1> PICK pick : pick = pickForRole(pairs, role, strategy)
  OBVIOUS
<1> PICK up : up = escalate(pairs, pick, attempts)
  OBVIOUS
<1>1. decided' = [about |-> "pick", pairs |-> pairs, role |-> role, strategy |-> strategy,
                  attempts |-> attempts, pick |-> pick, next |-> up]
  BY <1>0
<1>2. decided'.about = "pick" /\ decided'.pairs = pairs /\ decided'.strategy = strategy /\ decided'.attempts = attempts
      /\ decided'.pick = pick /\ decided'.next = up
  BY <1>1
<1>3. pairs \in Seq(ModelPairs) /\ pairs # <<>>
  BY SeqOfIsSeq, PoliciesAssumption DEF PoliciesAssumption
<1>4. \A p \in ModelPairs : p.quality \in Nat /\ Tiers[p.tier] \in Nat
  BY PoliciesAssumption DEF PoliciesAssumption, Tiers
<1>5. ToSet(pairs) \subseteq ModelPairs
  BY <1>3 DEF ToSet
<1>6. /\ BestBy(pairs, Cheaper) \in ToSet(pairs) /\ \A p \in ToSet(pairs) : ~Cheaper(p, BestBy(pairs, Cheaper))
      /\ BestBy(pairs, Better) \in ToSet(pairs) /\ \A p \in ToSet(pairs) : ~Better(p, BestBy(pairs, Better))
  BY <1>3, BestIsBest
<1>7. pick = BestBy(pairs, Cheaper) \/ pick = BestBy(pairs, Better)
  BY <1>1 DEF pickForRole
<1>8. pick \in ToSet(pairs)
  BY <1>6, <1>7
<1>9. ASSUME strategy = "quality-first", NEW p \in ToSet(pairs) PROVE p.quality <= pick.quality
  <2>1. pick = BestBy(pairs, Better)
    BY <1>1, <1>9 DEF pickForRole
  <2>2. ~Better(p, pick)
    BY <1>6, <2>1
  <2>3. p.quality \in Nat /\ pick.quality \in Nat
    BY <1>4, <1>5, <1>8
  <2>4. QED
    BY <2>2, <2>3 DEF Better
<1>10. ASSUME strategy = "cheapest-first", NEW p \in ToSet(pairs) PROVE Tiers[pick.tier] <= Tiers[p.tier]
  <2>1. pick = BestBy(pairs, Cheaper)
    BY <1>1, <1>10 DEF pickForRole
  <2>2. ~Cheaper(p, pick)
    BY <1>6, <2>1
  <2>3. Tiers[p.tier] \in Nat /\ Tiers[pick.tier] \in Nat
    BY <1>4, <1>5, <1>8
  <2>4. QED
    BY <2>2, <2>3 DEF Cheaper
<1> DEFINE above == {p \in ToSet(pairs) : p.quality > pick.quality}
           higher == OnlyIn(pairs, above)
<1>11. higher \in Seq(ModelPairs) /\ ToSet(higher) = above /\ (higher = <<>> <=> above = {})
  <2>1. ToSet(pairs) \cap above = above
    OBVIOUS
  <2> HIDE DEF above
  <2>2. QED
    BY <1>3, <2>1, OnlyInKeeps
<1>12. PICK best : best = BestBy(higher, LAMBDA p, q : p.quality < q.quality)
  OBVIOUS
<1>13. up = IF attempts < 2 \/ higher = <<>> THEN pick ELSE best
  BY <1>12 DEF escalate
<1> HIDE DEF higher
<1>14. ASSUME up # pick PROVE up.quality > pick.quality
  <2>1. higher # <<>> /\ up = best
    BY <1>13, <1>14
  <2>2. up \in ToSet(higher)
    BY <1>11, <1>12, <2>1, BestIsBest
  <2>3. QED
    BY <1>11, <2>2
<1>15. ASSUME attempts = 2, NEW r \in ToSet(pairs), r.quality > pick.quality
       PROVE  up # pick /\ ~(r.quality < up.quality)
  <2>1. r \in above /\ above # {}
    BY <1>15
  <2>2. higher # <<>>
    BY <1>11, <2>1
  <2>3. up = best
    BY <1>13, <1>15, <2>2
  <2>4. up \in ToSet(higher) /\ \A q \in ToSet(higher) : ~(q.quality < up.quality)
    BY <1>11, <1>12, <2>2, <2>3, BestIsBest
  <2>5. up.quality > pick.quality /\ ~(r.quality < up.quality)
    BY <1>11, <2>1, <2>4
  <2>6. pick.quality \in Nat
    BY <1>4, <1>5, <1>8
  <2>7. QED
    BY <2>5, <2>6
<1> HIDE DEF above
<1>16. PicksSound'
  <2>1. /\ pick \in ToSet(pairs)
        /\ strategy = "quality-first" => \A p \in ToSet(pairs) : p.quality <= pick.quality
        /\ strategy = "cheapest-first" => \A p \in ToSet(pairs) : Tiers[pick.tier] <= Tiers[p.tier]
        /\ up # pick => up.quality > pick.quality
        /\ attempts = 2 => ~\E p \in ToSet(pairs) : p.quality > pick.quality /\ (up = pick \/ p.quality < up.quality)
    BY <1>8, <1>9, <1>10, <1>14, <1>15
  <2>2. QED
    BY <1>2, <2>1 DEF PicksSound
<1>17. StaysInside' /\ NothingWidened' /\ BadgeSound' /\ WallSound'
  BY <1>2 DEF StaysInside, NothingWidened, BadgeSound, WallSound
<1>18. QED
  BY <1>16, <1>17 DEF PoliciesInv

\* Whether a mark of the kind is among those before.
LEMMA BadgeIs ==
  ASSUME NEW C, NEW marks \in Seq(C)
  PROVE  computeVerificationStatus(marks) =
           IF \E i \in 1..Len(marks) : Counts(marks[i]) /\ marks[i].mark = "mismatch" THEN "false"
           ELSE IF \E i \in 1..Len(marks) : Counts(marks[i]) /\ marks[i].mark = "verified" THEN "true" ELSE "unknown"
<1> DEFINE N == Len(marks)
           D == {"unknown", "true", "false"}
           next == [x \in D \X (1..N) |-> AfterMark(x[1], marks[x[2]])]
           Is(g) == g = [n \in 0..N |-> IF n = 0 THEN "unknown" ELSE AfterMark(g[n - 1], marks[n])]
           st == CHOOSE g : Is(g)
<1>1. N \in Nat
  OBVIOUS
<1>2. \A c : \A q \in D : AfterMark(q, c) \in D
  BY DEF AfterMark
<1>3. next \in [D \X (1..N) -> D]
  BY <1>2
<1>4. \A q \in D, n \in 1..N : next[<<q, n>>] = AfterMark(q, marks[n])
  OBVIOUS
<1>5. PICK f : Walk(f, N, D, "unknown", next)
  <2>1. "unknown" \in D
    OBVIOUS
  <2> HIDE DEF next, N, D
  <2>2. QED
    BY <1>1, <1>3, <2>1, WalkThere
<1> HIDE DEF next
<1>6. Is(f)
  <2>1. \A n \in 1..N : n - 1 \in 0..N
    BY <1>1
  <2>2. \A n \in 1..N : f[n] = AfterMark(f[n - 1], marks[n])
    BY <1>4, <1>5, <2>1 DEF Walk
  <2>3. \A n \in 0..N : n = 0 \/ n \in 1..N
    BY <1>1
  <2>4. \A n \in 0..N : f[n] = IF n = 0 THEN "unknown" ELSE AfterMark(f[n - 1], marks[n])
    BY <1>5, <2>2, <2>3 DEF Walk
  <2>5. f = [n \in 0..N |-> f[n]]
    BY <1>5 DEF Walk
  <2>6. QED
    BY <2>4, <2>5
<1>7. computeVerificationStatus(marks) = st[N] /\ Is(st)
  <2>1. computeVerificationStatus(marks) = st[N]
    BY DEF computeVerificationStatus
  <2> HIDE DEF Is
  <2>2. Is(st)
    BY <1>6
  <2>3. QED
    BY <2>1, <2>2
<1>8. \A n \in 0..N : st[n] = IF n = 0 THEN "unknown" ELSE AfterMark(st[n - 1], marks[n])
  <2> HIDE DEF st
  <2>1. QED
    BY <1>7
<1> HIDE DEF st
<1> DEFINE Bad(n) == \E i \in 1..n : Counts(marks[i]) /\ marks[i].mark = "mismatch"
           Good(n) == \E i \in 1..n : Counts(marks[i]) /\ marks[i].mark = "verified"
           G == {n \in 0..N : st[n] = IF Bad(n) THEN "false" ELSE IF Good(n) THEN "true" ELSE "unknown"}
<1>9. 0 \in G
  BY <1>1, <1>8
<1>10. ASSUME NEW n \in 1..N, n - 1 \in G PROVE n \in G
  <2>1. n \in 0..N /\ n # 0 /\ \A i \in 1..n : i = n \/ i \in 1..(n - 1)
    BY <1>1
  <2>2. n \in 1..n /\ \A i \in 1..(n - 1) : i \in 1..n
    BY <1>1
  <2>3. /\ Bad(n) <=> Bad(n - 1) \/ (Counts(marks[n]) /\ marks[n].mark = "mismatch")
        /\ Good(n) <=> Good(n - 1) \/ (Counts(marks[n]) /\ marks[n].mark = "verified")
    BY <2>1, <2>2
  <2>4. st[n] = AfterMark(st[n - 1], marks[n])
    BY <1>8, <2>1
  <2>5. st[n - 1] = IF Bad(n - 1) THEN "false" ELSE IF Good(n - 1) THEN "true" ELSE "unknown"
    BY <1>10
  <2> HIDE DEF Bad, Good
  <2>6. st[n] = IF Bad(n) THEN "false" ELSE IF Good(n) THEN "true" ELSE "unknown"
    BY <2>3, <2>4, <2>5 DEF AfterMark
  <2>7. QED
    BY <2>1, <2>6
<1>11. N \in G
  <2> HIDE DEF G, N
  <2>1. \A n \in 0..N : n \in G
    BY <1>1, <1>9, <1>10, UpFromZero
  <2>2. QED
    BY <2>1, <1>1
<1>12. QED
  BY <1>7, <1>11

LEMMA BadgeRight == DecideBadge => PoliciesInv'
<1> SUFFICES ASSUME DecideBadge PROVE PoliciesInv'
  OBVIOUS
<1>0. PICK marks \in SeqOf(VerifyMarks, MarksMax) :
        decided' = [about |-> "badge", marks |-> marks, badge |-> computeVerificationStatus(marks)]
  BY DEF DecideBadge
<1>1. PICK badge : badge = computeVerificationStatus(marks) /\ decided' = [about |-> "badge", marks |-> marks, badge |-> badge]
  BY <1>0
<1>2. decided'.about = "badge" /\ decided'.marks = marks /\ decided'.badge = badge
  BY <1>1
<1>3. marks \in Seq(VerifyMarks)
  BY SeqOfIsSeq, PoliciesAssumption DEF PoliciesAssumption
<1>4. ToSet(marks) = {marks[i] : i \in 1..Len(marks)}
  BY <1>3 DEF ToSet
<1> DEFINE counting == {c \in ToSet(marks) : Counts(c)}
<1>5. \A m : (\E c \in counting : c.mark = m) <=> \E i \in 1..Len(marks) : Counts(marks[i]) /\ marks[i].mark = m
  BY <1>4
<1>6. badge = IF \E c \in counting : c.mark = "mismatch" THEN "false"
              ELSE IF \E c \in counting : c.mark = "verified" THEN "true" ELSE "unknown"
  BY <1>1, <1>3, <1>5, BadgeIs
<1>7. BadgeSound'
  BY <1>2, <1>6 DEF BadgeSound
<1>8. StaysInside' /\ NothingWidened' /\ PicksSound' /\ WallSound'
  BY <1>2 DEF StaysInside, NothingWidened, PicksSound, WallSound
<1>9. QED
  BY <1>7, <1>8 DEF PoliciesInv

\* The states of the screen after each segment.
ScreenRun(f, cmd, lifted, m) ==
  /\ f = [n \in 0..m |-> f[n]] /\ f[0] = [cwd |-> Workdir, hit |-> "none"]
  /\ \A n \in 1..m : f[n] = Screen(lifted, f[n - 1], cmd[n])
LEMMA ScreenWalks ==
  ASSUME NEW cmd, NEW lifted, NEW N \in Nat
  PROVE  \E f : ScreenRun(f, cmd, lifted, N)
<1> DEFINE Upto(f, m) == ScreenRun(f, cmd, lifted, m)
           good == {m \in 0..N : \E f : Upto(f, m)}
<1>1. 0 \in good
  <2> DEFINE f == [n \in 0..0 |-> [cwd |-> Workdir, hit |-> "none"]]
  <2>1. Upto(f, 0)
    BY DEF ScreenRun
  <2> HIDE DEF f, Upto
  <2>2. QED
    BY <2>1
<1>2. ASSUME NEW m \in 1..N, m - 1 \in good PROVE m \in good
  <2>1. PICK f : Upto(f, m - 1)
    BY <1>2
  <2> DEFINE new == Screen(lifted, f[m - 1], cmd[m])
             g == [n \in 0..m |-> IF n = m THEN new ELSE f[n]]
  <2>2. g = [n \in 0..m |-> g[n]] /\ g[m] = new /\ (\A n \in 0..(m - 1) : g[n] = f[n])
    <3> HIDE DEF new
    <3>1. QED
      OBVIOUS
  <2>3. m - 1 \in 0..(m - 1) /\ 0 \in 0..(m - 1) /\ \A n \in 1..m : n - 1 \in 0..(m - 1) /\ (n = m \/ n \in 1..(m - 1))
    OBVIOUS
  <2>4. \A n \in 1..(m - 1) : n \in 0..(m - 1)
    OBVIOUS
  <2> HIDE DEF g
  <2>5. g[0] = [cwd |-> Workdir, hit |-> "none"]
    BY <2>1, <2>2, <2>3 DEF ScreenRun
  <2>6. ASSUME NEW n \in 1..m PROVE g[n] = Screen(lifted, g[n - 1], cmd[n])
    <3>1. g[n - 1] = f[n - 1]
      BY <2>2, <2>3
    <3>2. CASE n = m
      BY <3>1, <3>2, <2>2
    <3>3. CASE n # m
      BY <3>1, <3>3, <2>1, <2>2, <2>3, <2>4 DEF ScreenRun
    <3>4. QED
      BY <3>2, <3>3
  <2>7. Upto(g, m)
    BY <2>2, <2>5, <2>6 DEF ScreenRun
  <2> HIDE DEF Upto
  <2>8. QED
    BY <2>7
<1>3. N \in good
  <2> HIDE DEF good
  <2>1. QED
    BY <1>1, <1>2, UpFromZero
<1>4. QED
  BY <1>3

ShellAfter(dir, s) == IF s.op = "cd" THEN resolveTarget(s.path, dir) ELSE dir

\* Where the shell is before each segment.
LEMMA ShellWalks ==
  ASSUME NEW cmd, NEW N \in Nat
  PROVE  \E f : /\ f = [n \in 0..N |-> f[n]] /\ f[0] = Workdir
                /\ \A n \in 1..N : f[n] = ShellAfter(f[n - 1], cmd[n])
<1> DEFINE Upto(f, m) == /\ f = [n \in 0..m |-> f[n]] /\ f[0] = Workdir
                         /\ \A n \in 1..m : f[n] = ShellAfter(f[n - 1], cmd[n])
           good == {m \in 0..N : \E f : Upto(f, m)}
<1>1. 0 \in good
  <2> DEFINE f == [n \in 0..0 |-> Workdir]
  <2>1. Upto(f, 0)
    OBVIOUS
  <2> HIDE DEF f, Upto
  <2>2. QED
    BY <2>1
<1>2. ASSUME NEW m \in 1..N, m - 1 \in good PROVE m \in good
  <2>1. PICK f : Upto(f, m - 1)
    BY <1>2
  <2> DEFINE new == ShellAfter(f[m - 1], cmd[m])
             g == [n \in 0..m |-> IF n = m THEN new ELSE f[n]]
  <2>2. g = [n \in 0..m |-> g[n]] /\ g[m] = new /\ (\A n \in 0..(m - 1) : g[n] = f[n])
    <3> HIDE DEF new
    <3>1. QED
      OBVIOUS
  <2>3. m - 1 \in 0..(m - 1) /\ 0 \in 0..(m - 1) /\ \A n \in 1..m : n - 1 \in 0..(m - 1) /\ (n = m \/ n \in 1..(m - 1))
    OBVIOUS
  <2>4. \A n \in 1..(m - 1) : n \in 0..(m - 1)
    OBVIOUS
  <2> HIDE DEF g
  <2>5. g[0] = Workdir
    BY <2>1, <2>2, <2>3
  <2>6. ASSUME NEW n \in 1..m PROVE g[n] = ShellAfter(g[n - 1], cmd[n])
    <3>1. g[n - 1] = f[n - 1]
      BY <2>2, <2>3
    <3>2. CASE n = m
      BY <3>1, <3>2, <2>2
    <3>3. CASE n # m
      BY <3>1, <3>3, <2>1, <2>2, <2>3, <2>4
    <3>4. QED
      BY <3>2, <3>3
  <2>7. Upto(g, m)
    BY <2>2, <2>5, <2>6
  <2> HIDE DEF Upto
  <2>8. QED
    BY <2>7
<1>3. N \in good
  <2> HIDE DEF good
  <2>1. QED
    BY <1>1, <1>2, UpFromZero
<1>4. QED
  BY <1>3

LEMMA ShellAtIs ==
  ASSUME NEW cmd, NEW i \in Nat, i # 0
  PROVE  \E dir : /\ ShellAt(cmd, i) = dir[i - 1] /\ dir[0] = Workdir
                  /\ \A n \in 1..(i - 1) : dir[n] = ShellAfter(dir[n - 1], cmd[n])
<1> DEFINE Is(g) == g = [n \in 0..(i - 1) |->
                          IF n = 0 THEN Workdir ELSE IF cmd[n].op = "cd" THEN resolveTarget(cmd[n].path, g[n - 1]) ELSE g[n - 1]]
           dir == CHOOSE g : Is(g)
<1>1. i - 1 \in Nat /\ 0 \in 0..(i - 1) /\ \A n \in 0..(i - 1) : n = 0 \/ n \in 1..(i - 1)
  OBVIOUS
<1>2. PICK f : f = [n \in 0..(i - 1) |-> f[n]] /\ f[0] = Workdir /\ \A n \in 1..(i - 1) : f[n] = ShellAfter(f[n - 1], cmd[n])
  BY <1>1, ShellWalks
<1>3. Is(f)
  <2>1. \A n \in 0..(i - 1) :
          f[n] = IF n = 0 THEN Workdir ELSE IF cmd[n].op = "cd" THEN resolveTarget(cmd[n].path, f[n - 1]) ELSE f[n - 1]
    BY <1>1, <1>2 DEF ShellAfter
  <2>2. QED
    BY <1>2, <2>1
<1>4. ShellAt(cmd, i) = dir[i - 1] /\ Is(dir)
  <2>1. ShellAt(cmd, i) = dir[i - 1]
    BY DEF ShellAt
  <2> HIDE DEF Is
  <2>2. Is(dir)
    BY <1>3
  <2>3. QED
    BY <2>1, <2>2
<1>5. \A n \in 0..(i - 1) :
        dir[n] = IF n = 0 THEN Workdir ELSE IF cmd[n].op = "cd" THEN resolveTarget(cmd[n].path, dir[n - 1]) ELSE dir[n - 1]
  <2> HIDE DEF dir
  <2>1. QED
    BY <1>4
<1> HIDE DEF dir, Is
<1>6. \A n \in 1..(i - 1) : n \in 0..(i - 1) /\ n # 0
  OBVIOUS
<1>7. dir[0] = Workdir /\ \A n \in 1..(i - 1) : dir[n] = ShellAfter(dir[n - 1], cmd[n])
  BY <1>1, <1>5, <1>6 DEF ShellAfter
<1>8. QED
  BY <1>4, <1>7

\* A segment of a command that passes has moved the shell, or met no rule from where the shell is.
LEMMA ScreenGives ==
  ASSUME NEW lifted, NEW s, NEW c, NEW h, NEW st, st = [cwd |-> c, hit |-> h]
  PROVE  /\ Screen(lifted, st, s) = [cwd |-> Screen(lifted, st, s).cwd, hit |-> Screen(lifted, st, s).hit]
         /\ h # "none" => Screen(lifted, st, s) = st
         /\ h = "none" => Screen(lifted, st, s).cwd = ShellAfter(c, s)
         /\ h = "none" /\ Screen(lifted, st, s).hit = "none" /\ "rm-outside" \notin lifted /\ s.op = "rm" =>
              strictlyInside(resolveTarget(s.path, c), Workdir)
<1>1. st.cwd = c /\ st.hit = h
  OBVIOUS
<1> PICK moved : moved = resolveTarget(s.path, c)
  OBVIOUS
<1> PICK r : r = Rule(s, c)
  OBVIOUS
<1>2. s.op = "rm" /\ ~strictlyInside(moved, Workdir) => r = "rm-outside"
  BY DEF Rule
<1>3. Screen(lifted, st, s) =
        IF h # "none" THEN [cwd |-> c, hit |-> h]
        ELSE IF s.op = "cd" THEN [cwd |-> moved, hit |-> h]
        ELSE IF r \in lifted THEN [cwd |-> c, hit |-> h] ELSE [cwd |-> c, hit |-> r]
  <2>1. [st EXCEPT !.cwd = moved] = [cwd |-> moved, hit |-> h]
    OBVIOUS
  <2>2. [st EXCEPT !.hit = r] = [cwd |-> c, hit |-> r]
    OBVIOUS
  <2>3. [st EXCEPT !.cwd = resolveTarget(s.path, @)] = [cwd |-> moved, hit |-> h]
    BY <1>1
  <2>4. Screen(lifted, st, s) =
          IF st.hit # "none" THEN st
          ELSE IF s.op = "cd" THEN [st EXCEPT !.cwd = resolveTarget(s.path, @)]
          ELSE IF Rule(s, st.cwd) \in lifted THEN st ELSE [st EXCEPT !.hit = Rule(s, st.cwd)]
    BY DEF Screen
  <2>5. QED
    BY <1>1, <2>2, <2>3, <2>4
<1>4. QED
  BY <1>1, <1>2, <1>3 DEF ShellAfter

\* What passes removes nothing outside, from where the shell is by then.
LEMMA PassedStaysInside ==
  ASSUME NEW S, NEW cmd \in Seq(S), NEW lifted, "rm-outside" \notin lifted, commandRisk(cmd, lifted) = "none",
         NEW i \in DOMAIN cmd, cmd[i].op = "rm"
  PROVE  strictlyInside(resolveTarget(cmd[i].path, ShellAt(cmd, i)), Workdir)
<1> DEFINE N == Len(cmd)
           Is(g) == g = [n \in 0..N |-> IF n = 0 THEN [cwd |-> Workdir, hit |-> "none"] ELSE Screen(lifted, g[n - 1], cmd[n])]
           st == CHOOSE g : Is(g)
<1>1. N \in Nat /\ i \in 1..N /\ i \in Nat /\ i # 0 /\ i - 1 \in 0..N /\ \A n \in 0..N : n = 0 \/ n \in 1..N
  OBVIOUS
<1>2. PICK f : ScreenRun(f, cmd, lifted, N)
  <2> HIDE DEF N
  <2>1. QED
    BY <1>1, ScreenWalks
<1>3. Is(f)
  <2>1. \A n \in 0..N : f[n] = IF n = 0 THEN [cwd |-> Workdir, hit |-> "none"] ELSE Screen(lifted, f[n - 1], cmd[n])
    BY <1>1, <1>2 DEF ScreenRun
  <2>2. QED
    BY <1>2, <2>1 DEF ScreenRun
<1>4. st[N].hit = "none" /\ Is(st)
  <2>1. commandRisk(cmd, lifted) = "curl-pipe" \/ commandRisk(cmd, lifted) = st[N].hit
    BY DEF commandRisk
  <2> HIDE DEF Is
  <2>2. Is(st)
    BY <1>3
  <2> HIDE DEF st
  <2>3. QED
    BY <2>1, <2>2
<1>5. \A n \in 0..N : st[n] = IF n = 0 THEN [cwd |-> Workdir, hit |-> "none"] ELSE Screen(lifted, st[n - 1], cmd[n])
  <2> HIDE DEF st
  <2>1. QED
    BY <1>4
<1> HIDE DEF st, Is
<1>6. st[0] = [cwd |-> Workdir, hit |-> "none"] /\ \A n \in 1..N : st[n] = Screen(lifted, st[n - 1], cmd[n])
  <2>1. 0 \in 0..N /\ \A n \in 1..N : n \in 0..N /\ n # 0
    BY <1>1
  <2>2. QED
    BY <1>5, <2>1
<1> HIDE DEF N
<1> DEFINE W == {n \in 0..N : st[n] = [cwd |-> st[n].cwd, hit |-> st[n].hit]}
<1>7. \A n \in 0..N : n \in W
  <2>1. 0 \in W
    BY <1>1, <1>6
  <2>2. ASSUME NEW n \in 1..N, n - 1 \in W PROVE n \in W
    <3>1. PICK c, h : st[n - 1] = [cwd |-> c, hit |-> h]
      BY <2>2
    <3>2. st[n] = Screen(lifted, st[n - 1], cmd[n]) /\ n \in 0..N
      BY <1>1, <1>6
    <3>3. st[n] = [cwd |-> st[n].cwd, hit |-> st[n].hit]
      BY <3>1, <3>2, ScreenGives
    <3>4. QED
      BY <3>2, <3>3
  <2> HIDE DEF W
  <2>3. QED
    BY <1>1, <2>1, <2>2, UpFromZero
<1>8. \A n \in 1..N :
        /\ st[n - 1].hit # "none" => st[n].hit # "none"
        /\ st[n - 1].hit = "none" => st[n].cwd = ShellAfter(st[n - 1].cwd, cmd[n])
        /\ st[n - 1].hit = "none" /\ st[n].hit = "none" /\ cmd[n].op = "rm" =>
             strictlyInside(resolveTarget(cmd[n].path, st[n - 1].cwd), Workdir)
  <2> SUFFICES ASSUME NEW n \in 1..N
               PROVE  /\ st[n - 1].hit # "none" => st[n].hit # "none"
                      /\ st[n - 1].hit = "none" => st[n].cwd = ShellAfter(st[n - 1].cwd, cmd[n])
                      /\ st[n - 1].hit = "none" /\ st[n].hit = "none" /\ cmd[n].op = "rm" =>
                           strictlyInside(resolveTarget(cmd[n].path, st[n - 1].cwd), Workdir)
    OBVIOUS
  <2>1. n - 1 \in 0..N
    BY <1>1
  <2>2. st[n - 1] = [cwd |-> st[n - 1].cwd, hit |-> st[n - 1].hit]
    BY <1>7, <2>1
  <2>3. st[n] = Screen(lifted, st[n - 1], cmd[n])
    BY <1>6
  <2> PICK c, h : c = st[n - 1].cwd /\ h = st[n - 1].hit
    OBVIOUS
  <2>4. /\ h # "none" => Screen(lifted, st[n - 1], cmd[n]) = st[n - 1]
        /\ h = "none" => Screen(lifted, st[n - 1], cmd[n]).cwd = ShellAfter(c, cmd[n])
        /\ h = "none" /\ Screen(lifted, st[n - 1], cmd[n]).hit = "none" /\ cmd[n].op = "rm" =>
             strictlyInside(resolveTarget(cmd[n].path, c), Workdir)
    BY <2>2, ScreenGives
  <2>5. QED
    BY <2>3, <2>4
<1>9. \A n \in 0..N : st[n].hit = "none"
  <2> DEFINE V == {n \in 0..N : st[N - n].hit = "none"}
  <2>1. 0 \in V
    BY <1>1, <1>4
  <2>2. ASSUME NEW n \in 1..N, n - 1 \in V PROVE n \in V
    <3>1. N - n + 1 \in 1..N /\ N - (n - 1) = N - n + 1 /\ (N - n + 1) - 1 = N - n /\ n \in 0..N
      BY <1>1
    <3>2. st[N - n + 1].hit = "none"
      BY <2>2, <3>1
    <3>3. st[N - n].hit = "none"
      BY <1>8, <3>1, <3>2
    <3>4. QED
      BY <3>1, <3>3
  <2>3. \A n \in 0..N : n \in V
    <3> HIDE DEF V
    <3>1. QED
      BY <1>1, <2>1, <2>2, UpFromZero
  <2>4. ASSUME NEW n \in 0..N PROVE st[n].hit = "none"
    <3>1. N - n \in 0..N /\ N - (N - n) = n
      BY <1>1
    <3>2. N - n \in V
      BY <2>3, <3>1
    <3>3. QED
      BY <3>1, <3>2
  <2>5. QED
    BY <2>4
<1>10. PICK dir : /\ ShellAt(cmd, i) = dir[i - 1] /\ dir[0] = Workdir
                  /\ \A n \in 1..(i - 1) : dir[n] = ShellAfter(dir[n - 1], cmd[n])
  BY <1>1, ShellAtIs
<1> DEFINE G == {n \in 0..(i - 1) : st[n].cwd = dir[n]}
<1>11. \A n \in 0..(i - 1) : n \in G
  <2>1. 0 \in G
    BY <1>1, <1>6, <1>10
  <2>2. ASSUME NEW n \in 1..(i - 1), n - 1 \in G PROVE n \in G
    <3>1. n \in 1..N /\ n - 1 \in 0..N /\ n \in 0..(i - 1)
      BY <1>1
    <3>2. st[n].cwd = ShellAfter(st[n - 1].cwd, cmd[n])
      BY <1>8, <1>9, <3>1
    <3>3. st[n].cwd = dir[n]
      BY <1>10, <2>2, <3>2
    <3>4. QED
      BY <3>1, <3>3
  <2> HIDE DEF G
  <2>3. i - 1 \in Nat
    BY <1>1
  <2>4. QED
    BY <2>1, <2>2, <2>3, UpFromZero
<1>12. st[i - 1].cwd = ShellAt(cmd, i)
  <2>1. i - 1 \in 0..(i - 1)
    BY <1>1
  <2>2. QED
    BY <1>10, <1>11, <2>1
<1>13. st[i - 1].hit = "none" /\ st[i].hit = "none"
  <2>1. i \in 0..N
    BY <1>1
  <2>2. QED
    BY <1>1, <1>9, <2>1
<1>14. QED
  BY <1>1, <1>8, <1>12, <1>13

LEMMA CommandRight == DecideCommand => PoliciesInv'
<1> SUFFICES ASSUME DecideCommand PROVE PoliciesInv'
  OBVIOUS
<1>1. PICK cmd \in SeqOf(Segments, SegmentsMax), lifted \in SUBSET {"rm-outside", "curl-pipe"} :
        decided' = [about |-> "command", cmd |-> cmd, lifted |-> lifted, hit |-> commandRisk(cmd, lifted)]
  BY DEF DecideCommand
<1>2. decided'.about = "command" /\ decided'.cmd = cmd /\ decided'.lifted = lifted /\ decided'.hit = commandRisk(cmd, lifted)
  BY <1>1
<1>3. cmd \in Seq(Segments)
  BY SeqOfIsSeq, PoliciesAssumption DEF PoliciesAssumption
<1>4. ASSUME commandRisk(cmd, lifted) = "none", "rm-outside" \notin lifted, NEW i \in DOMAIN cmd, cmd[i].op = "rm"
      PROVE  strictlyInside(resolveTarget(cmd[i].path, ShellAt(cmd, i)), Workdir)
  BY <1>3, <1>4, PassedStaysInside
<1>5. StaysInside'
  BY <1>2, <1>4 DEF StaysInside
<1>6. NothingWidened' /\ PicksSound' /\ BadgeSound' /\ WallSound'
  BY <1>2 DEF NothingWidened, PicksSound, BadgeSound, WallSound
<1>7. QED
  BY <1>5, <1>6 DEF PoliciesInv

LEMMA SeqIs ==
  ASSUME NEW T, NEW n \in Nat, NEW s \in [1..n -> T]
  PROVE  s \in Seq(T) /\ Len(s) = n
OBVIOUS

LEMMA PairIs ==
  ASSUME NEW T, NEW s \in Seq(T), Len(s) = 2
  PROVE  s = <<s[1], s[2]>>
OBVIOUS

\* A filter that keeps the first of a sequence and nothing else.
LEMMA KeepsFirst ==
  ASSUME NEW T, NEW s \in Seq(T), NEW S, Len(s) # 0, s[1] \in S, \A k \in 2..Len(s) : s[k] \notin S
  PROVE  OnlyIn(s, S) = <<s[1]>>
<1> PICK out : out = OnlyIn(s, S)
  OBVIOUS
<1>1. From(out, s, Len(s), S, T)
  BY OnlyInFrom
<1>2. PICK origin \in [1..Len(out) -> 1..Len(s)] :
        /\ \A i \in 1..Len(out) : out[i] = s[origin[i]] /\ out[i] \in S
        /\ \A i, j \in 1..Len(out) : i < j => origin[i] < origin[j]
        /\ \A k \in 1..Len(s) : s[k] \in S => \E i \in 1..Len(out) : origin[i] = k
  BY <1>1 DEF From
<1>3. out \in Seq(T) /\ Len(out) \in Nat /\ Len(s) \in Nat /\ 1 \in 1..Len(s)
  BY <1>1 DEF From
<1>4. \A i \in 1..Len(out) : origin[i] = 1
  BY <1>2, <1>3
<1>5. Len(out) # 0
  BY <1>2, <1>3
<1>6. ~(2 <= Len(out))
  <2>1. ASSUME 2 <= Len(out) PROVE FALSE
    <3>1. 1 \in 1..Len(out) /\ 2 \in 1..Len(out)
      BY <1>3, <2>1
    <3>2. origin[1] < origin[2]
      BY <1>2, <3>1
    <3>3. QED
      BY <1>4, <3>1, <3>2
  <2>2. QED
    BY <2>1
<1>7. Len(out) = 1 /\ out[1] = s[1]
  <2>1. Len(out) = 1
    <3> PICK m : m = Len(out)
      OBVIOUS
    <3>1. m \in Nat /\ m # 0 /\ ~(2 <= m)
      BY <1>3, <1>5, <1>6
    <3>2. m = 1
      BY <3>1
    <3>3. QED
      BY <3>2
  <2>2. QED
    BY <1>2, <1>4, <2>1
<1>8. QED
  BY <1>3, <1>7

\* A filter that keeps the first and the last and nothing else.
LEMMA KeepsEnds ==
  ASSUME NEW T, NEW s \in Seq(T), NEW S, Len(s) >= 2, s[1] \in S, s[Len(s)] \in S,
         \A k \in 2..(Len(s) - 1) : s[k] \notin S
  PROVE  OnlyIn(s, S) = <<s[1], s[Len(s)]>>
<1> PICK out : out = OnlyIn(s, S)
  OBVIOUS
<1>1. From(out, s, Len(s), S, T)
  BY OnlyInFrom
<1>2. PICK origin \in [1..Len(out) -> 1..Len(s)] :
        /\ \A i \in 1..Len(out) : out[i] = s[origin[i]] /\ out[i] \in S
        /\ \A i, j \in 1..Len(out) : i < j => origin[i] < origin[j]
        /\ \A k \in 1..Len(s) : s[k] \in S => \E i \in 1..Len(out) : origin[i] = k
  BY <1>1 DEF From
<1> PICK n : n = Len(s)
  OBVIOUS
<1> PICK m : m = Len(out)
  OBVIOUS
<1>3. out \in Seq(T) /\ m \in Nat /\ n \in Nat /\ 1 \in 1..n /\ n \in 1..n /\ n >= 2
  BY <1>1 DEF From
<1>4. \A i \in 1..m : origin[i] \in 1..n /\ (origin[i] = 1 \/ origin[i] = n)
  <2>1. \A i \in 1..m : origin[i] \in 1..n /\ s[origin[i]] \in S
    BY <1>2
  <2>2. \A k \in 1..n : k = 1 \/ k = n \/ k \in 2..(n - 1)
    BY <1>3
  <2>3. QED
    BY <2>1, <2>2
<1>5. PICK i \in 1..m : origin[i] = 1
  BY <1>2, <1>3
<1>6. PICK j \in 1..m : origin[j] = n
  BY <1>2, <1>3
<1>7. i # j /\ i \in Nat /\ j \in Nat /\ i <= m /\ j <= m /\ 1 <= i /\ 1 <= j /\ 1 \in 1..m
  BY <1>3, <1>5, <1>6
<1>8. i = 1
  <2>1. ASSUME 1 < i PROVE FALSE
    <3>1. origin[1] < origin[i]
      BY <1>2, <1>5, <1>7, <2>1
    <3>2. QED
      BY <1>3, <1>4, <1>5, <1>7, <3>1
  <2>2. QED
    BY <1>7, <2>1
<1>9. \A k \in 1..m : ~(j < k)
  <2>1. ASSUME NEW k \in 1..m, j < k PROVE FALSE
    <3>1. origin[j] < origin[k]
      BY <1>2, <1>6, <2>1
    <3>2. QED
      BY <1>3, <1>4, <1>6, <3>1
  <2>2. QED
    BY <2>1
<1>10. j = 2
  <2>1. ASSUME 2 < j PROVE FALSE
    <3>1. 2 \in 1..m
      BY <1>3, <1>7, <2>1
    <3>2. origin[1] < origin[2] /\ origin[2] < origin[j]
      BY <1>2, <1>6, <1>7, <2>1, <3>1
    <3>3. QED
      BY <1>3, <1>4, <1>5, <1>6, <1>8, <3>1, <3>2
  <2>2. QED
    BY <1>7, <1>8, <2>1
<1>11. m = 2
  <2>1. m \in 1..m
    BY <1>3, <1>7
  <2>2. QED
    BY <1>3, <1>7, <1>9, <1>10, <2>1
<1>12. out[1] = s[1] /\ out[2] = s[n]
  BY <1>2, <1>5, <1>6, <1>8, <1>10, <1>11
<1>13. out = <<out[1], out[2]>>
  BY <1>3, <1>11, PairIs
<1>14. QED
  BY <1>12, <1>13

Blank == <<"blank", "">>
Kept == {l \in BodyLines : l[1] # "blank"}

\* A match reads over blank lines, to a line that is not or to the end.
LEMMA ReachIs ==
  ASSUME NEW b \in Seq(BodyLines), NEW i \in 1..Len(b)
  PROVE  /\ Reach(b, i) \in i..Len(b)
         /\ b[i][2] # "" => Reach(b, i) = i
         /\ \A k \in (i + 1)..Reach(b, i) : k # Reach(b, i) => b[k][1] = "blank"
<1> DEFINE later == {j \in (i + 1)..Len(b) : b[j][1] # "blank"}
           next == CHOOSE j \in later : \A k \in later : j <= k
<1> PICK r : r = Reach(b, i)
  OBVIOUS
<1> PICK n : n = Len(b)
  OBVIOUS
<1>1. n \in Nat /\ i \in Nat /\ i \in 1..n /\ n \in i..n /\ i \in i..n /\ later \subseteq Nat
  OBVIOUS
<1>2. r = IF b[i][2] # "" THEN i ELSE IF later = {} THEN Len(b) ELSE next
  BY DEF Reach
<1>3. ASSUME later # {} PROVE next \in later /\ \A k \in later : next <= k
  <2> HIDE DEF later
  <2>1. \E j \in later : \A k \in later : j <= k
    BY <1>1, <1>3, LeastOf
  <2>2. QED
    BY <2>1
<1> HIDE DEF next
<1>4. CASE b[i][2] # ""
  <2>1. r = i
    BY <1>2, <1>4
  <2> HIDE DEF later
  <2>2. \A k \in (i + 1)..i : FALSE
    BY <1>1
  <2>3. QED
    BY <1>1, <1>4, <2>1, <2>2
<1>5. CASE b[i][2] = "" /\ later = {}
  <2>1. r = n /\ \A k \in (i + 1)..n : b[k][1] = "blank"
    BY <1>2, <1>5
  <2>2. QED
    BY <1>1, <1>5, <2>1
<1>6. CASE b[i][2] = "" /\ later # {}
  <2>1. r = next /\ next \in (i + 1)..n /\ \A k \in later : next <= k
    BY <1>2, <1>3, <1>6
  <2>2. ASSUME NEW k \in (i + 1)..next, k # next PROVE b[k][1] = "blank"
    <3>1. k \in (i + 1)..n /\ ~(next <= k)
      BY <1>1, <2>1, <2>2
    <3>2. k \notin later
      BY <2>1, <3>1
    <3>3. QED
      BY <3>1, <3>2
  <2>3. next \in i..n
    BY <1>1, <2>1
  <2> HIDE DEF later
  <2>4. QED
    BY <1>6, <2>1, <2>2, <2>3
<1>7. QED
  BY <1>4, <1>5, <1>6

\* The text of a match: the directive, and the line it reaches when that has something in it.
MatchText(b, i) == OnlyIn(SubSeq(b, i, Reach(b, i)), Kept)
LEMMA MatchTextIs ==
  ASSUME NEW b \in Seq(BodyLines), NEW i \in 1..Len(b), b[i][1] = "dir"
  PROVE  MatchText(b, i) = IF Reach(b, i) # i /\ b[Reach(b, i)][1] # "blank" THEN <<b[i], b[Reach(b, i)]>> ELSE <<b[i]>>
<1> PICK r : r = Reach(b, i)
  OBVIOUS
<1>1. r \in i..Len(b) /\ \A k \in (i + 1)..r : k # r => b[k][1] = "blank"
  BY ReachIs
<1> PICK s : s = SubSeq(b, i, r)
  OBVIOUS
<1> PICK n : n = r - i + 1
  OBVIOUS
<1>2. i \in Nat /\ r \in Nat /\ n \in Nat /\ n # 0 /\ i >= 1 /\ n = r - i + 1 /\ \A k \in 1..Len(b) : b[k] \in BodyLines
  BY <1>1
<1>3. s \in Seq(BodyLines) /\ Len(s) = n /\ \A k \in 1..n : s[k] = b[i + k - 1]
  <2>1. \A k \in 1..n : i + k - 1 \in 1..Len(b)
    BY <1>1, <1>2
  <2>2. s = [k \in 1..n |-> b[i + k - 1]]
    BY <1>1, <1>2
  <2>3. \A k \in 1..n : b[i + k - 1] \in BodyLines
    BY <1>2, <2>1
  <2>4. s \in [1..n -> BodyLines]
    BY <2>2, <2>3
  <2>5. s \in Seq(BodyLines) /\ Len(s) = n
    BY <1>2, <2>4, SeqIs
  <2>6. QED
    BY <2>2, <2>5
<1>4. s[1] = b[i] /\ s[n] = b[r] /\ b[i] \in Kept /\ b[r] \in BodyLines
  <2>1. 1 \in 1..n /\ n \in 1..n /\ i + 1 - 1 = i /\ i + n - 1 = r /\ r \in 1..Len(b)
    BY <1>1, <1>2
  <2>2. s[1] = b[i] /\ s[n] = b[r]
    BY <1>3, <2>1
  <2>3. b[i] \in Kept
    BY <1>2 DEF Kept
  <2>4. QED
    BY <1>2, <2>1, <2>2, <2>3
<1>5. \A k \in 2..n : k # n => s[k] \notin Kept
  <2>1. ASSUME NEW k \in 2..n, k # n PROVE s[k][1] = "blank"
    <3>1. i + k - 1 \in (i + 1)..r /\ i + k - 1 # r /\ k \in 1..n
      BY <1>1, <1>2, <2>1
    <3>2. QED
      BY <1>1, <1>3, <3>1
  <2>2. QED
    BY <2>1 DEF Kept
<1>6. MatchText(b, i) = OnlyIn(s, Kept)
  BY DEF MatchText
<1>7. CASE r # i /\ b[r][1] # "blank"
  <2>0. n >= 2 /\ \A k \in 2..(n - 1) : k \in 2..n /\ k # n
    BY <1>1, <1>2, <1>7
  <2>1. b[r] \in Kept
    BY <1>4, <1>7 DEF Kept
  <2>2. Len(s) >= 2 /\ s[1] \in Kept /\ s[Len(s)] \in Kept /\ \A k \in 2..(Len(s) - 1) : s[k] \notin Kept
    BY <1>3, <1>4, <1>5, <2>0, <2>1
  <2>3. OnlyIn(s, Kept) = <<s[1], s[Len(s)]>>
    BY <1>3, <2>2, KeepsEnds
  <2>4. QED
    BY <1>3, <1>4, <1>6, <1>7, <2>3
<1>8. CASE ~(r # i /\ b[r][1] # "blank")
  <2>1. \A k \in 2..n : s[k] \notin Kept
    <3>1. ASSUME NEW k \in 2..n, k = n PROVE s[k] \notin Kept
      <4>1. r # i
        BY <1>2, <3>1
      <4>2. QED
        BY <1>4, <1>8, <3>1, <4>1 DEF Kept
    <3>2. QED
      BY <1>5, <3>1
  <2>2. Len(s) # 0 /\ s[1] \in Kept /\ \A k \in 2..Len(s) : s[k] \notin Kept
    BY <1>2, <1>3, <1>4, <2>1
  <2>3. OnlyIn(s, Kept) = <<s[1]>>
    BY <1>3, <2>2, KeepsFirst
  <2>4. QED
    BY <1>4, <1>6, <1>8, <2>3
<1>9. QED
  BY <1>7, <1>8

\* The matches start at directives, and what is no part of a match is no directive.
LEMMA StartsAre ==
  ASSUME NEW b \in Seq(BodyLines)
  PROVE  /\ Starts(b) \subseteq 1..Len(b) /\ \A i \in Starts(b) : b[i][1] = "dir"
         /\ \A k \in 1..Len(b) : b[k][1] = "dir" => \E i \in Starts(b) : k \in i..Reach(b, i)
<1> DEFINE N == Len(b)
           D == [at : SUBSET (1..N), to : 0..N]
           first == [at |-> {}, to |-> 0]
           After(q, n) == IF n > q.to /\ b[n][1] = "dir" THEN [at |-> q.at \cup {n}, to |-> Reach(b, n)] ELSE q
           next == [x \in D \X (1..N) |-> After(x[1], x[2])]
           Is(g) == g = [n \in 0..N |->
                          IF n = 0 THEN [at |-> {}, to |-> 0]
                          ELSE IF n > g[n - 1].to /\ b[n][1] = "dir" THEN [at |-> g[n - 1].at \cup {n}, to |-> Reach(b, n)] ELSE g[n - 1]]
           st == CHOOSE g : Is(g)
<1>1. N \in Nat /\ \A n \in 1..N : n - 1 \in 0..N /\ n \in 0..N /\ n # 0
  OBVIOUS
<1>2. \A n \in 1..N : Reach(b, n) \in n..N
  BY ReachIs
<1>3. \A q \in D, n \in 1..N : After(q, n) \in D
  <2>1. \A n \in 1..N : Reach(b, n) \in 0..N
    BY <1>1, <1>2
  <2> HIDE DEF N
  <2>2. QED
    BY <2>1
<1>4. next \in [D \X (1..N) -> D] /\ \A q \in D, n \in 1..N : next[<<q, n>>] = After(q, n)
  <2> HIDE DEF After, D, N
  <2>1. QED
    BY <1>3
<1>5. PICK f : Walk(f, N, D, first, next)
  <2>1. first \in D
    BY <1>1
  <2> HIDE DEF next, N, D, first
  <2>2. QED
    BY <1>1, <1>4, <2>1, WalkThere
<1> HIDE DEF next
<1>6. \A n \in 1..N : f[n - 1] \in D /\ f[n] = After(f[n - 1], n)
  <2> HIDE DEF D, N, After, first
  <2>1. QED
    BY <1>1, <1>4, <1>5 DEF Walk
<1>7. Is(f)
  <2>1. \A n \in 0..N : n = 0 \/ n \in 1..N
    BY <1>1
  <2>2. f[0] = first /\ f = [n \in 0..N |-> f[n]]
    BY <1>5 DEF Walk
  <2>3. \A n \in 0..N : f[n] = IF n = 0 THEN [at |-> {}, to |-> 0]
                               ELSE IF n > f[n - 1].to /\ b[n][1] = "dir" THEN [at |-> f[n - 1].at \cup {n}, to |-> Reach(b, n)] ELSE f[n - 1]
    <3> HIDE DEF D, N
    <3>1. QED
      BY <1>6, <2>1, <2>2
  <2> HIDE DEF D, N, After, first
  <2>4. QED
    BY <2>2, <2>3
<1>8. Starts(b) = st[N].at /\ Is(st)
  <2>1. Starts(b) = st[N].at
    BY DEF Starts
  <2> HIDE DEF Is
  <2>2. Is(st)
    BY <1>7
  <2>3. QED
    BY <2>1, <2>2
<1> HIDE DEF st
<1>9. st[0] = first /\ \A n \in 1..N : st[n] = After(st[n - 1], n)
  <2>1. \A n \in 0..N : st[n] = IF n = 0 THEN [at |-> {}, to |-> 0]
                                ELSE IF n > st[n - 1].to /\ b[n][1] = "dir" THEN [at |-> st[n - 1].at \cup {n}, to |-> Reach(b, n)] ELSE st[n - 1]
    BY <1>8
  <2>2. 0 \in 0..N
    BY <1>1
  <2> HIDE DEF N
  <2>3. QED
    BY <1>1, <2>1, <2>2
<1> HIDE DEF Is
<1> DEFINE Good(q, n) == /\ q.at \subseteq 1..n /\ q.to \in 0..N
                         /\ \A i \in q.at : b[i][1] = "dir"
                         /\ q.to # 0 => \E i \in q.at : q.to = Reach(b, i)
                         /\ \A k \in 1..n : b[k][1] = "dir" => \E i \in q.at : k \in i..Reach(b, i)
           G == {n \in 0..N : Good(st[n], n)}
<1>10. 0 \in G
  BY <1>1, <1>9
<1>11. ASSUME NEW n \in 1..N, n - 1 \in G PROVE n \in G
  <2> PICK q : q = st[n - 1]
    OBVIOUS
  <2>1. Good(q, n - 1)
    BY <1>11
  <2>2. st[n] = After(q, n)
    BY <1>9
  <2>3. n \in Nat /\ n >= 1 /\ n \in 1..n /\ \A k \in 1..n : k = n \/ k \in 1..(n - 1)
    BY <1>1
  <2>4. \A k \in 1..(n - 1) : k \in 1..n
    BY <2>3
  <2>5. CASE n > q.to /\ b[n][1] = "dir"
    <3>1. st[n].at = q.at \cup {n} /\ st[n].to = Reach(b, n)
      BY <2>2, <2>5
    <3>2. Reach(b, n) \in n..N /\ n \in n..Reach(b, n) /\ Reach(b, n) \in 0..N
      BY <1>1, <1>2, <2>3
    <3>3. st[n].at \subseteq 1..n /\ \A i \in st[n].at : b[i][1] = "dir"
      BY <2>1, <2>3, <2>4, <2>5, <3>1
    <3>4. \E i \in st[n].at : st[n].to = Reach(b, i)
      BY <3>1
    <3>5. \A k \in 1..n : b[k][1] = "dir" => \E i \in st[n].at : k \in i..Reach(b, i)
      BY <2>1, <2>3, <3>1, <3>2
    <3>6. Good(st[n], n)
      BY <3>1, <3>2, <3>3, <3>4, <3>5
    <3> HIDE DEF Good
    <3>7. QED
      BY <1>1, <3>6
  <2>6. CASE ~(n > q.to /\ b[n][1] = "dir")
    <3>1. st[n] = q
      BY <2>2, <2>6
    <3>2. ASSUME b[n][1] = "dir" PROVE \E i \in q.at : n \in i..Reach(b, i)
      <4>1. n <= q.to /\ q.to # 0
        BY <2>1, <2>3, <2>6, <3>2
      <4>2. PICK i \in q.at : q.to = Reach(b, i)
        BY <2>1, <4>1
      <4>3. i \in 1..(n - 1) /\ q.to \in 0..N
        BY <2>1, <4>2
      <4>4. n \in i..Reach(b, i)
        BY <1>1, <2>3, <4>1, <4>2, <4>3
      <4>5. QED
        BY <4>4
    <3>3. q.at \subseteq 1..n /\ \A k \in 1..n : b[k][1] = "dir" => \E i \in q.at : k \in i..Reach(b, i)
      BY <2>1, <2>3, <2>4, <3>2
    <3>4. Good(q, n)
      BY <2>1, <3>3
    <3> HIDE DEF Good
    <3>5. QED
      BY <1>1, <3>1, <3>4
  <2>7. QED
    BY <2>5, <2>6
<1>12. N \in G
  <2> HIDE DEF G, N
  <2>1. \A n \in 0..N : n \in G
    BY <1>1, <1>10, <1>11, UpFromZero
  <2>2. QED
    BY <2>1, <1>1
<1>13. QED
  BY <1>8, <1>12

\* What the pipeline takes is in the texts of the matches: a value is what a match ends in.
Valued(t) == t[1][2] # "" \/ Len(t) = 2
LEMMA ParsedIs ==
  ASSUME NEW b \in Seq(BodyLines)
  PROVE  parsed(b) = {t[Len(t)] : t \in {u \in gateDirectiveLines(b) : Valued(u)}}
<1>1. gateDirectiveLines(b) = {MatchText(b, i) : i \in Starts(b)}
  BY DEF gateDirectiveLines, MatchText, Kept
<1> DEFINE Bears(j) == b[j][2] # "" \/ (Reach(b, j) # j /\ b[Reach(b, j)][1] # "blank")
<1>2. parsed(b) = {b[Reach(b, i)] : i \in {j \in Starts(b) : Bears(j)}}
  BY DEF parsed
<1>3. ASSUME NEW j \in Starts(b)
      PROVE  /\ Bears(j) <=> Valued(MatchText(b, j))
             /\ Bears(j) => MatchText(b, j)[Len(MatchText(b, j))] = b[Reach(b, j)]
  <2>1. j \in 1..Len(b) /\ b[j][1] = "dir"
    BY StartsAre
  <2> PICK r : r = Reach(b, j)
    OBVIOUS
  <2> PICK t : t = MatchText(b, j)
    OBVIOUS
  <2>2. t = IF r # j /\ b[r][1] # "blank" THEN <<b[j], b[r]>> ELSE <<b[j]>>
    BY <2>1, MatchTextIs
  <2>3. b[j][2] # "" => r = j
    BY <2>1, ReachIs
  <2>4. CASE r # j /\ b[r][1] # "blank"
    <3>1. t[1] = b[j] /\ Len(t) = 2 /\ t[2] = b[r]
      BY <2>2, <2>4
    <3>2. Bears(j)
      BY <2>4
    <3>3. Valued(t) /\ t[Len(t)] = b[r]
      BY <3>1 DEF Valued
    <3>4. QED
      BY <3>2, <3>3
  <2>5. CASE ~(r # j /\ b[r][1] # "blank")
    <3>1. t[1] = b[j] /\ Len(t) = 1
      BY <2>2, <2>5
    <3>2. Bears(j) <=> b[j][2] # ""
      BY <2>5
    <3>3. Valued(t) <=> b[j][2] # ""
      BY <3>1 DEF Valued
    <3>4. b[j][2] # "" => t[Len(t)] = b[r]
      BY <2>3, <3>1
    <3>5. QED
      BY <3>2, <3>3, <3>4
  <2>6. QED
    BY <2>4, <2>5
<1> HIDE DEF Bears
<1>4. QED
  BY <1>1, <1>2, <1>3

\* A body that has been stripped has no directive left.
LEMMA StrippedIsClean ==
  ASSUME NEW b \in Seq(BodyLines)
  PROVE  gateDirectiveLines(stripGateDirectives(b)) = {}
<1> PICK c : c = stripGateDirectives(b)
  OBVIOUS
<1> PICK n : n = Len(b)
  OBVIOUS
<1> DEFINE gone == UNION {i..Reach(b, i) : i \in Starts(b)}
<1>1. n \in Nat /\ \A i \in 1..n : b[i] \in BodyLines
  OBVIOUS
<1>2. c = [i \in 1..n |-> IF i \in gone THEN <<"blank", "">> ELSE b[i]]
  BY DEF stripGateDirectives
<1>3. \A k \in 1..n : b[k][1] = "dir" => k \in gone
  <2>1. \A k \in 1..n : b[k][1] = "dir" => \E i \in Starts(b) : k \in i..Reach(b, i)
    BY StartsAre
  <2>2. QED
    BY <2>1
<1> HIDE DEF gone
<1>4. <<"blank", "">> \in BodyLines
  BY DEF BodyLines
<1>5. c \in [1..n -> BodyLines]
  <2>1. \A i \in 1..n : (IF i \in gone THEN <<"blank", "">> ELSE b[i]) \in BodyLines
    BY <1>1, <1>4
  <2>2. QED
    BY <1>2, <2>1
<1>6. c \in Seq(BodyLines) /\ Len(c) = n
  BY <1>1, <1>5, SeqIs
<1>7. ASSUME NEW k \in 1..n PROVE c[k][1] # "dir"
  <2>1. c[k] = IF k \in gone THEN <<"blank", "">> ELSE b[k]
    BY <1>2
  <2>2. CASE k \in gone
    <3> PICK l : l = c[k]
      OBVIOUS
    <3>1. l = <<"blank", "">>
      BY <2>1, <2>2
    <3>2. \A x : <<"blank", x>>[1] = "blank"
      OBVIOUS
    <3>3. <<"blank", "">>[1] = "blank"
      BY <3>2, Zenon
    <3>4. l[1] = "blank"
      BY <3>1, <3>3, Zenon
    <3>5. QED
      BY <3>4
  <2>3. CASE k \notin gone
    BY <1>3, <2>1, <2>3
  <2>4. QED
    BY <2>2, <2>3
<1>8. Starts(c) \subseteq 1..Len(c) /\ \A i \in Starts(c) : c[i][1] = "dir"
  BY <1>6, StartsAre
<1>9. Starts(c) = {}
  BY <1>6, <1>7, <1>8
<1>10. QED
  BY <1>9 DEF gateDirectiveLines

\* What an edit adds without an admin is nothing the pipeline reads.
LEMMA EditRight == DecideEdit => PoliciesInv'
<1> SUFFICES ASSUME DecideEdit PROVE PoliciesInv'
  OBVIOUS
<1>0. PICK before \in SeqOf(BodyLines, BodyLinesMax - 1), after \in SeqOf(BodyLines, BodyLinesMax), admin \in BOOLEAN :
        decided' = [about |-> "edit", before |-> before, after |-> after, admin |-> admin,
                    ok |-> assertDirectivesAllowed(before, after, admin)]
  BY DEF DecideEdit
<1> PICK ok : ok = assertDirectivesAllowed(before, after, admin)
  OBVIOUS
<1>1. decided' = [about |-> "edit", before |-> before, after |-> after, admin |-> admin, ok |-> ok]
  BY <1>0
<1>2. decided'.about = "edit" /\ decided'.before = before /\ decided'.after = after /\ decided'.admin = admin
      /\ decided'.ok = ok
  BY <1>1
<1>3. BodyLinesMax \in Nat /\ BodyLinesMax - 1 \in Nat
  BY PoliciesAssumption DEF PoliciesAssumption
<1>4. before \in Seq(BodyLines) /\ after \in Seq(BodyLines)
  BY <1>3, SeqOfIsSeq
<1>5. ASSUME ok, ~admin PROVE parsed(after) \subseteq parsed(before)
  <2>1. gateDirectiveLines(after) \subseteq gateDirectiveLines(before)
    BY <1>5 DEF assertDirectivesAllowed
  <2>2. /\ parsed(after) = {t[Len(t)] : t \in {u \in gateDirectiveLines(after) : Valued(u)}}
        /\ parsed(before) = {t[Len(t)] : t \in {u \in gateDirectiveLines(before) : Valued(u)}}
    BY <1>4, ParsedIs
  <2>3. QED
    BY <2>1, <2>2
<1>6. gateDirectiveLines(stripGateDirectives(after)) = {}
  BY <1>4, StrippedIsClean
<1>7. NothingWidened'
  <2>1. NothingWidened' <=> (decided'.about = "edit" =>
          /\ decided'.ok /\ ~decided'.admin => parsed(decided'.after) \subseteq parsed(decided'.before)
          /\ gateDirectiveLines(stripGateDirectives(decided'.after)) = {})
    BY DEF NothingWidened
  <2>2. QED
    BY <1>2, <1>5, <1>6, <2>1
<1>8. StaysInside' /\ PicksSound' /\ BadgeSound' /\ WallSound'
  BY <1>2 DEF StaysInside, PicksSound, BadgeSound, WallSound
<1>9. QED
  BY <1>7, <1>8 DEF PoliciesInv

\* A filter that keeps the first of a sequence begins with it.
LEMMA FirstStays ==
  ASSUME NEW T, NEW s \in Seq(T), NEW S, Len(s) # 0, s[1] \in S
  PROVE  OnlyIn(s, S) \in Seq(T) /\ Len(OnlyIn(s, S)) # 0 /\ OnlyIn(s, S)[1] = s[1]
<1> PICK out : out = OnlyIn(s, S)
  OBVIOUS
<1>1. From(out, s, Len(s), S, T)
  BY OnlyInFrom
<1>2. PICK origin \in [1..Len(out) -> 1..Len(s)] :
        /\ \A i \in 1..Len(out) : out[i] = s[origin[i]] /\ out[i] \in S
        /\ \A i, j \in 1..Len(out) : i < j => origin[i] < origin[j]
        /\ \A k \in 1..Len(s) : s[k] \in S => \E i \in 1..Len(out) : origin[i] = k
  BY <1>1 DEF From
<1> PICK m : m = Len(out)
  OBVIOUS
<1>3. out \in Seq(T) /\ m \in Nat /\ 1 \in 1..Len(s)
  BY <1>1 DEF From
<1>4. PICK i \in 1..m : origin[i] = 1
  BY <1>2, <1>3
<1>5. m # 0 /\ 1 \in 1..m /\ (i = 1 \/ 1 < i)
  BY <1>3, <1>4
<1>6. i = 1
  <2>1. ASSUME 1 < i PROVE FALSE
    <3>1. origin[1] < origin[i] /\ origin[1] \in 1..Len(s)
      BY <1>2, <1>4, <1>5, <2>1
    <3>2. QED
      BY <1>4, <3>1
  <2>2. QED
    BY <1>5, <2>1
<1>7. out[1] = s[1]
  BY <1>2, <1>4, <1>5, <1>6
<1>8. QED
  BY <1>3, <1>5, <1>7

LEMMA PutTogether ==
  ASSUME NEW T, NEW s \in Seq(T), NEW t \in Seq(T)
  PROVE  /\ s \o t \in Seq(T) /\ Len(s \o t) = Len(s) + Len(t)
         /\ Len(s) # 0 => Len(s \o t) # 0 /\ (s \o t)[1] = s[1]
<1> PICK r : r = s \o t
  OBVIOUS
<1>1. r \in Seq(T) /\ Len(r) = Len(s) + Len(t) /\ Len(s) \in Nat /\ Len(t) \in Nat
  OBVIOUS
<1>2. Len(s) # 0 => r[1] = s[1]
  BY <1>1
<1>3. QED
  BY <1>1, <1>2

LEMMA PutTogetherTwice ==
  ASSUME NEW T, NEW s \in Seq(T), NEW t \in Seq(T), NEW u \in Seq(T)
  PROVE  (s \o t) \o u = s \o (t \o u)
OBVIOUS

LEMMA OneWord ==
  ASSUME NEW T, NEW w \in T
  PROVE  <<w>> \in Seq(T) /\ <<>> \in Seq(T)
OBVIOUS

LEMMA CutAt ==
  ASSUME NEW T, NEW s \in Seq(T), NEW i \in 1..Len(s)
  PROVE  /\ SubSeq(s, 1, i) \in Seq(T) /\ Len(SubSeq(s, 1, i)) # 0 /\ SubSeq(s, 1, i)[1] = s[1]
         /\ SubSeq(s, i + 1, Len(s)) \in Seq(T)
OBVIOUS

\* What is put before or after a word leaves it in; what is put after leaves what comes first.
LEMMA WordIn ==
  ASSUME NEW T, NEW s \in Seq(T), NEW w \in T, NEW t \in Seq(T), Len(s) # 0
  PROVE  w \in ToSet(s \o <<w>> \o t) /\ (s \o <<w>> \o t)[1] = s[1]
<1> PICK n : n = Len(s)
  OBVIOUS
<1> PICK r : r = s \o <<w>> \o t
  OBVIOUS
<1>1. n \in Nat /\ n # 0 /\ r \in Seq(T) /\ Len(r) = n + 1 + Len(t) /\ Len(t) \in Nat
  OBVIOUS
<1>2. r[n + 1] = w /\ r[1] = s[1]
  BY <1>1
<1>3. n + 1 \in 1..Len(r) /\ DOMAIN r = 1..Len(r)
  BY <1>1
<1>4. w \in ToSet(r)
  BY <1>2, <1>3 DEF ToSet
<1>5. QED
  BY <1>2, <1>4

\* The wall goes around a command once.
LEMMA WalledOnce ==
  ASSUME NEW T, NEW cmd \in Seq(T), Len(cmd) # 0, {"-p", "--restricted", "acceptEdits", "--settings", "--sandbox"} \subseteq T,
         NEW write \in BOOLEAN
  PROVE  /\ wallCmd(wallCmd(cmd, write), write) = wallCmd(cmd, write)
         /\ denyOnlyCmd(denyOnlyCmd(cmd)) = denyOnlyCmd(cmd)
<1>1. ASSUME NEW c, c[1] = "claude", "--restricted" \in ToSet(c) PROVE wallCmd(c, write) = c
  BY <1>1 DEF wallCmd
<1>2. ASSUME NEW c, c[1] = "codex", "--sandbox" \in ToSet(c) PROVE wallCmd(c, write) = c
  BY <1>2 DEF wallCmd
<1>0. /\ "--restricted" \in T /\ "--sandbox" \in T /\ 1 \in DOMAIN cmd
      /\ "-p" \in T /\ "acceptEdits" \in T /\ "--settings" \in T
  <2>1. Len(cmd) \in Nat /\ DOMAIN cmd = 1..Len(cmd)
    OBVIOUS
  <2>2. 1 \in DOMAIN cmd
    BY <2>1
  <2>3. QED
    BY <2>2
<1> PICK walled : walled = wallCmd(cmd, write)
  OBVIOUS
<1>3. ASSUME cmd[1] = "claude", "--restricted" \notin ToSet(cmd) PROVE wallCmd(walled, write) = walled
  <2>1. PICK S : S = ToSet(cmd) \ {"{prompt}"}
    OBVIOUS
  <2>2. PICK kept : kept = OnlyIn(cmd, S)
    OBVIOUS
  <2>3. cmd[1] \in S
    <3>1. cmd[1] \in ToSet(cmd) /\ cmd[1] # "{prompt}"
      BY <1>0, <1>3 DEF ToSet
    <3>2. QED
      BY <2>1, <3>1
  <2>4. kept \in Seq(T) /\ Len(kept) # 0 /\ kept[1] = "claude"
    BY <1>3, <2>2, <2>3, FirstStays
  <2>5. PICK asks : asks = IF "-p" \in ToSet(kept) THEN <<>> ELSE <<"-p">>
    OBVIOUS
  <2>6. PICK edits : edits = IF write THEN <<"acceptEdits">> ELSE <<>>
    OBVIOUS
  <2>7. PICK ends : ends = <<"--settings">>
    OBVIOUS
  <2>8. asks \in Seq(T) /\ edits \in Seq(T) /\ ends \in Seq(T) /\ <<"--restricted">> \in Seq(T)
    BY <1>0, <2>5, <2>6, <2>7, OneWord
  <2>9. PICK front : front = kept \o asks
    OBVIOUS
  <2>10. PICK back : back = edits \o ends
    OBVIOUS
  <2>11. front \in Seq(T) /\ Len(front) # 0 /\ front[1] = "claude" /\ back \in Seq(T)
    BY <2>4, <2>8, <2>9, <2>10, PutTogether
  <2>12. walled = kept \o asks \o <<"--restricted">> \o edits \o ends
    BY <1>3, <2>1, <2>2, <2>5, <2>6, <2>7 DEF wallCmd
  <2>13. walled = front \o <<"--restricted">> \o back
    <3>1. PICK start : start = front \o <<"--restricted">>
      OBVIOUS
    <3>2. start \in Seq(T)
      BY <2>8, <2>11, <3>1, PutTogether
    <3>3. (start \o edits) \o ends = start \o (edits \o ends)
      BY <2>8, <3>2, PutTogetherTwice
    <3>4. QED
      BY <2>9, <2>10, <2>12, <3>1, <3>3
  <2>14. walled[1] = "claude" /\ "--restricted" \in ToSet(walled)
    <3>1. /\ "--restricted" \in ToSet(front \o <<"--restricted">> \o back)
          /\ (front \o <<"--restricted">> \o back)[1] = front[1]
      BY <1>0, <2>11, WordIn
    <3>2. QED
      BY <2>11, <2>13, <3>1, Zenon
  <2>15. QED
    BY <1>1, <2>14
<1>4. ASSUME cmd[1] = "codex", "exec" \in ToSet(cmd), "--sandbox" \notin ToSet(cmd) PROVE wallCmd(walled, write) = walled
  <2> DEFINE execs == {k \in DOMAIN cmd : cmd[k] = "exec"}
             First(k) == cmd[k] = "exec" /\ \A j \in 1..(k - 1) : cmd[j] # "exec"
  <2>1. execs # {} /\ execs \subseteq Nat
    BY <1>4 DEF ToSet
  <2>2. \E k \in DOMAIN cmd : First(k)
    <3>1. PICK k \in execs : \A j \in execs : k <= j
      <4> HIDE DEF execs
      <4>1. QED
        BY <2>1, LeastOf
    <3>2. k \in 1..Len(cmd) /\ k \in Nat /\ Len(cmd) \in Nat
      OBVIOUS
    <3>3. ASSUME NEW j \in 1..(k - 1), cmd[j] = "exec" PROVE FALSE
      <4>1. j \in 1..Len(cmd) /\ ~(k <= j)
        BY <3>2
      <4>2. j \in execs
        BY <3>3, <4>1
      <4>3. QED
        BY <3>1, <4>1, <4>2
    <3>4. First(k)
      BY <3>3
    <3> HIDE DEF First
    <3>5. QED
      BY <3>2, <3>4
  <2>3. PICK i \in DOMAIN cmd : i = CHOOSE k \in DOMAIN cmd : First(k)
    <3> HIDE DEF First
    <3>1. QED
      BY <2>2
  <2>4. walled = SubSeq(cmd, 1, i) \o <<"--sandbox">> \o SubSeq(cmd, i + 1, Len(cmd))
    BY <1>4, <2>3 DEF wallCmd
  <2>5. PICK front : front = SubSeq(cmd, 1, i)
    OBVIOUS
  <2>6. PICK back : back = SubSeq(cmd, i + 1, Len(cmd))
    OBVIOUS
  <2>7. front \in Seq(T) /\ back \in Seq(T) /\ Len(front) # 0 /\ front[1] = "codex"
    BY <1>4, <2>5, <2>6, CutAt
  <2>8. walled[1] = "codex" /\ "--sandbox" \in ToSet(walled)
    <3>1. /\ "--sandbox" \in ToSet(front \o <<"--sandbox">> \o back)
          /\ (front \o <<"--sandbox">> \o back)[1] = front[1]
      BY <1>0, <2>7, WordIn
    <3>2. QED
      BY <2>4, <2>5, <2>6, <2>7, <3>1, Zenon
  <2>9. QED
    BY <1>2, <2>8
<1>5. ASSUME ~(cmd[1] = "claude" /\ "--restricted" \notin ToSet(cmd)),
             ~(cmd[1] = "codex" /\ "exec" \in ToSet(cmd) /\ "--sandbox" \notin ToSet(cmd))
      PROVE  wallCmd(walled, write) = walled
  <2>1. walled = cmd
    BY <1>5 DEF wallCmd
  <2>2. QED
    BY <2>1
<1>6. denyOnlyCmd(denyOnlyCmd(cmd)) = denyOnlyCmd(cmd)
  <2>1. CASE cmd[1] = "claude" /\ "--settings" \notin ToSet(cmd)
    <3>1. PICK r : r = Append(cmd, "--settings")
      OBVIOUS
    <3>2. denyOnlyCmd(cmd) = r
      BY <2>1, <3>1 DEF denyOnlyCmd
    <3>3. r[Len(cmd) + 1] = "--settings" /\ Len(cmd) + 1 \in DOMAIN r
      BY <3>1
    <3>4. "--settings" \in ToSet(r)
      BY <3>3 DEF ToSet
    <3>5. denyOnlyCmd(r) = r
      BY <3>4 DEF denyOnlyCmd
    <3>6. QED
      BY <3>2, <3>5
  <2>2. CASE ~(cmd[1] = "claude" /\ "--settings" \notin ToSet(cmd))
    <3>1. denyOnlyCmd(cmd) = cmd
      BY <2>2 DEF denyOnlyCmd
    <3>2. QED
      BY <3>1
  <2>3. QED
    BY <2>1, <2>2
<1>7. wallCmd(walled, write) = walled
  BY <1>3, <1>4, <1>5
<1>8. QED
  BY <1>6, <1>7

LEMMA WallRight == DecideWall => PoliciesInv'
<1> SUFFICES ASSUME DecideWall PROVE PoliciesInv'
  OBVIOUS
<1>0. PICK program \in {"claude", "codex", "agy"}, words \in SeqOf(WallWords, 2), write \in BOOLEAN, on \in BOOLEAN,
           theirs \in {"none", "malformed", "theirs"}, usual \in {"none", "malformed", "all"} :
        LET cmd == <<program>> \o words IN
        decided' = [about |-> "wall", cmd |-> cmd, write |-> write, on |-> on,
                    walled |-> IF on THEN wallCmd(cmd, write) ELSE denyOnlyCmd(cmd),
                    settings |-> <<theirs, usual>>, allowed |-> loadWall(theirs, usual)]
  BY DEF DecideWall
<1>1. PICK cmd : cmd = <<program>> \o words
  OBVIOUS
<1>2. PICK walled : walled = IF on THEN wallCmd(cmd, write) ELSE denyOnlyCmd(cmd)
  OBVIOUS
<1>3. PICK allowed : allowed = loadWall(theirs, usual)
  OBVIOUS
<1>4. PICK settings : settings = <<theirs, usual>>
  OBVIOUS
<1>5. decided' = [about |-> "wall", cmd |-> cmd, write |-> write, on |-> on, walled |-> walled, settings |-> settings,
                  allowed |-> allowed]
  BY <1>0, <1>1, <1>2, <1>3, <1>4
<1>6. decided'.about = "wall" /\ decided'.cmd = cmd /\ decided'.write = write /\ decided'.settings = settings
      /\ decided'.allowed = allowed
  BY <1>5
<1>7. PICK T : T = WallWords \cup {"claude", "codex", "agy", "-p", "--restricted", "acceptEdits", "--settings", "--sandbox"}
  OBVIOUS
<1>8. cmd \in Seq(T) /\ Len(cmd) # 0
  <2>1. words \in Seq(WallWords)
    BY SeqOfIsSeq
  <2>2. words \in Seq(T)
    <3>1. WallWords \subseteq T
      BY <1>7
    <3>2. QED
      BY <2>1, <3>1
  <2>3. program \in T
    BY <1>7
  <2>4. QED
    BY <1>1, <2>2, <2>3
<1>9. {"-p", "--restricted", "acceptEdits", "--settings", "--sandbox"} \subseteq T
  BY <1>7
<1>10. /\ wallCmd(wallCmd(cmd, write), write) = wallCmd(cmd, write)
       /\ denyOnlyCmd(denyOnlyCmd(cmd)) = denyOnlyCmd(cmd)
  BY <1>8, <1>9, WalledOnce
<1>11. allowed = IF settings[1] = "theirs" THEN "theirs" ELSE IF settings[2] = "all" THEN "all" ELSE "default"
  <2>1. settings[1] = theirs /\ settings[2] = usual
    BY <1>4
  <2>2. allowed = IF theirs = "theirs" THEN "theirs" ELSE IF usual = "all" THEN "all" ELSE "default"
    BY <1>3 DEF loadWall, resolveAllowedCommands
  <2>3. QED
    BY <2>1, <2>2
<1>12. WallSound'
  BY <1>6, <1>10, <1>11 DEF WallSound
<1>13. StaysInside' /\ NothingWidened' /\ PicksSound' /\ BadgeSound'
  BY <1>6 DEF StaysInside, NothingWidened, PicksSound, BadgeSound
<1>14. QED
  BY <1>12, <1>13 DEF PoliciesInv

\* The screen of commands, the directives of a ticket, the choice of an agent, the badge and the wall decide
\* as their purpose says, on every input.
THEOREM PoliciesHold == PoliciesSpec => []PoliciesInv
<1>1. PoliciesInit => PoliciesInv
  BY DEF PoliciesInit, PoliciesInv, StaysInside, NothingWidened, PicksSound, BadgeSound, WallSound
<1>2. PoliciesInv /\ [PoliciesNext]_policiesVars => PoliciesInv'
  <2> SUFFICES ASSUME PoliciesInv, [PoliciesNext]_policiesVars PROVE PoliciesInv'
    OBVIOUS
  <2>1. CASE PoliciesNext
    <3>1. DecideCommand \/ DecideEdit \/ DecidePick \/ DecideBadge \/ DecideWall
      BY <2>1 DEF PoliciesNext
    <3>2. QED
      BY <3>1, CommandRight, EditRight, PickRight, BadgeRight, WallRight
  <2>2. CASE UNCHANGED policiesVars
    <3>1. decided' = decided
      BY <2>2 DEF policiesVars
    <3>2. StaysInside' /\ NothingWidened'
      BY <3>1 DEF PoliciesInv, StaysInside, NothingWidened
    <3>3. PicksSound' /\ BadgeSound' /\ WallSound'
      BY <3>1 DEF PoliciesInv, PicksSound, BadgeSound, WallSound
    <3>4. QED
      BY <3>2, <3>3 DEF PoliciesInv
  <2>3. QED
    BY <2>1, <2>2
<1>3. QED
  BY <1>1, <1>2, PTL DEF PoliciesSpec

-----------------------------------------------------------------------------
(* Transcripts that grow *)

TranscriptsSpec == TranscriptsInit /\ [][TranscriptsNext]_transcriptVars

\* The lengths of the beginnings of a transcript.
Sums(f, rs) == f[0] = 0 /\ \A n \in 1..Len(rs) : f[n] = f[n - 1] + rs[n].size

LEMMA BytesWalk ==
  ASSUME NEW rs \in Seq(Records)
  PROVE  \E f : f \in [0..Len(rs) -> Nat] /\ Sums(f, rs) /\ Bytes(rs) = f[Len(rs)]
<1> DEFINE N == Len(rs)
           next == [x \in Nat \X (1..N) |-> x[1] + rs[x[2]].size]
           Is(g) == g = [n \in 0..N |-> IF n = 0 THEN 0 ELSE g[n - 1] + rs[n].size]
           st == CHOOSE g : Is(g)
<1>1. N \in Nat /\ \A n \in 1..N : rs[n].size \in Nat
  <2>1. \A r \in Records : r.size \in Nat
    BY TranscriptsAssumption DEF TranscriptsAssumption, Records
  <2>2. \A n \in 1..N : rs[n] \in Records
    OBVIOUS
  <2>3. QED
    BY <2>1, <2>2
<1>2. next \in [Nat \X (1..N) -> Nat] /\ \A q \in Nat, n \in 1..N : next[<<q, n>>] = q + rs[n].size
  <2> HIDE DEF N
  <2>1. QED
    BY <1>1
<1>3. PICK f : Walk(f, N, Nat, 0, next)
  <2> HIDE DEF next, N
  <2>1. QED
    BY <1>1, <1>2, WalkThere
<1> HIDE DEF next
<1>4. Is(f)
  <2> HIDE DEF N
  <2>1. \A n \in 1..N : n - 1 \in 0..N /\ n \in 0..N
    BY <1>1
  <2>2. \A n \in 1..N : f[n - 1] \in Nat /\ f[n] = f[n - 1] + rs[n].size
    BY <1>2, <1>3, <2>1 DEF Walk
  <2>3. \A n \in 0..N : n = 0 \/ n \in 1..N
    BY <1>1
  <2>4. \A n \in 0..N : f[n] = IF n = 0 THEN 0 ELSE f[n - 1] + rs[n].size
    BY <1>3, <2>2, <2>3 DEF Walk
  <2>5. f = [n \in 0..N |-> f[n]]
    BY <1>3 DEF Walk
  <2>6. QED
    BY <2>4, <2>5
<1>5. Bytes(rs) = st[N] /\ Is(st)
  <2>1. Bytes(rs) = st[N]
    BY DEF Bytes
  <2> HIDE DEF Is
  <2>2. Is(st)
    BY <1>4
  <2>3. QED
    BY <2>1, <2>2
<1> HIDE DEF st
<1>6. \A n \in 0..N : st[n] = IF n = 0 THEN 0 ELSE st[n - 1] + rs[n].size
  BY <1>5
<1>7. 0 \in 0..N /\ \A n \in 1..N : n \in 0..N /\ n # 0
  BY <1>1
<1>8. st[0] = 0 /\ \A n \in 1..N : st[n] = st[n - 1] + rs[n].size
  BY <1>6, <1>7
<1> DEFINE G == {n \in 0..N : st[n] \in Nat}
<1>9. \A n \in 0..N : n \in G
  <2>1. 0 \in G
    BY <1>7, <1>8
  <2>2. ASSUME NEW n \in 1..N, n - 1 \in G PROVE n \in G
    BY <1>1, <1>7, <1>8, <2>2
  <2> HIDE DEF G, N
  <2>3. QED
    BY <1>1, <2>1, <2>2, UpFromZero
<1>10. st \in [0..N -> Nat]
  <2>1. st = [n \in 0..N |-> IF n = 0 THEN 0 ELSE st[n - 1] + rs[n].size]
    BY <1>5
  <2>2. DOMAIN st = 0..N /\ st = [n \in 0..N |-> st[n]]
    BY <2>1
  <2>3. QED
    BY <1>9, <2>2
<1>11. QED
  BY <1>5, <1>8, <1>10 DEF Sums

\* Of a beginning of it they are the same.
LEMMA BytesUpTo ==
  ASSUME NEW rs \in Seq(Records), NEW f \in [0..Len(rs) -> Nat], Sums(f, rs), NEW k \in 0..Len(rs)
  PROVE  Bytes(SubSeq(rs, 1, k)) = f[k]
<1>1. PICK part : part = SubSeq(rs, 1, k)
  OBVIOUS
<1>2. Len(rs) \in Nat /\ k \in Nat /\ \A n \in 1..k : n \in 1..Len(rs) /\ n \in 0..Len(rs) /\ n - 1 \in 0..Len(rs)
  OBVIOUS
<1>3. part \in Seq(Records) /\ Len(part) = k /\ \A n \in 1..k : part[n] = rs[n]
  BY <1>1, <1>2
<1>4. PICK g : g \in [0..k -> Nat] /\ Sums(g, part) /\ Bytes(part) = g[k]
  BY <1>3, BytesWalk
<1> DEFINE G == {n \in 0..k : g[n] = f[n]}
<1>5. 0 \in G
  BY <1>2, <1>4 DEF Sums
<1>6. ASSUME NEW n \in 1..k, n - 1 \in G PROVE n \in G
  <2>1. g[n] = g[n - 1] + rs[n].size
    BY <1>3, <1>4 DEF Sums
  <2>2. f[n] = f[n - 1] + rs[n].size
    BY <1>2 DEF Sums
  <2>3. n \in 0..k
    BY <1>2
  <2>4. QED
    BY <1>6, <2>1, <2>2, <2>3
<1>7. \A n \in 0..k : n \in G
  <2> HIDE DEF G
  <2>1. QED
    BY <1>2, <1>5, <1>6, UpFromZero
<1>8. k \in 0..k
  BY <1>2
<1>9. QED
  BY <1>1, <1>4, <1>7, <1>8

LEMMA TailIsEnd ==
  ASSUME NEW rs \in Seq(Records), NEW m \in 0..Len(rs)
  PROVE  /\ IsSuffix(SubSeq(rs, m + 1, Len(rs)), rs) /\ Len(SubSeq(rs, m + 1, Len(rs))) = Len(rs) - m
         /\ SubSeq(rs, m + 1, Len(rs)) \in Seq(Records)
<1>1. PICK n : n = Len(rs)
  OBVIOUS
<1>2. PICK k : k = n - m
  OBVIOUS
<1>3. PICK part : part = SubSeq(rs, m + 1, n)
  OBVIOUS
<1>4. n \in Nat /\ m \in 0..n /\ k \in Nat /\ k <= n
  BY <1>1, <1>2
<1>5. part = [i \in 1..k |-> rs[m + i]] /\ \A i \in 1..k : m + i \in 1..n
  BY <1>1, <1>2, <1>3, <1>4
<1>6. \A i \in 1..k : rs[m + i] \in Records
  BY <1>1, <1>5
<1>7. part \in [1..k -> Records]
  BY <1>5, <1>6
<1>8. part \in Seq(Records) /\ Len(part) = k
  BY <1>4, <1>7, SeqIs
<1>9. PICK back : back = Reverse(part)
  OBVIOUS
<1>10. PICK all : all = Reverse(rs)
  OBVIOUS
<1>11. back = [i \in 1..k |-> part[(k - i) + 1]]
  BY <1>8, <1>9 DEF Reverse
<1>12. all = [i \in 1..n |-> rs[(n - i) + 1]]
  BY <1>1, <1>10 DEF Reverse
<1>13. \A i \in 1..k : (k - i) + 1 \in 1..k /\ m + ((k - i) + 1) = (n - i) + 1 /\ i \in 1..n /\ (n - i) + 1 \in 1..n
  BY <1>2, <1>4
<1>14. \A i \in 1..k : back[i] = all[i]
  BY <1>5, <1>11, <1>12, <1>13
<1>15. back \in Seq(Records) /\ Len(back) = k
  <2>1. \A i \in 1..k : part[(k - i) + 1] \in Records
    BY <1>7, <1>13
  <2>2. back \in [1..k -> Records]
    BY <1>11, <2>1
  <2>3. QED
    BY <1>4, <2>2, SeqIs
<1>16. all \in Seq(Records) /\ Len(all) = n
  <2>1. \A i \in 1..n : (n - i) + 1 \in 1..n
    BY <1>4
  <2>2. \A i \in 1..n : rs[(n - i) + 1] \in Records
    BY <1>1, <2>1
  <2>3. all \in [1..n -> Records]
    BY <1>12, <2>2
  <2>4. QED
    BY <1>4, <2>3, SeqIs
<1>17. SubSeq(back, 1, k) = SubSeq(all, 1, k)
  <2>1. SubSeq(back, 1, k) = [i \in 1..k |-> back[i]]
    BY <1>4, <1>15
  <2>2. SubSeq(all, 1, k) = [i \in 1..k |-> all[i]]
    BY <1>4, <1>16
  <2>3. QED
    BY <1>14, <2>1, <2>2
<1>18. IsPrefix(back, all)
  BY <1>4, <1>15, <1>16, <1>17 DEF IsPrefix
<1>19. IsSuffix(part, rs)
  BY <1>9, <1>10, <1>18 DEF IsSuffix
<1>20. QED
  BY <1>1, <1>2, <1>3, <1>8, <1>19


\* What the last n bytes give of a transcript.
InWindow(rs, closed, n) ==
  IF Bytes(rs) <= n THEN [ok |-> TRUE, text |-> rs]
  ELSE IF Newlines(rs, closed, n) = {} THEN Unread
  ELSE [ok |-> TRUE, text |-> SubSeq(rs, Min(Newlines(rs, closed, n)) + 1, Len(rs))]
EndOf(text, rs) ==
  /\ text \in Seq(Records) /\ IsSuffix(text, rs)
  /\ \A i \in DOMAIN rs : Bytes(SubSeq(rs, 1, i - 1)) > Bytes(rs) - TailBytes => i > Len(rs) - Len(text)

LEMMA WindowRight ==
  ASSUME NEW rs \in Seq(Records), NEW closed, NEW n \in Nat, n >= TailBytes, InWindow(rs, closed, n).ok
  PROVE  EndOf(InWindow(rs, closed, n).text, rs)
<1>1. PICK last : last = Len(rs)
  OBVIOUS
<1>2. PICK f : f \in [0..last -> Nat] /\ Sums(f, rs) /\ Bytes(rs) = f[last]
  BY <1>1, BytesWalk
<1>3. \A k \in 0..last : Bytes(SubSeq(rs, 1, k)) = f[k]
  BY <1>1, <1>2, BytesUpTo
<1>4. last \in Nat /\ DOMAIN rs = 1..last /\ TailBytes \in Nat /\ 0 \in 0..last /\ \A i \in 1..last : i - 1 \in 0..last /\ i \in 0..last
  BY <1>1, TranscriptsAssumption DEF TranscriptsAssumption
<1>5. \A i \in DOMAIN rs : Bytes(SubSeq(rs, 1, i - 1)) = f[i - 1] /\ Bytes(SubSeq(rs, 1, i)) = f[i]
  BY <1>3, <1>4
<1>6. CASE Bytes(rs) <= n
  <2>1. InWindow(rs, closed, n).text = rs
    BY <1>6 DEF InWindow
  <2>2. SubSeq(rs, 0 + 1, last) = rs
    BY <1>1, <1>4
  <2>3. IsSuffix(rs, rs)
    BY <1>1, <1>4, <2>2, TailIsEnd
  <2>4. \A i \in DOMAIN rs : i > Len(rs) - Len(rs)
    BY <1>1, <1>4
  <2>5. QED
    BY <2>1, <2>3, <2>4 DEF EndOf
<1>7. CASE ~(Bytes(rs) <= n)
  <2> DEFINE nl == Newlines(rs, closed, n)
  <2>1. nl # {} /\ InWindow(rs, closed, n).text = SubSeq(rs, Min(nl) + 1, Len(rs))
    BY <1>7 DEF InWindow, Unread
  <2>2. nl = {i \in 1..last : f[i] > f[last] - n /\ (i < last \/ closed)}
    BY <1>1, <1>2, <1>4, <1>5 DEF Newlines
  <2>3. nl \subseteq Nat
    BY <2>2
  <2>4. PICK m : m = Min(nl)
    OBVIOUS
  <2> HIDE DEF nl
  <2>5. m \in nl /\ \A i \in nl : m <= i
    <3>1. \E i \in nl : \A j \in nl : i <= j
      BY <2>1, <2>3, LeastOf
    <3>2. QED
      BY <2>4, <3>1 DEF Min
  <2>6. PICK part : part = SubSeq(rs, m + 1, Len(rs))
    OBVIOUS
  <2>7. m \in 0..last
    BY <1>4, <2>2, <2>5
  <2>8. part \in Seq(Records) /\ IsSuffix(part, rs) /\ Len(part) = last - m
    BY <1>1, <2>6, <2>7, TailIsEnd
  <2>9. ASSUME NEW i \in DOMAIN rs, Bytes(SubSeq(rs, 1, i - 1)) > Bytes(rs) - TailBytes
        PROVE  i > Len(rs) - Len(part)
    <3>1. f[i - 1] > f[last] - TailBytes /\ f[last] \in Nat /\ f[i - 1] \in Nat /\ f[last] > n
      BY <1>2, <1>4, <1>5, <1>7, <2>9
    <3>2. f[i - 1] > f[last] - n
      BY <1>4, <3>1
    <3>3. i - 1 # 0
      <4>1. f[0] = 0
        BY <1>2 DEF Sums
      <4>2. QED
        BY <3>1, <3>2, <4>1
    <3>4. i - 1 \in 1..last /\ i - 1 < last /\ i \in Nat
      BY <1>4, <3>3
    <3>5. i - 1 \in nl
      BY <2>2, <3>2, <3>4
    <3>6. m <= i - 1 /\ m \in Nat
      BY <2>5, <2>7, <3>5
    <3>7. Len(rs) - Len(part) = m
      BY <1>1, <1>4, <2>7, <2>8
    <3>8. QED
      BY <3>4, <3>6, <3>7
  <2>10. EndOf(part, rs)
    BY <2>8, <2>9 DEF EndOf
  <2>11. QED
    BY <2>1, <2>4, <2>6, <2>10
<1>8. QED
  BY <1>6, <1>7

LEMMA TailRight ==
  ASSUME NEW rs \in Seq(Records), NEW closed
  PROVE  /\ readIndexTail(rs, closed).ok => EndOf(readIndexTail(rs, closed).text, rs)
         /\ Bytes(rs) <= TailBytes => readIndexTail(rs, closed).text = rs
<1>1. readIndexTail(rs, closed) =
        IF InWindow(rs, closed, TailBytes).ok THEN InWindow(rs, closed, TailBytes) ELSE InWindow(rs, closed, MaxTailBytes)
  BY DEF readIndexTail, InWindow
<1>2. TailBytes \in Nat /\ MaxTailBytes \in Nat /\ TailBytes >= TailBytes /\ MaxTailBytes >= TailBytes
  BY TranscriptsAssumption DEF TranscriptsAssumption
<1>3. /\ InWindow(rs, closed, TailBytes).ok => EndOf(InWindow(rs, closed, TailBytes).text, rs)
      /\ InWindow(rs, closed, MaxTailBytes).ok => EndOf(InWindow(rs, closed, MaxTailBytes).text, rs)
  BY <1>2, WindowRight
<1>4. Bytes(rs) <= TailBytes => InWindow(rs, closed, TailBytes) = [ok |-> TRUE, text |-> rs]
  BY DEF InWindow
<1>5. QED
  BY <1>1, <1>3, <1>4

\* What a filter keeps of a beginning begins as what it keeps of the whole.
LEMMA FirstOfBeginning ==
  ASSUME NEW T, NEW s \in Seq(T), NEW S, NEW k \in 0..Len(s), OnlyIn(SubSeq(s, 1, k), S) # <<>>
  PROVE  OnlyIn(s, S) # <<>> /\ OnlyIn(s, S)[1] = OnlyIn(SubSeq(s, 1, k), S)[1]
<1>1. PICK part : part = SubSeq(s, 1, k)
  OBVIOUS
<1>2. k \in Nat /\ Len(s) \in Nat /\ \A i \in 1..k : i \in 1..Len(s)
  OBVIOUS
<1>3. part \in Seq(T) /\ Len(part) = k /\ \A i \in 1..k : part[i] = s[i]
  BY <1>1, <1>2
<1>4. ASSUME NEW u \in Seq(T), NEW x \in 1..Len(u), u[x] \in S, \A y \in 1..Len(u) : u[y] \in S => x <= y
      PROVE  OnlyIn(u, S) # <<>> /\ OnlyIn(u, S)[1] = u[x]
  <2>1. PICK out : out = OnlyIn(u, S)
    OBVIOUS
  <2>2. From(out, u, Len(u), S, T)
    BY <2>1, OnlyInFrom
  <2>3. PICK origin \in [1..Len(out) -> 1..Len(u)] :
          /\ \A i \in 1..Len(out) : out[i] = u[origin[i]] /\ out[i] \in S
          /\ \A i, j \in 1..Len(out) : i < j => origin[i] < origin[j]
          /\ \A y \in 1..Len(u) : u[y] \in S => \E i \in 1..Len(out) : origin[i] = y
    BY <2>2 DEF From
  <2>4. out \in Seq(T) /\ Len(out) \in Nat
    BY <2>2 DEF From
  <2>5. PICK i \in 1..Len(out) : origin[i] = x
    BY <1>4, <2>3
  <2>6. 1 \in 1..Len(out) /\ i \in Nat /\ (i = 1 \/ 1 < i) /\ out # <<>>
    BY <2>4, <2>5
  <2>7. origin[1] \in 1..Len(u) /\ u[origin[1]] \in S
    BY <2>3, <2>6
  <2>8. x <= origin[1] /\ (1 < i => origin[1] < origin[i])
    BY <1>4, <2>3, <2>6, <2>7
  <2>9. i = 1
    BY <2>5, <2>6, <2>7, <2>8
  <2>10. out[1] = u[x]
    BY <2>3, <2>5, <2>6, <2>9
  <2>11. QED
    BY <2>1, <2>6, <2>10
<1> DEFINE kept == {i \in 1..k : s[i] \in S}
<1>5. kept # {}
  <2>1. OnlyIn(part, S) # <<>>
    BY <1>1
  <2>2. ToSet(part) \cap S # {}
    BY <1>3, <2>1, OnlyInKeeps
  <2>3. ToSet(part) = {part[i] : i \in 1..k}
    BY <1>3 DEF ToSet
  <2>4. QED
    BY <1>3, <2>2, <2>3
<1>6. kept \subseteq Nat
  OBVIOUS
<1>7. PICK x \in kept : \A y \in kept : x <= y
  <2> HIDE DEF kept
  <2>1. QED
    BY <1>5, <1>6, LeastOf
<1>8. x \in 1..k /\ s[x] \in S /\ x \in 1..Len(s) /\ part[x] = s[x]
  BY <1>2, <1>3
<1>9. \A y \in 1..Len(part) : part[y] \in S => x <= y
  BY <1>3, <1>7
<1>10. \A y \in 1..Len(s) : s[y] \in S => x <= y
  <2>1. ASSUME NEW y \in 1..Len(s), s[y] \in S PROVE x <= y
    <3>1. y \in 1..k \/ x <= y
      BY <1>2, <1>8
    <3>2. QED
      BY <1>7, <2>1, <3>1
  <2>2. QED
    BY <2>1
<1>11. OnlyIn(s, S) # <<>> /\ OnlyIn(s, S)[1] = s[x]
  BY <1>4, <1>8, <1>10
<1>12. OnlyIn(part, S)[1] = s[x]
  <2>1. x \in 1..Len(part) /\ part[x] \in S
    BY <1>3, <1>8
  <2>2. OnlyIn(part, S)[1] = part[x]
    BY <1>3, <1>4, <1>9, <2>1
  <2>3. QED
    BY <1>8, <2>2
<1>13. QED
  BY <1>1, <1>11, <1>12


\* A worker's transcript that is seen by its head is seen by whatever its first turn is looked for in.
LEMMA WorkerSeen ==
  ASSUME NEW rs \in Seq(Records), NEW closed, isForgeAgentTranscript(readHead(rs))
  PROVE  isForgeAgentTranscript(HeadOf(rs, closed))
<1>1. CASE Bytes(rs) <= TailBytes
  <2> DEFINE inHead == {i \in DOMAIN rs : Bytes(rs) <= HeadBytes \/ Bytes(SubSeq(rs, 1, i)) <= HeadBytes}
  <2>1. PICK k : k = Cardinality(inHead)
    OBVIOUS
  <2>2. readHead(rs) = SubSeq(rs, 1, k)
    BY <2>1 DEF readHead
  <2>3. k \in 0..Len(rs)
    <3>1. Len(rs) \in Nat /\ DOMAIN rs = 1..Len(rs) /\ 1 \in Int /\ Len(rs) \in Int
      OBVIOUS
    <3>2. inHead \subseteq 1..Len(rs)
      BY <3>1
    <3> HIDE DEF inHead
    <3>3. IsFiniteSet(1..Len(rs)) /\ Cardinality(1..Len(rs)) = Len(rs)
      BY <3>1, FS_Interval
    <3>4. IsFiniteSet(inHead) /\ Cardinality(inHead) <= Len(rs) /\ Cardinality(inHead) \in Nat
      BY <3>2, <3>3, FS_Subset, FS_CardinalityType
    <3>5. QED
      BY <2>1, <3>1, <3>4
  <2>4. HeadOf(rs, closed) = rs
    BY <1>1, TailRight DEF HeadOf
  <2>5. PICK S : \A u : userTurnTexts(u) = OnlyIn(u, S)
    <3>1. \E S : S = {r \in Records : r.kind \in {"warmup", "forge", "user", "sandbox"}}
      OBVIOUS
    <3>2. QED
      BY <3>1 DEF userTurnTexts
  <2>6. OnlyIn(SubSeq(rs, 1, k), S) # <<>> /\ OnlyIn(SubSeq(rs, 1, k), S)[1].kind = "forge"
    BY <2>2, <2>5 DEF isForgeAgentTranscript
  <2>7. OnlyIn(rs, S) # <<>> /\ OnlyIn(rs, S)[1] = OnlyIn(SubSeq(rs, 1, k), S)[1]
    BY <2>3, <2>6, FirstOfBeginning
  <2>8. QED
    BY <2>4, <2>5, <2>6, <2>7 DEF isForgeAgentTranscript
<1>2. CASE ~(Bytes(rs) <= TailBytes)
  BY <1>2 DEF HeadOf
<1>3. QED
  BY <1>1, <1>2

\* The innermost repository around a folder is the one with the longest path.
LEMMA FoldersResolve == FolderResolved
<1> SUFFICES ASSUME NEW p \in {RepoPaths[q] : q \in DOMAIN RepoPaths},
                    Candidates(encodeClaudeProjectDir(p)) = {q \in DOMAIN RepoPaths : Inside(p, RepoPaths[q])},
                    NEW q \in resolveProject(encodeClaudeProjectDir(p))
             PROVE  RepoPaths[q] = p
  BY DEF FolderResolved
<1>1. PICK k \in DOMAIN RepoPaths : p = RepoPaths[k]
  OBVIOUS
<1>2. PICK around : around = Candidates(encodeClaudeProjectDir(p))
  OBVIOUS
<1>3. k \in around
  BY <1>1, <1>2 DEF Inside
<1>4. q \in around /\ Len(RepoPaths[k]) <= Len(RepoPaths[q])
  BY <1>2, <1>3 DEF resolveProject
<1>5. q \in DOMAIN RepoPaths /\ Inside(p, RepoPaths[q])
  BY <1>2, <1>4
<1>6. PICK repo : repo = RepoPaths[q]
  OBVIOUS
<1>7. repo \in Seq(ToSet(repo)) /\ p \in Seq(ToSet(p))
  BY <1>1, <1>5, <1>6, TranscriptsAssumption DEF TranscriptsAssumption
<1>8. Len(p) <= Len(repo) /\ Len(p) \in Nat /\ Len(repo) \in Nat
  BY <1>1, <1>4, <1>6, <1>7
<1>9. ASSUME IsPrefix(Append(repo, "/"), p) PROVE FALSE
  <2>1. Len(Append(repo, "/")) <= Len(p)
    BY <1>9 DEF IsPrefix
  <2>2. Len(Append(repo, "/")) = Len(repo) + 1
    BY <1>7
  <2>3. QED
    BY <1>8, <2>1, <2>2
<1>10. QED
  BY <1>5, <1>6, <1>9 DEF Inside

TranscriptsTyped ==
  /\ records \in [Transcripts -> Seq(Records)] /\ ended \subseteq Transcripts
  /\ indexed \in [Transcripts -> Nat] /\ backfilled \in BOOLEAN

LEMMA TranscriptsGive == TranscriptsTyped => TranscriptsInv
<1> SUFFICES ASSUME TranscriptsTyped PROVE TranscriptsInv
  OBVIOUS
<1>1. \A t \in Transcripts : records[t] \in Seq(Records)
  BY DEF TranscriptsTyped
<1>2. TranscriptsTypeOK
  <2>1. \A t \in Transcripts : \A i \in DOMAIN records[t] : records[t][i] \in Records
    BY <1>1
  <2>2. \A r \in Records : r.kind \in RecordKinds
    BY DEF Records
  <2>3. QED
    BY <2>1, <2>2 DEF TranscriptsTyped, TranscriptsTypeOK
<1>3. TailWhole
  <2> SUFFICES ASSUME NEW t \in Transcripts, readIndexTail(records[t], t \in ended).ok
               PROVE  /\ IsSuffix(readIndexTail(records[t], t \in ended).text, records[t])
                      /\ \A i \in DOMAIN records[t] :
                           Bytes(SubSeq(records[t], 1, i - 1)) > Bytes(records[t]) - TailBytes =>
                             i > Len(records[t]) - Len(readIndexTail(records[t], t \in ended).text)
    BY DEF TailWhole
  <2>1. PICK rs : rs = records[t]
    OBVIOUS
  <2>2. PICK closed : closed = (t \in ended)
    OBVIOUS
  <2>3. EndOf(readIndexTail(rs, closed).text, rs)
    BY <1>1, <2>1, <2>2, TailRight
  <2>4. QED
    BY <2>1, <2>2, <2>3 DEF EndOf
<1>4. BackfillStays
  <2> SUFFICES ASSUME NEW t \in Transcripts, Deletable(t), Listed(t) PROVE FALSE
    BY DEF BackfillStays
  <2>1. PICK rs : rs = records[t]
    OBVIOUS
  <2>2. PICK closed : closed = (t \in ended)
    OBVIOUS
  <2>3. PICK tail : tail = readIndexTail(rs, closed)
    OBVIOUS
  <2>4. (tail.ok /\ isWarmupTranscript(t, tail.text)) \/ isForgeAgentTranscript(readHead(rs))
    BY <2>1, <2>2, <2>3 DEF Deletable
  <2>5. ~isWarmupTranscript(t, tail.text) /\ ~isForgeAgentTranscript(HeadOf(rs, closed))
    BY <2>1, <2>2, <2>3 DEF Listed
  <2>6. isForgeAgentTranscript(readHead(rs)) => isForgeAgentTranscript(HeadOf(rs, closed))
    BY <1>1, <2>1, <2>2, WorkerSeen
  <2>7. QED
    BY <2>4, <2>5, <2>6
<1>5. QED
  BY <1>2, <1>3, <1>4, FoldersResolve DEF TranscriptsInv

LEMMA TranscriptsStart == TranscriptsInit => TranscriptsTyped
<1>1. <<>> \in Seq(Records)
  OBVIOUS
<1>2. ASSUME TranscriptsInit PROVE records \in [Transcripts -> Seq(Records)]
  BY <1>1, <1>2, Zenon DEF TranscriptsInit
<1>3. ASSUME TranscriptsInit PROVE indexed \in [Transcripts -> Nat] /\ ended \subseteq Transcripts /\ backfilled \in BOOLEAN
  BY <1>3 DEF TranscriptsInit
<1>4. QED
  BY <1>2, <1>3 DEF TranscriptsTyped

LEMMA TranscriptsStep == TranscriptsTyped /\ [TranscriptsNext]_transcriptVars => TranscriptsTyped'
<1> SUFFICES ASSUME TranscriptsTyped, [TranscriptsNext]_transcriptVars PROVE TranscriptsTyped'
  OBVIOUS
<1>1. ASSUME NEW t \in Transcripts, NEW k \in RecordKinds, NEW s \in RecordSizes, NEW whole \in BOOLEAN,
             WriteRecord(t, k, s, whole)
      PROVE  TranscriptsTyped'
  <2>1. PICK r \in Records : r = [kind |-> k, size |-> s]
    BY DEF Records
  <2>2. records' = [records EXCEPT ![t] = Append(@, r)]
    BY <1>1, <2>1 DEF WriteRecord
  <2>3. Append(records[t], r) \in Seq(Records)
    BY DEF TranscriptsTyped
  <2>4. records' \in [Transcripts -> Seq(Records)]
    BY <2>2, <2>3 DEF TranscriptsTyped
  <2>5. ended' \subseteq Transcripts /\ UNCHANGED <<indexed, backfilled>>
    BY <1>1 DEF WriteRecord, TranscriptsTyped
  <2>6. QED
    BY <2>4, <2>5 DEF TranscriptsTyped
<1>2. ASSUME NEW t \in Transcripts, EndRecord(t) PROVE TranscriptsTyped'
  BY <1>2 DEF EndRecord, TranscriptsTyped
<1>3. ASSUME NEW t \in Transcripts, IngestSession(t) PROVE TranscriptsTyped'
  <2>1. Len(records[t]) \in Nat
    BY DEF TranscriptsTyped
  <2>2. QED
    BY <1>3, <2>1 DEF IngestSession, TranscriptsTyped
<1>4. CASE backfillSessionKnowledge
  <2>1. \A t \in Transcripts : (IF Deletable(t) THEN 0 ELSE indexed[t]) \in Nat
    BY DEF TranscriptsTyped
  <2>2. QED
    BY <1>4, <2>1 DEF backfillSessionKnowledge, TranscriptsTyped
<1>5. CASE UNCHANGED transcriptVars
  BY <1>5 DEF transcriptVars, TranscriptsTyped
<1>6. QED
  BY <1>1, <1>2, <1>3, <1>4, <1>5 DEF TranscriptsNext

\* What is read of transcripts while they grow is their end, what the backfill takes out stays out, and a folder
\* belongs to the innermost repository (Transcripts), for any transcripts, windows and repositories.
THEOREM TranscriptsHold == TranscriptsSpec => []TranscriptsInv
  BY TranscriptsGive, TranscriptsStart, TranscriptsStep, PTL DEF TranscriptsSpec

-----------------------------------------------------------------------------
(* The services together *)

\* The chat holds: turns never mix and lose nothing (Chat), a tool runs only as it was allowed (ChatTools),
\* and the dialogue with a model stays well formed (HttpLane), however many turns, calls and rounds there are.
THEOREM TurnsHold == ChatSpec /\ ToolsSpec /\ LaneSpec => []TurnsInv
<1>1. ChatInv /\ ToolsInv /\ LaneInv => TurnsInv
  BY DEF TurnsInv
<1>2. QED
  BY <1>1, ChatHolds, ToolsHold, LaneHolds, PTL

\* What is asked of processes outside holds: tickets of the runner (Runner), the life of Laya's process
\* (Laya), and the patience of the queue to Voyage (Voyage).
THEOREM OutsideHolds == RunnerSpec /\ LayaSpec /\ VoyageSpec => []OutsideInv
<1>1. RunnerInv /\ LayaInv /\ VoyageInv => OutsideInv
  BY DEF OutsideInv
<1>2. QED
  BY <1>1, RunnersHold, LayaHolds, VoyageHolds, PTL

\* The files that agents, operators and clients write too: relay.json and the shared packages (RelayFile), and
\* the entry of the server in the files of clients (Wiring); and what is decided of agents (Policies).
THEOREM FilesHold == RelayFileSpec /\ WiringSpec /\ PoliciesSpec => []FilesInv
<1>1. RelayFileInv /\ WiringInv /\ PoliciesInv => FilesInv
  BY DEF FilesInv
<1>2. QED
  BY <1>1, RelayFileHolds, WiringHolds, PoliciesHold, PTL

\* The vaults: what is indexed is what the file holds (VaultWatch), and the folders that are watched are those
\* of the projects (ProjectVaults); and the transcripts, read in windows and given to their projects (Transcripts).
THEOREM IngestHolds == VaultSpec /\ ProjectVaultsSpec /\ TranscriptsSpec => []IngestInv
<1>1. VaultInv /\ ProjectVaultsInv /\ TranscriptsInv => IngestInv
  BY DEF IngestInv
<1>2. QED
  BY <1>1, VaultHolds, ProjectVaultsHold, TranscriptsHold, PTL

\* Where one component acts at a time, each takes its own steps or none.
LEMMA OneActs ==
  [ServicesNext]_allVars =>
    /\ [ChatNext]_chatVars /\ [ToolsNext]_toolsVars /\ [LaneNext]_laneVars /\ [CouncilNext]_councilVars
    /\ [RunnerNext]_runnerVars /\ [LayaNext]_layaVars /\ [VoyageNext]_voyageVars
    /\ [RelayFileNext]_relayFileVars /\ [WiringNext]_wiringVars
    /\ [VaultNext]_vaultVars /\ [ProjectVaultsNext]_projectVaultVars /\ [SkillsNext]_skillVars
    /\ [PoliciesNext]_policiesVars /\ [TranscriptsNext]_transcriptVars
<1>1. ASSUME UNCHANGED allVars
      PROVE  UNCHANGED <<chatVars, toolsVars, laneVars, councilVars, runnerVars, layaVars, voyageVars,
                         relayFileVars, wiringVars, vaultVars, projectVaultVars, skillVars, policiesVars, transcriptVars>>
  BY <1>1 DEF allVars
<1>2. ASSUME ServicesNext
      PROVE  /\ ChatNext \/ UNCHANGED chatVars
             /\ ToolsNext \/ UNCHANGED toolsVars
             /\ LaneNext \/ UNCHANGED laneVars
             /\ CouncilNext \/ UNCHANGED councilVars
             /\ RunnerNext \/ UNCHANGED runnerVars
             /\ LayaNext \/ UNCHANGED layaVars
             /\ VoyageNext \/ UNCHANGED voyageVars
             /\ RelayFileNext \/ UNCHANGED relayFileVars
             /\ WiringNext \/ UNCHANGED wiringVars
             /\ VaultNext \/ UNCHANGED vaultVars
             /\ ProjectVaultsNext \/ UNCHANGED projectVaultVars
             /\ SkillsNext \/ UNCHANGED skillVars
             /\ PoliciesNext \/ UNCHANGED policiesVars
             /\ TranscriptsNext \/ UNCHANGED transcriptVars
  BY <1>2 DEF ServicesNext, Others
<1>3. QED
  BY <1>1, <1>2

\* The run in which the services take turns is one of those that the theorems are about.
THEOREM ServicesTogether ==
  ServicesSpec => [](TurnsInv /\ CouncilInv /\ OutsideInv /\ FilesInv /\ IngestInv /\ SkillsInv)
<1>1. ServicesInit => ChatInit /\ ToolsInit /\ LaneInit /\ CouncilInit /\ RunnerInit /\ LayaInit /\ VoyageInit
                     /\ RelayFileInit /\ WiringInit /\ VaultInit /\ ProjectVaultsInit /\ SkillsInit /\ PoliciesInit
                     /\ TranscriptsInit
  BY DEF ServicesInit
<1>2. ServicesSpec => /\ ChatSpec /\ ToolsSpec /\ LaneSpec /\ CouncilSpec
                      /\ RunnerSpec /\ LayaSpec /\ VoyageSpec /\ RelayFileSpec /\ WiringSpec
                      /\ VaultSpec /\ ProjectVaultsSpec /\ SkillsSpec /\ PoliciesSpec /\ TranscriptsSpec
  BY <1>1, OneActs, PTL DEF ServicesSpec, ChatSpec, ToolsSpec, LaneSpec, CouncilSpec, RunnerSpec, LayaSpec, VoyageSpec,
                              RelayFileSpec, WiringSpec, VaultSpec, ProjectVaultsSpec, SkillsSpec, PoliciesSpec, TranscriptsSpec
<1>3. QED
  BY <1>2, TurnsHold, CouncilHolds, OutsideHolds, FilesHold, IngestHolds, SkillsHold, PTL
===============================================================================
