-------------------------------- MODULE Chat --------------------------------
(***************************************************************************)
(* The chat: its routes (src/api/chat-routes.ts), its store                *)
(* (src/chat/store.ts) and the turn that answers a message                 *)
(* (src/chat/turns.ts, agent.ts).  The route starts a turn and does not    *)
(* wait for it; one turn runs in a session at a time; a session is deleted *)
(* by two statements, first its chunks in the index and then its rows.     *)
(*                                                                         *)
(* The database is the embedded one: it answers one statement at a time,   *)
(* in the order they were issued, and the code behind an await runs up to  *)
(* its next await before the next answer.  With DATABASE_URL, statements   *)
(* go through a pool and this order is not given.                          *)
(*                                                                         *)
(* Abstracted: texts, titles, models, prompts, attachments, and the calls  *)
(* that tools make (ChatTools).                                            *)
(***************************************************************************)
EXTENDS Naturals, Sequences, FiniteSets

CONSTANTS
  ChatPosts,      \* requests that send a message
  ChatDeletes,    \* requests that delete a session
  ChatSessionOf,  \* the session each request names
  ChatLanesOf     \* what the model of each message may name

ChatLanes == {"sdk", "http", "cli", "none", "handoff"}

ASSUME ChatAssumption ==
  /\ ChatPosts \cap ChatDeletes = {}
  /\ DOMAIN ChatSessionOf = ChatPosts \cup ChatDeletes
  /\ ChatLanesOf \in [ChatPosts -> SUBSET ChatLanes]

VARIABLES
  chatAt,       \* where a request or the turn it started is
  chatLane,     \* the lane of a turn
  chatQueue,    \* the statements the database has not answered: who issued each
  chatRunning,  \* the sessions with a turn running
  chatRows,     \* the sessions that have a row
  chatLog,      \* the messages of a session: <<role, request>>
  chatIndexed,  \* the sessions whose transcript is in the knowledge index
  chatResume    \* the sessions with an SDK session to resume

chatVars == <<chatAt, chatLane, chatQueue, chatRunning, chatRows, chatLog, chatIndexed, chatResume>>

ChatSessions == {ChatSessionOf[r] : r \in ChatPosts \cup ChatDeletes}
ChatTurn == {"load", "user", "handoff", "prepare", "lane", "retry", "runtime", "reply", "transcript", "embed",
             "index", "failure"}
ChatWaits == {"find", "load", "user", "handoff", "prepare", "runtime", "reply", "transcript", "index", "failure",
              "findDel", "chunks", "rows"}

ChatTypeOK ==
  /\ chatAt \in [ChatPosts \cup ChatDeletes -> ChatTurn \cup ChatWaits \cup {"new", "body", "done", "gone", "busy"}]
  /\ chatLane \in [ChatPosts -> ChatLanes]
  /\ chatRunning \subseteq ChatSessions /\ chatRows \subseteq ChatSessions
  /\ chatIndexed \subseteq ChatSessions /\ chatResume \subseteq ChatSessions
  /\ \A s \in ChatSessions : \A i \in DOMAIN chatLog[s] : chatLog[s][i] \in {"user", "assistant"} \X ChatPosts
  /\ \A r \in DOMAIN chatAt : chatAt[r] \in ChatWaits <=> \E i \in DOMAIN chatQueue : chatQueue[i] = r

ChatInit ==
  /\ chatAt = [r \in ChatPosts \cup ChatDeletes |-> "new"]
  /\ chatLane = [p \in ChatPosts |-> "none"]
  /\ chatQueue = <<>> /\ chatRunning = {}
  /\ chatRows = ChatSessions /\ chatLog = [s \in ChatSessions |-> <<>>]
  /\ chatIndexed = {} /\ chatResume = {}

\* Answered(r, where): the statement of r that the database answers now is the oldest one.
Answered(r, where) == chatAt[r] = where /\ chatQueue # <<>> /\ Head(chatQueue) = r
\* r goes on to an await on the database, or to one on something else, or ends
Issue(r, where) == chatAt' = [chatAt EXCEPT ![r] = where] /\ chatQueue' = Append(chatQueue, r)
Reissue(r, where) == chatAt' = [chatAt EXCEPT ![r] = where] /\ chatQueue' = Append(Tail(chatQueue), r)
Await(r, where) == chatAt' = [chatAt EXCEPT ![r] = where] /\ chatQueue' = Tail(chatQueue)

\* A message of a session without a row is refused by the foreign key.
Stored(p, role) ==
  LET s == ChatSessionOf[p] IN
    /\ s \in chatRows
    /\ chatLog' = [chatLog EXCEPT ![s] = Append(@, <<role, p>>)]
Refused(p) == ChatSessionOf[p] \notin chatRows /\ UNCHANGED chatLog
ChatKeep == UNCHANGED <<chatRows, chatIndexed, chatResume>>

-----------------------------------------------------------------------------
(* A message *)

PostMessage(p) ==
  /\ chatAt[p] = "new" /\ Issue(p, "find")
  /\ UNCHANGED <<chatLane, chatRunning, chatLog>> /\ ChatKeep

PostFound(p) ==
  /\ Answered(p, "find")
  /\ Await(p, IF ChatSessionOf[p] \in chatRows THEN "body" ELSE "gone")
  /\ UNCHANGED <<chatLane, chatRunning, chatLog>> /\ ChatKeep

\* The body was awaited; the check and the start of the turn are one synchronous step.
PostBody(p) ==
  /\ chatAt[p] = "body"
  /\ \/ /\ chatAt' = [chatAt EXCEPT ![p] = IF ChatSessionOf[p] \in chatRunning THEN "busy" ELSE "done"]
        /\ UNCHANGED <<chatQueue, chatRunning>>
     \/ /\ ChatSessionOf[p] \notin chatRunning
        /\ chatRunning' = chatRunning \cup {ChatSessionOf[p]}
        /\ Issue(p, "load")
  /\ UNCHANGED <<chatLane, chatLog>> /\ ChatKeep

\* The session is read again; the message may also change its model first.
LoadSession(p) ==
  /\ Answered(p, "load")
  /\ Reissue(p, IF ChatSessionOf[p] \in chatRows THEN "user" ELSE "failure")
  /\ UNCHANGED <<chatLane, chatRunning, chatLog>> /\ ChatKeep

SaveUser(p) ==
  /\ Answered(p, "user")
  /\ \/ /\ Stored(p, "user")
        /\ \E l \in ChatLanesOf[p] :
             /\ chatLane' = [chatLane EXCEPT ![p] = l]
             /\ Reissue(p, IF l = "handoff" THEN "handoff" ELSE "prepare")
     \/ Refused(p) /\ Reissue(p, "failure") /\ UNCHANGED chatLane
  /\ UNCHANGED chatRunning /\ ChatKeep

\* *handoff: without a project it only says so; the note it saves may be refused.
SaveHandoff(p) ==
  /\ Answered(p, "handoff")
  /\ \E next \in {"reply", "failure"} : Reissue(p, next)
  /\ UNCHANGED <<chatLane, chatRunning, chatLog>> /\ ChatKeep

\* Voice, recall (which fails open) and the lane; a lane that is not usable answers at once.
Prepare(p) ==
  /\ Answered(p, "prepare")
  /\ \/ chatLane[p] = "none" /\ Reissue(p, "reply")
     \/ chatLane[p] = "http" /\ Reissue(p, "reply")
     \/ chatLane[p] # "none" /\ Await(p, "lane")
     \/ Reissue(p, "failure")
  /\ UNCHANGED <<chatLane, chatRunning, chatLog>> /\ ChatKeep

\* An SDK call that throws is made once more, without the session it was to resume.
AskAgent(p) ==
  /\ \/ chatAt[p] = "lane" /\ Issue(p, IF chatLane[p] = "sdk" THEN "runtime" ELSE "reply")
     \/ chatAt[p] = "lane" /\ chatLane[p] # "sdk" /\ Issue(p, "failure")
     \/ /\ chatAt[p] = "lane" /\ chatLane[p] = "sdk"
        /\ chatAt' = [chatAt EXCEPT ![p] = "retry"] /\ UNCHANGED chatQueue
     \/ chatAt[p] = "lane" /\ chatLane[p] = "sdk" /\ Issue(p, "reply")
     \/ chatAt[p] = "retry" /\ \E next \in {"runtime", "reply", "failure"} : Issue(p, next)
  /\ UNCHANGED <<chatLane, chatRunning, chatLog>> /\ ChatKeep

\* An update of a row that is gone changes nothing and does not fail.
SaveRuntime(p) ==
  /\ Answered(p, "runtime")
  /\ chatResume' = chatResume \cup ({ChatSessionOf[p]} \cap chatRows)
  /\ Reissue(p, "reply")
  /\ UNCHANGED <<chatLane, chatRunning, chatLog, chatRows, chatIndexed>>

\* The end of every turn, in its finally.
EndTurn(p) == Await(p, "done") /\ chatRunning' = chatRunning \ {ChatSessionOf[p]}

SaveReply(p) ==
  /\ Answered(p, "reply")
  /\ \/ Stored(p, "assistant") /\ chatLane[p] = "handoff" /\ EndTurn(p)
     \/ Stored(p, "assistant") /\ chatLane[p] # "handoff" /\ Reissue(p, "transcript") /\ UNCHANGED chatRunning
     \/ Refused(p) /\ Reissue(p, "failure") /\ UNCHANGED chatRunning
  /\ UNCHANGED chatLane /\ ChatKeep

\* The transcript is read, its new chunks are embedded, which may fail and take long, and written.
ReadTranscript(p) ==
  /\ Answered(p, "transcript") /\ Await(p, "embed")
  /\ UNCHANGED <<chatLane, chatRunning, chatLog>> /\ ChatKeep

Embed(p) ==
  /\ chatAt[p] = "embed"
  /\ \/ Issue(p, "index") /\ UNCHANGED chatRunning
     \/ /\ chatAt' = [chatAt EXCEPT ![p] = "done"] /\ chatRunning' = chatRunning \ {ChatSessionOf[p]}
        /\ UNCHANGED chatQueue
  /\ UNCHANGED <<chatLane, chatLog>> /\ ChatKeep

\* Nothing in the index refers to the session's row.
WriteIndex(p) ==
  /\ Answered(p, "index")
  /\ \/ chatIndexed' = chatIndexed \cup {ChatSessionOf[p]}
     \/ UNCHANGED chatIndexed
  /\ EndTurn(p) /\ UNCHANGED <<chatLane, chatLog, chatRows, chatResume>>

\* The failure is appended where the owner sees it; if even that fails, it is let go.
SaveFailure(p) ==
  /\ Answered(p, "failure")
  /\ Stored(p, "assistant") \/ Refused(p)
  /\ EndTurn(p) /\ UNCHANGED chatLane /\ ChatKeep

-----------------------------------------------------------------------------
(* A deletion *)

DeleteSession(d) ==
  /\ chatAt[d] = "new" /\ Issue(d, "findDel")
  /\ UNCHANGED <<chatLane, chatRunning, chatLog>> /\ ChatKeep

(* Mutant of DeleteFound: the running turn is not looked at. *)
DeleteUnderTurn(d) ==
  /\ Answered(d, "findDel")
  /\ \/ ChatSessionOf[d] \notin chatRows /\ Await(d, "gone")
     \/ ChatSessionOf[d] \in chatRows /\ Reissue(d, "chunks")
  /\ UNCHANGED <<chatLane, chatRunning, chatLog>> /\ ChatKeep

\* Between the check and the deletion of the rows lies the deletion of the chunks.
DeleteFound(d) ==
  /\ Answered(d, "findDel")
  /\ LET s == ChatSessionOf[d] IN
       \/ s \notin chatRows /\ Await(d, "gone")
       \/ s \in chatRows \cap chatRunning /\ Await(d, "busy")
       \/ s \in chatRows \ chatRunning /\ Reissue(d, "chunks")
  /\ UNCHANGED <<chatLane, chatRunning, chatLog>> /\ ChatKeep

DeleteChunks(d) ==
  /\ Answered(d, "chunks")
  /\ \/ chatIndexed' = chatIndexed \ {ChatSessionOf[d]} /\ Reissue(d, "rows")
     \/ UNCHANGED chatIndexed /\ Await(d, "done")
  /\ UNCHANGED <<chatLane, chatRunning, chatLog, chatRows, chatResume>>

\* One transaction: the messages and the session, or nothing.
DeleteRows(d) ==
  /\ Answered(d, "rows")
  /\ \/ /\ chatRows' = chatRows \ {ChatSessionOf[d]}
        /\ chatLog' = [chatLog EXCEPT ![ChatSessionOf[d]] = <<>>]
        /\ chatResume' = chatResume \ {ChatSessionOf[d]}
     \/ UNCHANGED <<chatRows, chatLog, chatResume>>
  /\ Await(d, "done")
  /\ UNCHANGED <<chatLane, chatRunning, chatIndexed>>

-----------------------------------------------------------------------------
ChatStep(p) ==
  \/ PostFound(p) \/ LoadSession(p) \/ SaveUser(p) \/ SaveHandoff(p) \/ Prepare(p) \/ SaveRuntime(p)
  \/ SaveReply(p) \/ ReadTranscript(p) \/ Embed(p) \/ WriteIndex(p) \/ SaveFailure(p)
DeleteStep(d) == DeleteFound(d) \/ DeleteChunks(d) \/ DeleteRows(d)

ChatNext ==
  \/ \E p \in ChatPosts : PostMessage(p) \/ PostBody(p) \/ ChatStep(p) \/ AskAgent(p)
  \/ \E d \in ChatDeletes : DeleteSession(d) \/ DeleteStep(d)

-----------------------------------------------------------------------------
\* "Never an orphaned transcript still searchable after the session is gone" (chat-routes.ts:99): a
\* turn that slips in between the check and the deletion of the rows does not reach the index.
NoOrphan == chatIndexed \subseteq chatRows

\* A message that was stored is answered once its turn is over, in the turn's own session and
\* exactly once, whichever way the turn ended; and turns of one session do not overlap, so the
\* answer directly follows the message.
TurnsAnswered ==
  \A s \in ChatSessions : \A i \in DOMAIN chatLog[s] :
    LET p == chatLog[s][i][2] IN
      IF chatLog[s][i][1] = "user"
      THEN /\ i < Len(chatLog[s]) => chatLog[s][i + 1] = <<"assistant", p>>
           /\ i = Len(chatLog[s]) => s \in chatRunning /\ chatAt[p] # "done"
      ELSE i > 1 => chatLog[s][i - 1][2] = p

\* What deleting and answering may not do to each other.
ChatInv == ChatTypeOK /\ NoOrphan /\ TurnsAnswered
=============================================================================
