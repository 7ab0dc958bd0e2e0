-------------------------------- MODULE Console --------------------------------
(***************************************************************************)
(* The desktop client's view of a ticket's run (src/app/src/routes/forge/  *)
(* useForgeRun.ts, forge.tsx): which run it follows, and the output it     *)
(* shows.                                                                  *)
(*                                                                         *)
(* The output is polled once a second, whether or not the poll before has  *)
(* been answered; the list of runs is a query of its own; starting a run   *)
(* and reading the output of one that is over are requests that may be     *)
(* answered when another ticket is selected.  Effects of React run before  *)
(* the next event, so they are part of the action that changes their       *)
(* dependencies.  A piece of output is the interval <<run, from, to>>.     *)
(***************************************************************************)
EXTENDS SequencesExt

CONSTANTS
  ConTickets,   \* tickets
  ConRuns,      \* runs, in the order in which they are made of a ticket
  TicketOfRun,  \* the ticket of each
  PollSlots,    \* polls that may be under way
  AskSlots,     \* requests to start a run that may be under way
  OutputMax,    \* bound: pieces of output of a run
  ConEvents     \* bound: selections, starts, rows of the list that are replaced, and failed requests

ASSUME ConsoleAssumption ==
  /\ ConRuns \subseteq Nat \ {0} /\ TicketOfRun \in [ConRuns -> ConTickets]
  /\ OutputMax \in Nat /\ ConEvents \in Nat

VARIABLES
  served,    \* per run at the server: its status and how much output there is
  listed,    \* per ticket, the query of its runs: none, ok or error, and the newest run it knows
  view,      \* what is selected, followed and shown
  polls,     \* answers to polls under way, computed when they are asked for and on their way for any time
  reading,   \* the runs whose whole output is being read
  asked,     \* requests to start a run
  crossed,   \* history: a poll landed that had asked for another offset than the view was at, or the answer
             \* to a start met an offset that is not the one of that run
  strayed,   \* history: an answer for one ticket landed while another was selected, or a ticket was selected
             \* again before the runs of the one between were known, so that its own are taken as seen
  conEvents  \* how often that was

conVars == <<served, listed, view, polls, reading, asked, crossed, strayed, conEvents>>
historyVars == <<crossed, strayed, conEvents>>

NoTicket == "none"
NoPoll == [run |-> 0, after |-> 0, next |-> 0, status |-> ""]
NoAsk == [ticket |-> NoTicket, run |-> 0, how |-> "start"]
NotMade == [status |-> "unmade", output |-> 0]
Made(t) == {r \in ConRuns : TicketOfRun[r] = t /\ served[r].status # "unmade"}
Chunk(r, from, to) == IF from < to THEN <<<<r, from, to>>>> ELSE <<>>
Shows(v, r) == \E i \in DOMAIN v.shown : v.shown[i][1] = r
Follows(v, offset, r) == v.active = r /\ v.offset = offset
RunOver(s) == s = "passed"   \* or rejected, failed, stopped

ConEvent == conEvents < ConEvents /\ conEvents' = conEvents + 1

ConsoleInit ==
  /\ served = [r \in ConRuns |-> NotMade]
  /\ listed = [t \in ConTickets |-> [known |-> "none", run |-> 0, status |-> ""]]
  /\ view = [ticket |-> NoTicket, active |-> 0, shown |-> <<>>, offset |-> 0, derived |-> <<>>,
             unavailable |-> FALSE]
  /\ polls = [s \in PollSlots |-> NoPoll] /\ reading = {} /\ asked = [a \in AskSlots |-> NoAsk]
  /\ crossed = FALSE /\ strayed = FALSE /\ conEvents = 0

-------------------------------------------------------------------------------
(* Effects.                                                                 *)

\* The polling effect ends, and begins anew, when the run followed or the selected row changes; the
\* answers the old one waits for are ignored.
Abandon == [s \in PollSlots |-> NoPoll]
PollsFor(v) == IF v.active # view.active \/ v.ticket # view.ticket THEN Abandon ELSE polls

\* What the query says of the newest run, once per ticket, run and status.
DerivedKey(t, l) == <<t, l[t].run, l[t].status>>
Emptied(v) == [v EXCEPT !.active = 0, !.shown = <<>>, !.offset = 0]
Derive(v, l) ==
  IF v.ticket = NoTicket THEN [v EXCEPT !.derived = <<>>]
  ELSE LET q == l[v.ticket]
           w == [v EXCEPT !.derived = DerivedKey(v.ticket, l)]
       IN  IF v.derived = w.derived \/ q.known = "none" THEN v
          ELSE IF q.known = "error" THEN Emptied(w)
          ELSE IF q.status = "running" THEN [Emptied(w) EXCEPT !.active = q.run]
          ELSE IF RunOver(q.status) THEN [w EXCEPT !.active = 0, !.offset = 0]
          ELSE Emptied(w)

\* The output of a run that is over is read whole.
ReadsWhole(v, l) ==
  IF v.derived # view.derived /\ v.derived # <<>> /\ l[v.ticket].known = "ok" /\ RunOver(l[v.ticket].status)
  THEN reading \cup {l[v.ticket].run} ELSE reading

\* The view becomes v, the queries l: the effects that follow.
Settle(v, l) ==
  LET d == Derive(v, l) IN
    view' = d /\ listed' = l /\ polls' = PollsFor(d) /\ reading' = ReadsWhole(d, l)

-------------------------------------------------------------------------------
(* The operator.                                                            *)

\* resetForTicket: what is shown of the run stays until it is derived.
handleSelectTicket(t) ==
  /\ ConEvent /\ t # view.ticket
  /\ Settle([view EXCEPT !.ticket = t, !.unavailable = FALSE], listed)
  /\ strayed' = (strayed \/ view.derived = DerivedKey(t, listed))
  /\ UNCHANGED <<served, asked, crossed>>

\* The ticket is gone from the lists, or the row was replaced by a newer version of it.
SelectionGone ==
  /\ view.ticket # NoTicket /\ ConEvent
  /\ Settle([view EXCEPT !.ticket = NoTicket], listed)
  /\ UNCHANGED <<served, asked, crossed, strayed>>

RowReplaced ==
  /\ view.ticket # NoTicket /\ ConEvent
  /\ polls' = Abandon
  /\ UNCHANGED <<served, listed, view, reading, asked, crossed, strayed>>

\* handleRun and handleResume clear the view first; handleRework and "Resume run" of the history do not.
Hows == {"start", "rework", "history"}
AskRun(a, how) ==
  /\ asked[a] = NoAsk /\ view.ticket # NoTicket /\ ConEvent
  /\ IF how = "history" THEN listed[view.ticket].run # 0 /\ listed[view.ticket].status # "running" ELSE view.active = 0
  /\ asked' = [asked EXCEPT ![a] = [ticket |-> view.ticket, run |-> 0, how |-> how]]
  /\ view' = IF how = "start" THEN [view EXCEPT !.shown = <<>>, !.offset = 0, !.unavailable = FALSE]
             ELSE view
  /\ UNCHANGED <<served, listed, polls, reading, crossed, strayed>>

\* The server makes a run, for this client or another; one of a ticket at a time.
MakeRun(r) ==
  /\ served[r].status = "unmade"
  /\ \A q \in ConRuns : TicketOfRun[q] = TicketOfRun[r] /\ q < r => RunOver(served[q].status)
  /\ served' = [served EXCEPT ![r].status = "running"]
  /\ \/ UNCHANGED asked
     \/ \E a \in AskSlots : asked[a].ticket = TicketOfRun[r] /\ asked[a].run = 0 /\ asked' = [asked EXCEPT ![a].run = r]
  /\ UNCHANGED <<listed, view, polls, reading, historyVars>>

\* The answer is applied to whatever is selected now.
AskAnswered(a) ==
  LET q == asked[a]
      v == [view EXCEPT !.active = q.run, !.offset = IF q.how = "rework" THEN 0 ELSE @]
  IN  /\ q.run # 0
      /\ view' = v /\ polls' = PollsFor(v)
      /\ asked' = [asked EXCEPT ![a] = NoAsk] /\ strayed' = (strayed \/ q.ticket # view.ticket)
      /\ crossed' = (crossed \/ (~Follows(view, v.offset, q.run) /\ (v.offset # 0 \/ Shows(view, q.run))))
      /\ UNCHANGED <<served, listed, reading, conEvents>>

AskRefused(a) ==
  /\ asked[a] # NoAsk /\ asked[a].run = 0
  /\ asked' = [asked EXCEPT ![a] = NoAsk]
  /\ UNCHANGED <<served, listed, view, polls, reading, historyVars>>

-------------------------------------------------------------------------------
(* Answers.                                                                 *)

\* The query of the selected ticket's runs: an event of the stream, a poll or the selection asked for it.
RunsAnswered ==
  /\ view.ticket # NoTicket
  /\ LET t == view.ticket
         newest == {r \in Made(t) : \A q \in Made(t) : q <= r}
         known == [known |-> "ok", run |-> 0, status |-> ""]
     IN  \/ /\ \E r \in newest :
                 Settle(view, [listed EXCEPT ![t] = [known EXCEPT !.run = r, !.status = served[r].status]])
            /\ UNCHANGED conEvents
         \/ newest = {} /\ Settle(view, [listed EXCEPT ![t] = known]) /\ UNCHANGED conEvents
         \/ ConEvent /\ Settle(view, [listed EXCEPT ![t].known = "error"])
  /\ UNCHANGED <<served, asked, crossed, strayed>>

\* The whole output of a run that was over replaces what is shown, whatever is selected by now.
WholeRead(r) ==
  /\ r \in reading /\ reading' = reading \ {r}
  /\ \/ view' = [view EXCEPT !.shown = Chunk(r, 0, served[r].output)]
     \/ view' = [view EXCEPT !.unavailable = TRUE]   \* the server lost it when it restarted
  /\ strayed' = (strayed \/ TicketOfRun[r] # view.ticket \/ view.active # 0)
  /\ UNCHANGED <<served, listed, polls, asked, crossed, conEvents>>

\* One tick of the interval, and getRunOutput at the server.
poll(s) ==
  /\ view.active # 0 /\ polls[s] = NoPoll
  /\ LET r == view.active
         from == IF view.offset < served[r].output THEN view.offset ELSE served[r].output
     IN  polls' = [polls EXCEPT ![s] = [run |-> r, after |-> from, next |-> served[r].output,
                                         status |-> served[r].status]]
  /\ UNCHANGED <<served, listed, view, reading, asked, historyVars>>

PollLands(s) ==
  LET p == polls[s]
      v == [view EXCEPT !.shown = @ \o Chunk(p.run, p.after, p.next), !.offset = p.next,
                        !.active = IF p.status = "running" THEN @ ELSE 0]
  IN  /\ p # NoPoll
      /\ view' = v /\ polls' = [PollsFor(v) EXCEPT ![s] = NoPoll]
      /\ crossed' = (crossed \/ p.after # view.offset)
      /\ UNCHANGED <<served, listed, reading, asked, strayed, conEvents>>

\* The request fails: the run is followed no more.
PollFails(s) ==
  LET v == [view EXCEPT !.active = 0] IN
    /\ polls[s] # NoPoll /\ ConEvent
    /\ view' = v /\ polls' = [PollsFor(v) EXCEPT ![s] = NoPoll]
    /\ UNCHANGED <<served, listed, reading, asked, crossed, strayed>>

-------------------------------------------------------------------------------
(* The server.                                                              *)

Outputs(r) ==
  /\ served[r].status = "running"
  /\ \/ served[r].output < OutputMax /\ served' = [served EXCEPT ![r].output = @ + 1]
     \/ served' = [served EXCEPT ![r].status = "passed"]
  /\ UNCHANGED <<listed, view, polls, reading, asked, historyVars>>

ConsoleNext ==
  \/ \E t \in ConTickets : handleSelectTicket(t)
  \/ SelectionGone \/ RowReplaced \/ RunsAnswered
  \/ \E a \in AskSlots : (\E how \in Hows : AskRun(a, how)) \/ AskAnswered(a) \/ AskRefused(a)
  \/ \E s \in PollSlots : poll(s) \/ PollLands(s) \/ PollFails(s)
  \/ \E r \in ConRuns : MakeRun(r) \/ Outputs(r) \/ WholeRead(r)

-------------------------------------------------------------------------------
ConsoleTypeOK ==
  /\ view.active \in ConRuns \cup {0} /\ view.ticket \in ConTickets \cup {NoTicket} /\ view.offset \in 0..OutputMax
  /\ \A s \in PollSlots : polls[s].run \in ConRuns \cup {0} /\ polls[s].next \in 0..OutputMax
  /\ reading \subseteq ConRuns /\ asked \in [AskSlots -> [ticket : ConTickets \cup {NoTicket},
                                                          run : ConRuns \cup {0}, how : Hows]]

\* The pieces shown of the run that is followed are its output from the start to the offset, each
\* once and in order, through selections, replaced rows and failed polls (useForgeRun.ts:96-101);
\* but two polls that overlap, or one that a reset of the offset overtakes, repeat or skip a piece.
Whole(shown, r, offset) ==
  LET mine == {i \in DOMAIN shown : shown[i][1] = r} IN
    /\ mine = {} => offset = 0
    /\ \A i \in mine :
         /\ (\A j \in mine : i <= j) => shown[i][2] = 0
         /\ (\A j \in mine : j <= i) => shown[i][3] = offset
         /\ \A j \in mine : i < j /\ ~(\E k \in mine : i < k /\ k < j) => shown[i][3] = shown[j][2]
OutputWhole == view.active # 0 /\ ~crossed /\ ~strayed => Whole(view.shown, view.active, view.offset)

\* Once the runs of the selected ticket are known, what is followed and shown is of that ticket: what
\* was shown before it was selected goes with the whole output of its own run, if that can be read.
OwnOutput ==
  view.ticket # NoTicket /\ view.derived # <<>> /\ view.derived[1] = view.ticket /\ ~strayed =>
    /\ view.active # 0 => TicketOfRun[view.active] = view.ticket
    /\ \A i \in DOMAIN view.shown :
         \/ TicketOfRun[view.shown[i][1]] = view.ticket \/ view.unavailable
         \/ \E r \in reading : TicketOfRun[r] = view.ticket

\* An answer that still counts is one of the run that is followed.
PollsFollow == \A s \in PollSlots : polls[s] # NoPoll => polls[s].run = view.active

ConsoleInv == ConsoleTypeOK /\ OutputWhole /\ OwnOutput /\ PollsFollow
===============================================================================
