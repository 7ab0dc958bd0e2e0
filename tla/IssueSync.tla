------------------------------- MODULE IssueSync -------------------------------
(***************************************************************************)
(* Synchronising tickets with an issue tracker (src/sync): a run for one   *)
(* project pulls what changed since the newest change it knows, then       *)
(* pushes the tickets that have no issue and closes the issues of closed   *)
(* tickets.  The runs of one project follow each other (a job per          *)
(* project), those of two projects overlap; people change issues and       *)
(* tickets at any time, and the server may die.                            *)
(*                                                                         *)
(* Abstracted: one tracker, in which each project has one repository; an   *)
(* issue is its time of change and whether it is open; comments, which     *)
(* follow the ticket of their issue, and rate limits, which end a push.    *)
(***************************************************************************)
EXTENDS Naturals, FiniteSets, Sequences

CONSTANTS
  SyncProjects,  \* bound projects
  SyncIssues,    \* issues the tracker may come to have
  SyncTickets,   \* tickets that may come to be
  IssueChanges,  \* bound: changes of issues
  TicketChanges, \* bound: changes of tickets by people
  SyncDeaths     \* bound: times the server dies

ASSUME IssueSyncAssumption ==
  /\ IssueChanges \in Nat /\ TicketChanges \in Nat /\ SyncDeaths \in Nat
  /\ IsFiniteSet(SyncIssues) /\ IsFiniteSet(SyncTickets) /\ "none" \notin SyncProjects

VARIABLES
  tracker,  \* per issue: its repository, the time of its last change, whether it is open
  links,    \* sync_links: issue, ticket, and the change of the issue that was taken last
  board,    \* per ticket: its project, whether it is open, its version, the change of its issue it shows
  sync,     \* per project: the run, with the issues or tickets it has listed and not done
  time,     \* changes of issues so far
  touchedByHand,  \* changes of tickets by people so far
  deaths,   \* deaths so far
  leapt     \* history: a link was made for a pushed ticket, or an issue failed, ahead of a change not taken

syncVars == <<tracker, links, board, sync, time, touchedByHand, deaths, leapt>>

NoIssue == [repo |-> "none", at |-> 0, open |-> FALSE]
NoTicket == [project |-> "none", open |-> FALSE, version |-> 0, shows |-> 0]
Rest == [at |-> "idle", todo |-> <<>>, seen |-> 0, again |-> FALSE]

IssueSyncInit ==
  /\ tracker = [i \in SyncIssues |-> NoIssue] /\ links = {} /\ board = [t \in SyncTickets |-> NoTicket]
  /\ sync = [p \in SyncProjects |-> Rest]
  /\ time = 0 /\ touchedByHand = 0 /\ deaths = 0 /\ leapt = FALSE

LinkOf(i) == {l \in links : l.issue = i}
LinksOf(t) == {l \in links : l.ticket = t}
\* The newest change of all links: of the tracker, whatever their project.
Since == IF links = {} THEN 0 ELSE CHOOSE n \in {l.at : l \in links} : \A l \in links : l.at <= n

-------------------------------------------------------------------------------
(* Pull.                                                                    *)

Changed(p) == {i \in SyncIssues : tracker[i].repo = p /\ tracker[i].at > 0 /\ tracker[i].at >= Since}
Entry(i) == [issue |-> i, at |-> tracker[i].at, open |-> tracker[i].open]
Listings(p) == {s \in [1..Cardinality(Changed(p)) -> {Entry(i) : i \in Changed(p)}] :
                  {s[k].issue : k \in DOMAIN s} = Changed(p)}

(* Mutant of listExternalTickets: the newest change comes first.            *)
NewestFirst(p) == {s \in Listings(p) : \A a, b \in DOMAIN s : a < b => s[b].at < s[a].at}
\* The issues changed since then, the oldest change first.
listExternalTickets(p) == {s \in Listings(p) : \A a, b \in DOMAIN s : a < b => s[a].at < s[b].at}

StartSync(p) ==
  /\ sync[p].at = "idle"
  /\ \E s \in listExternalTickets(p) : sync' = [sync EXCEPT ![p] = [Rest EXCEPT !.at = "pull", !.todo = s]]
  /\ UNCHANGED <<tracker, links, board, time, touchedByHand, deaths, leapt>>

Ext(p) == Head(sync[p].todo)
Done(p) == [at |-> "pull", todo |-> Tail(sync[p].todo), seen |-> sync[p].seen, again |-> FALSE]
Pulling(p) == sync[p].at = "pull" /\ sync[p].todo # <<>>

\* A new issue becomes a ticket, and its link, in one transaction.
PullNew(p) ==
  /\ Pulling(p) /\ LinkOf(Ext(p).issue) = {}
  /\ \E t \in SyncTickets :
       /\ board[t].project = "none"
       /\ board' = [board EXCEPT ![t] = [project |-> p, open |-> Ext(p).open, version |-> 1, shows |-> Ext(p).at]]
       /\ links' = links \cup {[issue |-> Ext(p).issue, ticket |-> t, at |-> Ext(p).at]}
  /\ sync' = [sync EXCEPT ![p] = Done(p)]
  /\ UNCHANGED <<tracker, time, touchedByHand, deaths, leapt>>

PullOld(p) ==
  /\ Pulling(p) /\ \E l \in LinkOf(Ext(p).issue) : l.at >= Ext(p).at
  /\ sync' = [sync EXCEPT ![p] = Done(p)]
  /\ UNCHANGED <<tracker, links, board, time, touchedByHand, deaths, leapt>>

\* updateOnceWithRetry reads the ticket for its version.
PullReads(p) ==
  /\ Pulling(p)
  /\ \E l \in LinkOf(Ext(p).issue) :
       /\ l.at < Ext(p).at
       /\ sync' = [sync EXCEPT ![p].at = "update", ![p].seen = board[l.ticket].version]
  /\ UNCHANGED <<tracker, links, board, time, touchedByHand, deaths, leapt>>

PullWrites(p) ==
  /\ sync[p].at = "update"
  /\ \E l \in LinkOf(Ext(p).issue) :
       LET t == l.ticket IN
       \/ /\ board[t].version = sync[p].seen
          /\ board' = [board EXCEPT ![t].open = Ext(p).open, ![t].version = @ + 1, ![t].shows = Ext(p).at]
          /\ sync' = [sync EXCEPT ![p].at = "touch"] /\ leapt' = leapt
       \/ /\ board[t].version # sync[p].seen /\ ~sync[p].again
          /\ sync' = [sync EXCEPT ![p].seen = board[t].version, ![p].again = TRUE]
          /\ UNCHANGED <<board, leapt>>
       \/ /\ board[t].version # sync[p].seen /\ sync[p].again
          /\ sync' = [sync EXCEPT ![p] = Done(p)] /\ leapt' = TRUE /\ UNCHANGED board
  /\ UNCHANGED <<tracker, links, time, touchedByHand, deaths>>

TouchLink(p) ==
  /\ sync[p].at = "touch"
  /\ links' = {IF l.issue = Ext(p).issue THEN [l EXCEPT !.at = Ext(p).at] ELSE l : l \in links}
  /\ sync' = [sync EXCEPT ![p] = Done(p)]
  /\ UNCHANGED <<tracker, board, time, touchedByHand, deaths, leapt>>

-------------------------------------------------------------------------------
(* Push.                                                                    *)

\* listTickets of the project, once; what a ticket was then is what the loop goes by.
StartPush(p) ==
  /\ sync[p].at = "pull" /\ sync[p].todo = <<>>
  /\ \E s \in [1..Cardinality({t \in SyncTickets : board[t].project = p}) -> {[ticket |-> t, open |-> board[t].open] : t \in SyncTickets}] :
       /\ {s[k].ticket : k \in DOMAIN s} = {t \in SyncTickets : board[t].project = p}
       /\ \A k \in DOMAIN s : s[k].open = board[s[k].ticket].open
       /\ sync' = [sync EXCEPT ![p] = [Rest EXCEPT !.at = "push", !.todo = s]]
  /\ UNCHANGED <<tracker, links, board, time, touchedByHand, deaths, leapt>>

Pushing(p) == sync[p].at = "push" /\ sync[p].todo # <<>>
Pushed(p) == [at |-> "push", todo |-> Tail(sync[p].todo), seen |-> 0, again |-> sync[p].again]
Tick(i, to) == /\ time < IssueChanges /\ time' = time + 1
               /\ tracker' = [tracker EXCEPT ![i] = [to EXCEPT !.at = time + 1]]

\* A ticket with no link: the issue is made first.
CreateIssue(p) ==
  /\ Pushing(p) /\ sync[p].at = "push" /\ LinksOf(Ext(p).ticket) = {}
  /\ \E i \in SyncIssues :
       /\ tracker[i] = NoIssue /\ Tick(i, [repo |-> p, at |-> 0, open |-> TRUE])
       /\ sync' = [sync EXCEPT ![p].at = "linking", ![p].seen = i]
  /\ UNCHANGED <<links, board, touchedByHand, deaths, leapt>>

\* ... then its link, with the time the tracker answered.
LinkIssue(p) ==
  /\ sync[p].at = "linking"
  /\ links' = links \cup {[issue |-> sync[p].seen, ticket |-> Ext(p).ticket, at |-> tracker[sync[p].seen].at]}
  /\ board' = [board EXCEPT ![Ext(p).ticket].shows = tracker[sync[p].seen].at]
  /\ leapt' = TRUE /\ sync' = [sync EXCEPT ![p] = Pushed(p)]
  /\ UNCHANGED <<tracker, time, touchedByHand, deaths>>

CloseIssue(p) ==
  /\ Pushing(p) /\ ~Ext(p).open
  /\ \E l \in LinksOf(Ext(p).ticket) : tracker[l.issue].open /\ Tick(l.issue, [tracker[l.issue] EXCEPT !.open = FALSE])
  /\ sync' = [sync EXCEPT ![p] = Pushed(p)]
  /\ UNCHANGED <<links, board, touchedByHand, deaths, leapt>>

PushNothing(p) ==
  /\ Pushing(p) /\ LinksOf(Ext(p).ticket) # {} /\ (Ext(p).open \/ \A l \in LinksOf(Ext(p).ticket) : ~tracker[l.issue].open)
  /\ sync' = [sync EXCEPT ![p] = Pushed(p)]
  /\ UNCHANGED <<tracker, links, board, time, touchedByHand, deaths, leapt>>

EndSync(p) ==
  /\ sync[p].at = "push" /\ sync[p].todo = <<>> /\ sync' = [sync EXCEPT ![p] = Rest]
  /\ UNCHANGED <<tracker, links, board, time, touchedByHand, deaths, leapt>>

-------------------------------------------------------------------------------
(* People and the server.                                                   *)

IssueByHand(i, p, open) ==
  /\ tracker[i].repo \in {"none", p} /\ Tick(i, [repo |-> p, at |-> 0, open |-> open])
  /\ UNCHANGED <<links, board, sync, touchedByHand, deaths, leapt>>

TicketByHand(t, p, open) ==
  /\ touchedByHand < TicketChanges /\ touchedByHand' = touchedByHand + 1
  /\ board[t].project \in {"none", p}
  /\ board' = [board EXCEPT ![t].project = p, ![t].open = open, ![t].version = @ + 1]
  /\ UNCHANGED <<tracker, links, sync, time, deaths, leapt>>

ServerDiesSyncing ==
  /\ deaths < SyncDeaths /\ deaths' = deaths + 1 /\ \E p \in SyncProjects : sync[p].at # "idle"
  /\ sync' = [p \in SyncProjects |-> Rest]
  /\ UNCHANGED <<tracker, links, board, time, touchedByHand, leapt>>

IssueSyncNext ==
  \/ \E p \in SyncProjects :
       \/ StartSync(p) \/ PullNew(p) \/ PullOld(p) \/ PullReads(p) \/ PullWrites(p) \/ TouchLink(p)
       \/ StartPush(p) \/ CreateIssue(p) \/ LinkIssue(p) \/ CloseIssue(p) \/ PushNothing(p) \/ EndSync(p)
       \/ \E i \in SyncIssues, open \in BOOLEAN : IssueByHand(i, p, open)
       \/ \E t \in SyncTickets, open \in BOOLEAN : TicketByHand(t, p, open)
  \/ ServerDiesSyncing

-------------------------------------------------------------------------------
IssueSyncTypeOK ==
  /\ links \subseteq [issue : SyncIssues, ticket : SyncTickets, at : 0..IssueChanges]
  /\ \A p \in SyncProjects : sync[p].at \in {"idle", "pull", "update", "touch", "push", "linking"}
  /\ leapt \in BOOLEAN

\* An issue is the issue of one ticket and a ticket has one issue, in the repository of its project.
OneToOne ==
  \A l, m \in links : /\ l.issue = m.issue \/ l.ticket = m.ticket => l = m
                      /\ board[l.ticket].project = tracker[l.issue].repo

\* A link never says that a change was taken which its ticket does not show.
LinkNotAhead == \A l \in links : l.at <= board[l.ticket].shows

StillListed(i) == \E p \in SyncProjects : \E k \in DOMAIN sync[p].todo : sync[p].at \in {"pull", "update", "touch"} /\ sync[p].todo[k].issue = i

\* As long as one project is synced, nothing failed and no ticket was pushed, no change of an issue
\* falls behind the newest that was taken, even when the server died half way.
NoChangeLost ==
  ~leapt => \A l \in links, i \in SyncIssues :
    tracker[i].repo = tracker[l.issue].repo /\ (\A m \in links : tracker[m.issue].repo = tracker[i].repo)
      /\ 0 < tracker[i].at /\ tracker[i].at < l.at /\ ~StillListed(i)
      => \E m \in LinkOf(i) : m.at = tracker[i].at

\* Two synchronised boards agree through their links.
IssueSyncInv == IssueSyncTypeOK /\ OneToOne /\ LinkNotAhead /\ NoChangeLost
===============================================================================
