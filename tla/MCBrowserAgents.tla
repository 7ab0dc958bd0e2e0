--------------------------- MODULE MCBrowserAgents ---------------------------
(* What acts outside of the server: how a batch of browser steps travels (BrowserChannel), what it does to a
   page (Page), and the invocations of agents (AgentCalls), each on an instance of its own: the first state
   chooses which of them acts, and the others stay as they are. *)
EXTENDS BrowserChannel, TLC, Page, AgentCalls

VARIABLE acting   \* "channel", "page" or "calls"

\* One call that may meet any lane, one that stays on the subscription; two accounts.
LanesOfCalls == [c \in Calls |-> IF c = "c1" THEN Kinds ELSE {"sdk"}]
TwoLogins == <<"a1", "a2">>

\* A button after a paragraph on one site, a link that is also a tab on the other.
PageRoles == [b1 |-> {"button"}, l1 |-> {"link", "tab"}, p1 |-> {}]
PageHomes == [o1 |-> <<"p1", "b1">>, o2 |-> <<"l1">>]

Clicks(r) == [verb |-> "click", ref |-> r]
Opens(v, u) == [verb |-> v, url |-> u]
AsksOfPage ==
  {[steps |-> st, target |-> "o1"] : st \in {
     <<Clicks(1), Clicks(2)>>,
     <<[verb |-> "wait", text |-> "x"], Clicks(1), [verb |-> "press", key |-> "k"]>>,
     MarksSteps,
     <<[verb |-> "screenshot"], Clicks(1), [verb |-> "tabs"]>>,
     <<[verb |-> "read", ref |-> 2]>>,
     <<Opens("navigate", "o1"), Clicks(1)>>,
     <<Opens("navigate", "o2"), Clicks(1)>>,
     <<Opens("newTab", "o1"), Clicks(1)>>,
     <<Opens("newTab", "o2")>>,
     <<[verb |-> "switchTab", tabId |-> 1], Clicks(1)>>,
     <<[verb |-> "clickAt", x |-> 1, y |-> 1]>>,
     <<[verb |-> "click", ref |-> 1, url |-> "o1"]>>}}
  \cup {[steps |-> <<Opens("navigate", "o2")>>, target |-> "o2"]}

\* Only where pages act may a window have been open before.
OutsideInit ==
  /\ acting \in {"channel", "page", "calls"} /\ Init /\ PageInit /\ CallsInit
  /\ acting # "page" => agentAt.tab = 0

OutsideNext ==
  /\ UNCHANGED acting
  /\ \/ acting = "channel" /\ Next /\ UNCHANGED <<pageVars, callsVars>>
     \/ acting = "page" /\ PageNext /\ UNCHANGED <<vars, callsVars>>
     \/ acting = "calls" /\ CallsNext /\ UNCHANGED <<vars, pageVars>>

OutsideSpec ==
  OutsideInit /\ [][OutsideNext]_<<acting, vars, pageVars, callsVars>> /\ Fairness /\ CallsFair
=============================================================================
