-------------------------------- MODULE Page --------------------------------
(* What a batch of browser steps does to the agent's window: validation and grant (browser/validate.ts,
   api/browser-routes.ts), segments run in turn by the worker (extension/worker.js, segments.js), steps
   inside the page (execute.js) on references that are positions in the page's controls (snapshot.js),
   and the numbered marks drawn from a snapshot (browser/marks.ts).  Pages change by themselves.  How a
   batch reaches the worker is in BrowserChannel. *)
EXTENDS Integers, FiniteSets, SequencesExt, Lists

CONSTANTS
  Origins,     \* sites
  HomePage,    \* per site, the elements a page of it starts with, in document order
  RolesOf,     \* per element, the roles its selectors give it
  Granted,     \* sites with an act grant
  PageAsks,     \* what callers ask: [steps, target]
  PageTabs,    \* tabs there may be, from 1 on
  PageEdits,   \* bound: changes the pages make by themselves
  BatchesMax,  \* bound: batches asked
  Lengths      \* coordinates of the boxes

RoleOrder == <<"button", "link", "textbox", "combobox", "checkbox", "radio", "menuitem", "tab">>

ASSUME PageAssumption ==
  /\ Granted \subseteq Origins /\ HomePage \in [Origins -> Seq(DOMAIN RolesOf)]
  /\ \A e \in DOMAIN RolesOf : RolesOf[e] \subseteq ToSet(RoleOrder)
  /\ \A b \in PageAsks : b.steps \in Seq(ToSet(b.steps))
  /\ PageTabs \in Nat \ {0} /\ PageEdits \in Nat /\ BatchesMax \in Nat /\ Lengths \subseteq Int

VARIABLES
  tabs,     \* per tab: [win, origin, els, ready, leaving]
  agentAt,  \* the window and tab recorded in session storage
  seen,    \* what the caller holds: the elements behind its references, their tab, if that page is as it was
  batch,    \* the batch in the worker: [steps, grant, target, meant]
  work,     \* the worker: [at, seg, tab, i, refs, fresh, inPage, shot]
  results,  \* per step: its result
  taken,    \* the snapshots the worker has of the batch so far
  told,   \* what was sent for the last batch, and of which steps
  acts,     \* history: what changed a page
  pageEdits, batchesAsked

pageVars == <<tabs, agentAt, seen, batch, work, results, taken, told, acts, pageEdits, batchesAsked>>

NoTab == [win |-> 0, origin |-> "none", els |-> <<>>, ready |-> TRUE, leaving |-> "no"]
PageAt(w, o) == [win |-> w, origin |-> o, els |-> IF o \in Origins THEN HomePage[o] ELSE <<>>, ready |-> TRUE, leaving |-> "no"]
Nothing == [els |-> <<>>, tab |-> 0, same |-> FALSE]
NoBatch == [steps |-> <<>>, grant |-> "none", target |-> "none", meant |-> <<>>]
Unset == [ok |-> TRUE, code |-> "unset", of |-> "none"]
NoWork == [at |-> "idle", seg |-> 1, tab |-> 0, i |-> 0, refs |-> <<>>, fresh |-> FALSE, inPage |-> <<>>, shot |-> 0]

\* The controls in document order (elements with a role): the references are their places.
collectInteractive(els) == OnlyIn(els, {e \in DOMAIN RolesOf : RolesOf[e] # {}})

PageInit ==
  /\ \/ tabs = [t \in 1..PageTabs |-> NoTab] /\ agentAt = [win |-> 0, tab |-> 0] /\ seen = Nothing
     \/ \E o \in Origins :   \* a batch before opened the window
          /\ tabs = [t \in 1..PageTabs |-> IF t = 1 THEN PageAt(1, o) ELSE NoTab] /\ agentAt = [win |-> 1, tab |-> 1]
          /\ seen = [els |-> collectInteractive(HomePage[o]), tab |-> 1, same |-> TRUE]
  /\ batch = NoBatch /\ work = NoWork /\ results = <<>> /\ taken = <<>>
  /\ told = [steps |-> <<>>, results |-> <<>>, of |-> <<>>, lost |-> FALSE]
  /\ acts = {} /\ pageEdits = 0 /\ batchesAsked = 0

-----------------------------------------------------------------------------
(* A snapshot *)

\* An element that several selectors match has the first role.
RoleGiven(e) == RoleOrder[CHOOSE i \in DOMAIN RoleOrder : RoleOrder[i] \in RolesOf[e] /\ \A j \in 1..(i-1) : RoleOrder[j] \notin RolesOf[e]]

\* aria-label, the first label for its id, the labels around it from the inside, its own text; blank is 0.
AccessibleName(c) ==
  LET texts == OnlyIn(<<c.aria>> \o (IF c.labels = <<>> THEN <<>> ELSE <<Head(c.labels)>>) \o c.around, Nat \ {0})
  IN IF texts = <<>> THEN c.text ELSE texts[1]

\* The landmarks around it from the outside, or else the last heading before it.
AnchorPath(around, headings, place) ==
  LET marks == OnlyIn(Reverse(around), ToSet(around) \ {"plain"})
      before == {h \in headings : h < place}
  IN IF marks # <<>> THEN marks ELSE IF before = {} THEN <<>> ELSE <<CHOOSE h \in before : \A g \in before : g <= h>>

-----------------------------------------------------------------------------
(* What is batchesAsked *)

SHAPES == [click |-> {"ref"}, type |-> {"ref", "text"}, select |-> {"ref", "option"}, press |-> {"key"}, snapshot |-> {},
           screenshot |-> {}, read |-> {"ref"}, navigate |-> {"url"}, clickAt |-> {"x", "y"}, tabs |-> {},
           newTab |-> {"url"}, switchTab |-> {"tabId"}, wait |-> {"text"}]
MutatingOnServer == {"click", "type", "select", "press", "navigate", "clickAt", "newTab"}
MutatingInPage == {"click", "type", "select", "press"}   \* clickAt is not among them
TAB_VERBS == {"tabs", "newTab", "switchTab"}

validateSteps(steps) ==
  /\ steps # <<>>
  /\ \A s \in ToSet(steps) :
       /\ s.verb \in DOMAIN SHAPES /\ DOMAIN s = {"verb"} \cup SHAPES[s.verb]
       /\ s.verb \in {"navigate", "newTab"} => s.url \in Origins
       /\ s.verb = "switchTab" => s.tabId >= 0
       /\ s.verb = "clickAt" => s.x >= 0 /\ s.y >= 0

Mutates(steps) == \E s \in ToSet(steps) : s.verb \in MutatingOnServer

\* The grant travels with the batch only when a step needs it.
AskBatch(b) ==
  /\ batchesAsked < BatchesMax /\ work.at = "idle" /\ batchesAsked' = batchesAsked + 1
  /\ validateSteps(b.steps) /\ (Mutates(b.steps) => b.target \in Granted)
  /\ batch' = [steps |-> b.steps, meant |-> seen.els,
               grant |-> IF Mutates(b.steps) THEN "act" ELSE "none", target |-> IF Mutates(b.steps) THEN b.target ELSE "none"]
  /\ work' = [NoWork EXCEPT !.at = "segment"] /\ results' = [i \in DOMAIN b.steps |-> Unset]
  /\ UNCHANGED <<tabs, agentAt, seen, taken, told, acts, pageEdits>>

-----------------------------------------------------------------------------
(* Pages by themselves *)

\* The step is over, with its result.
InPage(ok, code) == [work EXCEPT !.i = work.i + 1, !.inPage = Append(work.inPage, [ok |-> ok, code |-> code])]

\* The page of a snapshot is no longer what it was.
TouchedIn(t, snap) == [els |-> snap.els, tab |-> snap.tab, same |-> snap.same /\ t # snap.tab]
PageTouched(t) == seen' = TouchedIn(t, seen) /\ taken' = [i \in DOMAIN taken |-> TouchedIn(t, taken[i])]

\* A script of the page adds or removes an element, whenever none of our code is running in it.
PageChanges(t) ==
  /\ pageEdits < PageEdits /\ tabs[t].origin \in Origins /\ work.at # "page" /\ pageEdits' = pageEdits + 1
  /\ LET els == tabs[t].els IN
     \E new \in {IF els = <<>> THEN els ELSE Tail(els)} \cup {<<e>> \o els : e \in DOMAIN RolesOf \ ToSet(els)} :
       tabs' = [tabs EXCEPT ![t].els = new]
  /\ PageTouched(t) /\ UNCHANGED <<agentAt, batch, work, results, told, acts, batchesAsked>>

\* The page loads late; a navigation that waits for a load takes this one for its own.
PageLoads(t) ==
  /\ tabs[t].win # 0 /\ ~tabs[t].ready /\ tabs' = [tabs EXCEPT ![t].ready = TRUE]
  /\ IF work.at = "loading" /\ work.tab = t
     THEN work' = [InPage(TRUE, "none") EXCEPT !.at = "page", !.refs = collectInteractive(tabs[t].els),
                                               !.fresh = seen.tab = t /\ seen.same]
     ELSE work' = work
  /\ UNCHANGED <<agentAt, seen, batch, results, taken, told, acts, pageEdits, batchesAsked>>

\* The page is left for another: what runs in it goes with it.
Arrives(t) ==
  /\ tabs[t].leaving # "no" /\ work.at # "page"
  /\ \E r \in BOOLEAN : tabs' = [tabs EXCEPT ![t] = [PageAt(tabs[t].win, tabs[t].leaving) EXCEPT !.ready = r]]
  /\ IF work.tab = t /\ work.at \in {"loading", "waiting", "return"} THEN work' = [work EXCEPT !.at = "torn"]
     ELSE IF work.tab = t /\ work.at = "opening" THEN work' = [work EXCEPT !.at = "opened"] ELSE work' = work
  /\ seen' = TouchedIn(t, seen)
  /\ LET kept == IF work'.at = "torn" /\ work.at = "return" THEN Front(taken) ELSE taken   \* its last snapshot is lost
     IN taken' = [i \in DOMAIN kept |-> TouchedIn(t, kept[i])]
  /\ UNCHANGED <<agentAt, batch, results, told, acts, pageEdits, batchesAsked>>

\* The owner closes a tab, at the cost of an edit.
Closes(t) ==
  /\ pageEdits < PageEdits /\ tabs[t].win # 0 /\ pageEdits' = pageEdits + 1 /\ work.at # "page"
  /\ tabs' = [tabs EXCEPT ![t] = NoTab]
  /\ work' = IF work.tab = t /\ work.at \in {"inject", "loading", "waiting", "return"} THEN [work EXCEPT !.at = "thrown"] ELSE work
  /\ PageTouched(t) /\ UNCHANGED <<agentAt, batch, results, told, acts, batchesAsked>>

-----------------------------------------------------------------------------
(* The worker *)

\* Maximal runs of page steps, and the tab steps between them: the places where each begins.
IsTab(i) == batch.steps[i].verb \in TAB_VERBS
splitSegments ==
  OnlyIn([i \in DOMAIN batch.steps |-> i], {i \in DOMAIN batch.steps : IsTab(i) \/ i = 1 \/ IsTab(i - 1)})
SegStart == splitSegments[work.seg]
SegEnd == IF work.seg < Len(splitSegments) THEN splitSegments[work.seg + 1] - 1 ELSE Len(batch.steps)

Result(ok, code, i) == [ok |-> ok, code |-> code, of |-> batch.steps[i].verb]
Free == {t \in 1..PageTabs : tabs[t].win = 0}
FirstFree == CHOOSE t \in Free : \A u \in Free : t <= u
Present(t) == t # 0 /\ tabs[t].win = agentAt.win

\* Results go out in the order of their steps; slots without one are left out.
Compact(rs) == OnlyIn([i \in DOMAIN rs |-> i], {i \in DOMAIN rs : rs[i].code # "unset"})

\* A segment starts in the recorded tab, or in a window made anew when that one is gone.
AgentTab ==
  /\ work.at = "segment" /\ work.seg <= Len(splitSegments)
  /\ IF Present(agentAt.tab) THEN UNCHANGED <<tabs, agentAt>>
     ELSE /\ Free # {}
          /\ LET w == 1 + Cardinality({tabs[t].win : t \in 1..PageTabs} \cup {agentAt.win}) IN
             /\ tabs' = [tabs EXCEPT ![FirstFree] = PageAt(w, "blank")] /\ agentAt' = [win |-> w, tab |-> FirstFree]
  /\ work' = [work EXCEPT !.tab = agentAt'.tab, !.at = IF IsTab(SegStart) THEN "tabStep" ELSE "script"]
  /\ UNCHANGED <<seen, batch, results, taken, told, acts, pageEdits, batchesAsked>>

NoPageYet ==
  /\ work.at = "script" /\ tabs[work.tab].origin = "blank"
  /\ results' = [results EXCEPT ![SegStart] = Result(FALSE, "no_page", SegStart)] /\ work' = [work EXCEPT !.at = "send"]
  /\ UNCHANGED <<tabs, agentAt, seen, batch, taken, told, acts, pageEdits, batchesAsked>>

ScriptSent ==
  /\ work.at = "script" /\ tabs[work.tab].origin # "blank"
  /\ work' = [work EXCEPT !.at = IF tabs[work.tab].win = 0 THEN "thrown" ELSE "inject"]
  /\ UNCHANGED <<tabs, agentAt, seen, batch, results, taken, told, acts, pageEdits, batchesAsked>>

\* References are resolved once for the steps of the segment.
buildRefMap(els) == collectInteractive(els)

executeSteps ==
  /\ work.at = "inject"
  /\ work' = [work EXCEPT !.at = "page", !.i = SegStart, !.inPage = <<>>, !.refs = buildRefMap(tabs[work.tab].els),
                          !.fresh = seen.tab = work.tab /\ seen.same]
  /\ UNCHANGED <<tabs, agentAt, seen, batch, results, taken, told, acts, pageEdits, batchesAsked>>

-----------------------------------------------------------------------------
(* One step in the page *)

AtStep == work.at = "page" /\ work.i <= SegEnd /\ (work.inPage # <<>> => Last(work.inPage).ok)
BatchStep == batch.steps[work.i]

\* What hinders a change: no grant, or a page of another site, looked at step by step.
Barred(o) ==
  IF batch.grant # "act" THEN "no_grant" ELSE IF o # batch.target THEN "origin_mismatch" ELSE "none"
(* Mutant of OriginNow: the site is looked at once, when the segment starts. *)
OriginAtStart == batch.target
OriginNow == tabs[work.tab].origin

NeedsRef(s) == "ref" \in SHAPES[s.verb]
RefMissing(s) == NeedsRef(s) /\ s.ref > Len(work.refs)

\* The page may answer a click or a key with an element less, one more, or another page.
Responses(t) ==
  LET p == tabs[t] IN
  {p} \cup (IF pageEdits = PageEdits THEN {}
            ELSE {[p EXCEPT !.els = IF p.els = <<>> THEN p.els ELSE Tail(p.els)]}
                 \cup {[p EXCEPT !.els = <<e>> \o p.els] : e \in DOMAIN RolesOf \ ToSet(p.els)}
                 \cup {[p EXCEPT !.leaving = o] : o \in Origins})

runMutation ==
  /\ AtStep /\ BatchStep.verb \in MutatingInPage /\ Barred(OriginNow) = "none" /\ ~RefMissing(BatchStep)
  /\ \E p \in Responses(work.tab) :
       /\ tabs' = [tabs EXCEPT ![work.tab] = p] /\ pageEdits' = IF p = tabs[work.tab] THEN pageEdits ELSE pageEdits + 1
       /\ IF p = tabs[work.tab] THEN UNCHANGED <<seen, taken>> ELSE PageTouched(work.tab)
  /\ acts' = acts \cup {[el |-> IF NeedsRef(BatchStep) THEN work.refs[BatchStep.ref] ELSE "focused", fresh |-> work.fresh,
                         meant |-> IF NeedsRef(BatchStep) /\ BatchStep.ref <= Len(batch.meant) THEN batch.meant[BatchStep.ref] ELSE "none",
                         origin |-> tabs[work.tab].origin, grant |-> batch.grant, target |-> batch.target]}
  /\ work' = InPage(TRUE, "none")
  /\ UNCHANGED <<agentAt, batch, results, told, batchesAsked>>

StepRefused ==
  /\ AtStep
  /\ \/ BatchStep.verb \in MutatingInPage /\ Barred(OriginNow) # "none" /\ work' = InPage(FALSE, Barred(OriginNow))
     \/ BatchStep.verb = "navigate" /\ Barred(BatchStep.url) # "none" /\ work' = InPage(FALSE, Barred(BatchStep.url))
     \/ BatchStep.verb \in MutatingInPage \cup {"read"} /\ RefMissing(BatchStep)
        /\ (BatchStep.verb # "read" => Barred(OriginNow) = "none") /\ work' = InPage(FALSE, "stale_ref")
     \/ BatchStep.verb \in {"clickAt", "screenshot"} /\ work' = InPage(FALSE, "unsupported_verb")
  /\ UNCHANGED <<tabs, agentAt, seen, batch, results, taken, told, acts, pageEdits, batchesAsked>>

StepReads ==
  /\ AtStep /\ BatchStep.verb \in {"snapshot", "read"} /\ ~RefMissing(BatchStep)
  /\ work' = InPage(TRUE, "none")
  /\ UNCHANGED <<tabs, agentAt, seen, batch, results, taken, told, acts, pageEdits, batchesAsked>>

\* Assigns the location and waits for a load.
navigateAndWait ==
  /\ AtStep /\ BatchStep.verb = "navigate" /\ Barred(BatchStep.url) = "none"
  /\ tabs' = [tabs EXCEPT ![work.tab].leaving = BatchStep.url] /\ work' = [work EXCEPT !.at = "loading"]
  /\ acts' = acts \cup {[el |-> "location", meant |-> "location", fresh |-> TRUE, origin |-> BatchStep.url, grant |-> batch.grant, target |-> batch.target]}
  /\ UNCHANGED <<agentAt, seen, batch, results, taken, told, pageEdits, batchesAsked>>

waitForText ==
  /\ AtStep /\ BatchStep.verb = "wait" /\ work' = [work EXCEPT !.at = "waiting"]
  /\ UNCHANGED <<tabs, agentAt, seen, batch, results, taken, told, acts, pageEdits, batchesAsked>>

\* The text is there: references are resolved again, on the page as it is now.
TextFound ==
  /\ work.at = "waiting"
  /\ work' = [InPage(TRUE, "none") EXCEPT !.at = "page", !.refs = buildRefMap(tabs[work.tab].els), !.fresh = seen.tab = work.tab /\ seen.same]
  /\ UNCHANGED <<tabs, agentAt, seen, batch, results, taken, told, acts, pageEdits, batchesAsked>>

WaitedOut ==
  /\ work.at \in {"waiting", "loading"}
  /\ work' = [InPage(FALSE, IF work.at = "waiting" THEN "wait_timeout" ELSE "navigation_timeout") EXCEPT !.at = "page"]
  /\ UNCHANGED <<tabs, agentAt, seen, batch, results, taken, told, acts, pageEdits, batchesAsked>>

-----------------------------------------------------------------------------
(* Back in the worker *)

\* The steps are over: a snapshot is built in the same turn, and handed over unless the page goes first.
StepsOver ==
  /\ work.at = "page" /\ ~AtStep
  /\ work' = [work EXCEPT !.at = "return", !.shot = SegStart]
  /\ taken' = Append(taken, [els |-> collectInteractive(tabs[work.tab].els), tab |-> work.tab, same |-> TRUE])
  /\ UNCHANGED <<tabs, agentAt, seen, batch, results, told, acts, pageEdits, batchesAsked>>

AnyRefused(rs) == \E i \in DOMAIN rs : ~rs[i].ok
(* Mutant of NextSegment: what was refused in one segment does not stop the next. *)
NextSegmentAnyway(rs) == [work EXCEPT !.at = IF work.seg = Len(splitSegments) THEN "send" ELSE "segment", !.seg = work.seg + 1]
NextSegment(rs) == [work EXCEPT !.at = IF AnyRefused(rs) \/ work.seg = Len(splitSegments) THEN "send" ELSE "segment", !.seg = work.seg + 1]

\* Slot by slot: the worker takes the screenshots itself, and stops at the first slot without a result.
FillSlot ==
  /\ work.at \in {"return", "fill"}
  /\ LET i == work.shot
         j == i - SegStart + 1 IN
     IF i > SegEnd \/ (j > Len(work.inPage) /\ batch.steps[i].verb # "screenshot")
     THEN work' = NextSegment(results) /\ results' = results
     ELSE /\ \/ /\ batch.steps[i].verb = "screenshot"
               /\ \E shown \in BOOLEAN : results' = [results EXCEPT ![i] = Result(shown, IF shown THEN "none" ELSE "screenshot_failed", i)]
            \/ /\ batch.steps[i].verb # "screenshot"
               /\ results' = [results EXCEPT ![i] = Result(work.inPage[j].ok, work.inPage[j].code, i)]
          /\ work' = [work EXCEPT !.shot = work.shot + 1, !.at = "fill"]
  /\ UNCHANGED <<tabs, agentAt, seen, batch, taken, told, acts, pageEdits, batchesAsked>>

\* No result came back: one refusal in the first slot stands for the whole segment.
Torn ==
  /\ work.at = "torn"
  /\ results' = [results EXCEPT ![SegStart] = Result(FALSE, "page_navigated", SegStart)] /\ work' = NextSegment(results')
  /\ UNCHANGED <<tabs, agentAt, seen, batch, taken, told, acts, pageEdits, batchesAsked>>

TabStepDone(r) == results' = [results EXCEPT ![SegStart] = r] /\ work' = NextSegment(results')

runTabStep ==
  /\ work.at = "tabStep"
  /\ LET s == batch.steps[SegStart] IN
     \/ s.verb = "tabs" /\ TabStepDone(Result(TRUE, "none", SegStart)) /\ UNCHANGED <<tabs, agentAt, acts>>
     \/ /\ s.verb = "switchTab" /\ UNCHANGED <<tabs, acts>>
        /\ IF s.tabId \in 1..PageTabs /\ Present(s.tabId)
           THEN TabStepDone(Result(TRUE, "none", SegStart)) /\ agentAt' = [agentAt EXCEPT !.tab = s.tabId]
           ELSE TabStepDone(Result(FALSE, "none", SegStart)) /\ UNCHANGED <<agentAt>>
     \/ /\ s.verb = "newTab" /\ UNCHANGED agentAt
        /\ IF Barred(s.url) # "none"
           THEN TabStepDone(Result(FALSE, Barred(s.url), SegStart)) /\ UNCHANGED <<tabs, acts>>
           ELSE /\ Free # {}
                /\ tabs' = [tabs EXCEPT ![FirstFree] = [PageAt(agentAt.win, "blank") EXCEPT !.leaving = s.url]]
                /\ acts' = acts \cup {[el |-> "tab", meant |-> "tab", fresh |-> TRUE, origin |-> s.url, grant |-> batch.grant, target |-> batch.target]}
                /\ work' = [work EXCEPT !.at = "opening", !.tab = FirstFree] /\ results' = results
  /\ UNCHANGED <<seen, batch, taken, told, pageEdits, batchesAsked>>

\* The new tab is recorded once it loaded; one that is slow stays open, unrecorded.
TabLoaded ==
  /\ work.at = "opened" /\ TabStepDone(Result(TRUE, "none", SegStart)) /\ agentAt' = [agentAt EXCEPT !.tab = work.tab]
  /\ UNCHANGED <<tabs, seen, batch, taken, told, acts, pageEdits, batchesAsked>>

TabSlow ==
  /\ work.at = "opening" /\ TabStepDone(Result(FALSE, "navigation_timeout", SegStart))
  /\ UNCHANGED <<tabs, agentAt, seen, batch, taken, told, acts, pageEdits, batchesAsked>>

SendResults ==
  /\ work.at = "send"
  /\ told' = [steps |-> batch.steps, of |-> Compact(results), lost |-> FALSE,
                results |-> [i \in DOMAIN Compact(results) |-> results[Compact(results)[i]]]]
  /\ seen' = (IF taken = <<>> THEN Nothing ELSE Last(taken)) /\ taken' = <<>>
  /\ work' = NoWork /\ batch' = NoBatch /\ results' = <<>> /\ UNCHANGED <<tabs, agentAt, acts, pageEdits, batchesAsked>>

\* An exception of the browser: one error stands for all, and what was done is not said.
Thrown ==
  /\ work.at = "thrown" /\ seen' = Nothing /\ taken' = <<>>
  /\ told' = [steps |-> batch.steps, of |-> <<>>, lost |-> TRUE, results |-> <<[ok |-> FALSE, code |-> "none", of |-> "none"]>>]
  /\ work' = NoWork /\ batch' = NoBatch /\ results' = <<>> /\ UNCHANGED <<tabs, agentAt, acts, pageEdits, batchesAsked>>

PageNext ==
  \/ \E b \in PageAsks : AskBatch(b)
  \/ \E t \in 1..PageTabs : PageChanges(t) \/ PageLoads(t) \/ Arrives(t) \/ Closes(t)
  \/ AgentTab \/ NoPageYet \/ ScriptSent \/ executeSteps \/ runMutation \/ StepRefused \/ StepReads \/ navigateAndWait
  \/ waitForText \/ TextFound \/ WaitedOut \/ StepsOver \/ FillSlot \/ Torn \/ runTabStep \/ TabLoaded \/ TabSlow
  \/ SendResults \/ Thrown

-----------------------------------------------------------------------------
(* Marks, and the words of a refusal *)

\* A box of the page within the captured frame, or none; sizes of the frame that are not known do not bound it.
toDeviceBox(r, vp) ==
  LET dpr == IF vp.dpr > 0 THEN vp.dpr ELSE 1
      vx == r.x - vp.scrollX
      vy == r.y - vp.scrollY
  IN IF \/ r.w <= 0 \/ r.h <= 0 \/ vx + r.w <= 0 \/ vy + r.h <= 0
        \/ vp.viewportW > 0 /\ vx >= vp.viewportW
        \/ vp.viewportH > 0 /\ vy >= vp.viewportH
     THEN <<>> ELSE <<[left |-> vx * dpr, top |-> vy * dpr, width |-> r.w * dpr, height |-> r.h * dpr]>>

\* The nodes with a box in the frame, numbered from 1 on; a number resolves by the table alone.
markableNodes(nodes, vp) == OnlyIn(nodes, {n \in ToSet(nodes) : n.rect # <<>> /\ toDeviceBox(n.rect[1], vp) # <<>>})
composeMarks(nodes, vp) == [i \in DOMAIN markableNodes(nodes, vp) |-> [mark |-> i, ref |-> markableNodes(nodes, vp)[i].ref]]
resolveMark(marks, m) == IF m \in DOMAIN marks THEN <<marks[m].ref>> ELSE <<>>

\* A marks batch is a snapshot and a screenshot; its frame is taken from the second result.
MarksSteps == <<[verb |-> "snapshot"], [verb |-> "screenshot"]>>
runMarks(rs) == IF Len(rs) >= 2 /\ rs[2].ok THEN <<rs[2].of>> ELSE <<>>

\* The refusals a caller gets a sentence for.
Sentences == {"stale_ref", "unsupported_verb", "no_grant", "origin_mismatch", "navigation_timeout", "screenshot_failed",
              "out_of_viewport", "no_element", "no_page", "page_navigated", "wait_timeout"}

-----------------------------------------------------------------------------
(* What must hold *)

\* A pixel of the element is on the frame.
OnFrame(x, w, scroll, size) == \E p \in x .. x + w - 1 : p >= scroll /\ (size > 0 => p < scroll + size)

\* The marks of a snapshot are those of its nodes that show, and the number on a box resolves to the node under it.
MarkFrame == [dpr |-> 1, scrollX |-> 1, scrollY |-> 0, viewportW |-> 1, viewportH |-> 1]
BoxAt(x) == <<[x |-> x, y |-> 0, w |-> 1, h |-> 1]>>
Shows(b) == b # <<>> /\ b[1].x = 1
MarkedRight(nodes) ==
  LET marks == composeMarks(nodes, MarkFrame) IN
  /\ \A m \in 0..4 : resolveMark(marks, m) # <<>> => Shows(nodes[resolveMark(marks, m)[1]].rect)
  /\ Len(marks) = Cardinality({n \in DOMAIN nodes : Shows(nodes[n].rect)})
MarksRight ==
  /\ \A x, w, scroll, size \in Lengths :
       (toDeviceBox([x |-> x, y |-> 0, w |-> w, h |-> 1], [dpr |-> 2, scrollX |-> scroll, scrollY |-> 0, viewportW |-> size, viewportH |-> 1]) # <<>>)
         <=> OnFrame(x, w, scroll, size)
  /\ \A b1, b2, b3 \in {<<>>} \cup {BoxAt(x) : x \in Lengths} :
       MarkedRight(<<[ref |-> 1, rect |-> b1], [ref |-> 2, rect |-> b2], [ref |-> 3, rect |-> b3]>>)

\* A control has a name when it, the first label for it or a label around it says something; an anchor is a
\* path of landmarks or one heading that stands before it.
NodesRight ==
  /\ \A c \in [aria : 0..1, labels : {<<>>, <<0, 2>>, <<2>>}, around : {<<>>, <<0, 3>>, <<3, 4>>}, text : {0, 5}] :
       /\ AccessibleName(c) = 0 => c.aria = 0 /\ c.text = 0 /\ c.labels # <<2>> /\ c.around = <<>>
       /\ c.aria # 0 => AccessibleName(c) = c.aria
       /\ AccessibleName(c) = c.text \/ AccessibleName(c) \in {1, 2, 3}
  /\ \A around \in {<<>>, <<"plain">>, <<"form", "plain", "main">>}, hs \in SUBSET (1..3), place \in 1..4 :
       LET a == AnchorPath(around, hs, place) IN
       /\ Len(around) = 3 => a = <<"main", "form">>
       /\ Len(around) < 3 => (a = <<>> <=> \A h \in hs : h >= place) /\ \A h \in ToSet(a) : h \in hs /\ h < place

\* Every change to a page, by a step, a navigation or a new tab, had the grant of the site it happened on, however
\* the page moved between the steps; and a click whose references were resolved on a page that is as the caller saw
\* it strikes the element the caller named, even when an earlier step changed the page meanwhile.
PageInv ==
  /\ \A a \in acts : a.grant = "act" /\ a.target \in Granted /\ a.origin = a.target
  /\ \A a \in acts : a.fresh /\ a.meant # "none" => a.el = a.meant

\* The results of a batch without screenshots are those of its first steps, only the last may be a refusal, and
\* without one they are all; the frame of a marks batch is its screenshot; each refusal with a code has its sentence.
ToldRight ==
  LET rs == told.results
      unseen == \A s \in ToSet(told.steps) : s.verb # "screenshot" IN
  /\ ~told.lost /\ unseen =>
       /\ told.of = [i \in DOMAIN rs |-> i] /\ \A i \in DOMAIN rs : ~rs[i].ok => i = Len(rs)
       /\ AnyRefused(rs) \/ Len(rs) = Len(told.steps)
  /\ told.steps = MarksSteps /\ runMarks(rs) # <<>> => runMarks(rs) = <<"screenshot">>
  /\ \A i \in DOMAIN rs : rs[i].code \in Sentences \cup {"none"}

\* The role a control is listed under is one of its own.
RolesRight == \A t \in 1..PageTabs : \A e \in ToSet(collectInteractive(tabs[t].els)) : RoleGiven(e) \in RolesOf[e]

\* What a caller reads is what was there: the results it is told, and the roles, names, anchors and marks of a
\* snapshot.
PageRead == ToldRight /\ RolesRight /\ MarksRight /\ NodesRight
=============================================================================
