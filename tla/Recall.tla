-------------------------------- MODULE Recall --------------------------------
(***************************************************************************)
(* What is found again: the search of the knowledge index and the choice   *)
(* of its graph (src/services/knowledge.ts), the memory block of a prompt  *)
(* (src/services/recall.ts) and the check for a thing that exists already  *)
(* (src/services/preflight.ts).  Each is a function of what is stored; a   *)
(* step asks one question of one store.                                    *)
(*                                                                         *)
(* Abstracted: a row has its distance and its age as small numbers; a      *)
(* note's id is its reference; lines of text are their lengths.            *)
(***************************************************************************)
EXTENDS Integers, FiniteSets, SequencesExt

CONSTANTS
  IndexRows,      \* rows to choose stores from: kind, ref, project, dim, far, age
  RowsMax,        \* bound: rows in a store
  NoteKinds,      \* per note reference its kind: "rule", "decision" or "note"
  HitsMax,        \* opts.limit of a search; four times as many are ranked again
  MaxDecisions, MaxKnowledge,  \* caps of a recall
  BlockSizes, BlockMax,        \* lengths of lines; the cap of the block
  GraphRows, GraphLimits,      \* rows of a graph, numbered by kind and newest first, and its limits
  Artifacts, TriggerRows       \* artifact blocks; rows findByTrigger returns

ASSUME RecallAssumption ==
  /\ RowsMax \in Nat /\ HitsMax \in Nat /\ MaxDecisions \in Nat /\ MaxKnowledge \in Nat
  /\ BlockSizes \subseteq Nat /\ BlockMax \in Nat /\ GraphLimits \subseteq Nat /\ TriggerRows \in Nat

VARIABLE asking  \* the question and the store it is asked of

recallVars == <<asking>>
RecallInit == asking = [about |-> "nothing"]

FirstOf(s, n) == SubSeq(s, 1, IF n < Len(s) THEN n ELSE Len(s))
Ranked(S, Rank(_)) == [i \in 1..Cardinality(S) |-> CHOOSE x \in S : Cardinality({y \in S : Rank(y) < Rank(x)}) = i - 1]

-------------------------------------------------------------------------------
(* Search.                                                                  *)

\* projectScopeWhere or globalScopeWhere; without a project everything.
InScope(row, project) == project = "none" \/ row.project \in {project, "none"}
Score(row) == -(row.far + 1) * (row.age + 1)

\* The nearest rows of the active dimension and the scope, ranked again by nearness and age.
searchKnowledge(rows, project) ==
  LET scoped == {row \in rows : row.dim = 1 /\ InScope(row, project)}
      pool   == FirstOf(Ranked(scoped, LAMBDA row : row.far), 4 * HitsMax)
  IN  FirstOf(SortSeq(pool, LAMBDA a, b : Score(a) > Score(b)), HitsMax)

-------------------------------------------------------------------------------
(* Recall.                                                                  *)

\* The kind of the note a hit is a chunk of.
TypedAs(hit) == IF hit.kind = "note" /\ hit.ref \in DOMAIN NoteKinds THEN NoteKinds[hit.ref] ELSE "none"

(* Mutant of partitionHits: a decision is not looked up among those taken.  *)
partitionTwice(hits) ==
  [decisions |-> FirstOf(SelectSeq(hits, LAMBDA h : TypedAs(h) = "decision"), MaxDecisions),
   knowledge |-> FirstOf(SelectSeq(hits, LAMBDA h : TypedAs(h) \notin {"decision", "rule"}), MaxKnowledge)]
\* A decision once, however many of its chunks are hits; a rule never; the rest is knowledge.
partitionHits(hits) ==
  LET once == FoldLeft(LAMBDA seen, h : IF TypedAs(h) # "decision" \/ \E i \in DOMAIN seen : seen[i].ref = h.ref
                                        THEN seen ELSE Append(seen, h), <<>>, hits)
  IN  [decisions |-> FirstOf(once, MaxDecisions),
       knowledge |-> FirstOf(SelectSeq(hits, LAMBDA h : TypedAs(h) \notin {"decision", "rule"}), MaxKnowledge)]

Total(s) == FoldLeft(LAMBDA a, b : a + b, 0, s)
Section(s) == IF s = <<>> THEN 0 ELSE 1 + Total(s)
RenderedLen(block) == 1 + Section(block.rules) + Section(block.decisions) + Section(block.knowledge)

\* Knowledge is cut from its end until the block fits, then decisions are; rules stay.
formatRecall(r) ==
  LET Fits(d, k) == RenderedLen([rules |-> r.rules, decisions |-> FirstOf(r.decisions, d), knowledge |-> FirstOf(r.knowledge, k)]) <= BlockMax
      dAll == Len(r.decisions)
      ks == {k \in 0..Len(r.knowledge) : Fits(dAll, k)}
      ds == {d \in 0..dAll : Fits(d, 0)}
  IN  [rules |-> r.rules,
       decisions |-> FirstOf(r.decisions, IF ks # {} THEN dAll ELSE IF ds # {} THEN Max(ds) ELSE 0),
       knowledge |-> FirstOf(r.knowledge, IF ks # {} THEN Max(ks) ELSE 0)]

-------------------------------------------------------------------------------
(* The graph.                                                               *)

KindsIn(rows) == FoldLeft(LAMBDA ks, row : IF Contains(ks, row.kind) THEN ks ELSE Append(ks, row.kind), <<>>, rows)

\* Each kind gives its newest row in turn until there are enough.
budgetByKind(rows, limit) ==
  LET OfKind(k) == SelectSeq(rows, LAMBDA row : row.kind = k)
      Round(i) == SelectSeq([j \in DOMAIN KindsIn(rows) |-> IF i <= Len(OfKind(KindsIn(rows)[j])) THEN <<OfKind(KindsIn(rows)[j])[i]>> ELSE <<>>],
                            LAMBDA one : one # <<>>)
  IN  FirstOf(FlattenSeq(FlattenSeq([i \in 1..Len(rows) |-> Round(i)])), limit)

\* The nodes of a project's graph: a quarter is kept for what every project shares.
knowledgeGraph(rows, limit) ==
  LET mine   == budgetByKind(SelectSeq(rows, LAMBDA row : row.project = "p"), limit)
      shared == budgetByKind(SelectSeq(rows, LAMBDA row : row.project = "none"), limit)
      kept   == FirstOf(shared, limit \div 4)
      taken  == FirstOf(mine, limit - Len(kept))
      upTo   == FirstOf(shared, limit - Len(taken))
  IN  FirstOf(taken \o kept \o SubSeq(upTo, Len(kept) + 1, Len(upTo)), limit)

clampGraphLimit(raw) == IF raw > 0 THEN (IF raw < 1000 THEN raw ELSE 1000) ELSE 60

-------------------------------------------------------------------------------
(* Preflight.                                                               *)

\* confirmObjection: the same trigger and at least one resource in common.
confirmObjection(request, block) ==
  block.id # "" /\ request.trigger # "none" /\ request.trigger = block.trigger /\ request.uses \cap block.uses # {}

SameTrigger(request, stored) == {b \in stored : request.trigger # "none" /\ b.trigger = request.trigger}

\* What preflightDuplicateCheck may cite: of the rows with the trigger, some when they are many; else of similar ones.
Objections(request, stored, byTrigger, similar) ==
  LET confirmed(bs) == {b \in bs : confirmObjection(request, b)} IN
  IF confirmed(byTrigger) # {} THEN confirmed(byTrigger) ELSE confirmed(similar)

\* recordDecision stores the block again with what was chosen.
recordDecision(block, stored) == stored \cup {[block EXCEPT !.id = "decided"]}

-------------------------------------------------------------------------------
Asks(question) == asking.about = "nothing" /\ asking' = question

AskSearch == \E rows \in SUBSET IndexRows, project \in {"p", "q", "none"} :
  Cardinality(rows) <= RowsMax /\ Asks([about |-> "search", rows |-> rows, project |-> project])
AskHits == \E hits \in BoundedSeq([kind : {"note"}, ref : DOMAIN NoteKinds] \cup {[kind |-> "vault", ref |-> "v"]}, RowsMax) :
  Asks([about |-> "hits", hits |-> hits])
AskBlock == \E rules, decisions, knowledge \in BoundedSeq(BlockSizes, 2) :
  Asks([about |-> "block", rules |-> rules, decisions |-> decisions, knowledge |-> knowledge])
AskGraph == \E rows \in SUBSET GraphRows, limit \in GraphLimits :
  Asks([about |-> "graph", limit |-> clampGraphLimit(limit),
        rows |-> Ranked(rows, LAMBDA row : row.n)])
AskPreflight == \E request \in Artifacts, stored \in SUBSET Artifacts :
  LET many == SameTrigger(request, stored) IN
  \E byTrigger \in kSubset(Min({TriggerRows, Cardinality(many)}), many), similar \in SUBSET stored :
       Asks([about |-> "preflight", request |-> request, stored |-> stored, byTrigger |-> byTrigger, similar |-> similar])

RecallNext == AskSearch \/ AskHits \/ AskBlock \/ AskGraph \/ AskPreflight

-------------------------------------------------------------------------------
Beats(a, b) == a.far <= b.far /\ a.age <= b.age /\ (a.far < b.far /\ a.age < b.age)

\* A search stays in its scope and dimension, and no hit stands in for a row both nearer and newer.
SearchSound ==
  asking.about = "search" => LET hits == ToSet(searchKnowledge(asking.rows, asking.project)) IN
    /\ \A h \in hits : h.dim = 1 /\ InScope(h, asking.project)
    /\ \A row \in asking.rows \ hits : row.dim = 1 /\ InScope(row, asking.project) => \A h \in hits : ~Beats(row, h)

\* Of the hits the first decisions and the first other chunks are recalled, each decision once and no rule.
PartitionSound ==
  asking.about = "hits" => LET r == partitionHits(asking.hits)  all == ToSet(asking.hits) IN
    /\ Cardinality(ToSet(r.decisions)) = Len(r.decisions)
    /\ \A h \in ToSet(r.decisions) \cup ToSet(r.knowledge) : h \in all /\ TypedAs(h) # "rule"
    /\ Len(r.decisions) < MaxDecisions => \A h \in all : TypedAs(h) = "decision" => h \in ToSet(r.decisions)

\* A block longer than its cap is one of rules alone; what is cut would not have fitted, and knowledge goes first.
BlockFits ==
  asking.about = "block" => LET out == formatRecall(asking)
                                More(f) == [out EXCEPT ![f] = FirstOf(asking[f], Len(out[f]) + 1)] IN
    /\ out.rules = asking.rules
    /\ RenderedLen(out) > BlockMax => out.decisions = <<>> /\ out.knowledge = <<>>
    /\ out.knowledge # <<>> => out.decisions = asking.decisions
    /\ out.knowledge # asking.knowledge /\ out.decisions = asking.decisions => RenderedLen(More("knowledge")) > BlockMax
    /\ out.decisions # asking.decisions => RenderedLen(More("decisions")) > BlockMax

\* A graph shows as many rows as it may, each once; a row stays out only for as many others of its
\* group, and what is shared keeps its quarter.
GraphFair ==
  asking.about = "graph" => LET nodes == knowledgeGraph(asking.rows, asking.limit)
                                Group(g) == {row \in ToSet(asking.rows) : row.project = g}
                                Shown(g) == Group(g) \cap ToSet(nodes) IN
    /\ Cardinality(ToSet(nodes)) = Len(nodes)
    /\ Len(nodes) = Min({asking.limit, Cardinality(Group("p") \cup Group("none"))})
    /\ Cardinality(Shown("none")) >= Min({asking.limit \div 4, Cardinality(Group("none"))})
    /\ Group("p") # Shown("p") => Cardinality(Shown("none")) <= asking.limit \div 4
    /\ \A row \in Group("p") \ Shown("p") : \A other \in Shown("p") : other.kind = row.kind => other.n < row.n

\* What exists is objected to with a block that shares trigger and resource, unless more rows share the
\* trigger than are read; a decision that was recorded is found by the same request.
PreflightSound ==
  asking.about = "preflight" =>
    LET cited == Objections(asking.request, asking.stored, asking.byTrigger, asking.similar)
        again == recordDecision(asking.request, asking.stored) IN
    /\ \A b \in cited : b \in asking.stored /\ confirmObjection(asking.request, b)
    /\ Cardinality(SameTrigger(asking.request, asking.stored)) <= TriggerRows =>
         ((cited = {}) <=> \A b \in asking.stored : ~confirmObjection(asking.request, b))
    /\ asking.request.trigger # "none" /\ asking.request.uses # {} /\ Cardinality(SameTrigger(asking.request, again)) <= TriggerRows
         => Objections(asking.request, again, SameTrigger(asking.request, again), {}) # {}

\* What is asked of the index is answered from what is stored, within its caps.
RecallInv == SearchSound /\ PartitionSound /\ BlockFits /\ GraphFair /\ PreflightSound
===============================================================================
