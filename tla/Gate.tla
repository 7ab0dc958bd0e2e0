--------------------------------- MODULE Gate ---------------------------------
(***************************************************************************)
(* The review of a change in its sandbox (reviewStage of src/forge/runs.ts *)
(* and src/forge/gate.ts, policy.ts, checks.ts, review-chunks.ts).         *)
(*                                                                         *)
(* Before the reviewer reads anything, a mechanical gate looks at the      *)
(* change.  One of its checks is a mutation probe: it takes the changed    *)
(* source files back to the base in the sandbox itself, runs the new tests *)
(* against that, and restores the files.  The project's own checks then    *)
(* run in the sandbox beside the reviewer.  A run of a command ends with   *)
(* its exit or its pipes, whichever is first, or after a timeout.          *)
(*                                                                         *)
(* Abstracted: a file is what it is at the base, on the branch, or         *)
(* missing; a directive of the ticket and what a pattern finds in a text   *)
(* are chosen where they are read.  A stop of the run is in ForgeRuns.     *)
(***************************************************************************)
EXTENDS Naturals, FiniteSets, Sequences

CONSTANTS
  GateFiles,      \* the files of the sandbox
  GateTests,      \* those that are tests
  GateDocs,       \* those that are documents
  GateCompanions, \* those drizzle generates from the schema
  GateSchema,     \* the schema itself
  MaxSourceFiles, \* forge.mutationProbe.maxSourceFiles
  GateChanges,    \* what the work stage may have done: [GateFiles -> {"A", "M", "-"}]
  GateLines,      \* the lines of each file, in numbers
  GateCitations,  \* what a document may cite: file, first and last line
  GateCommands,   \* how many checks the project has
  GateReviews     \* bound: reviews of one ticket

ASSUME GateAssumption ==
  /\ GateTests \subseteq GateFiles /\ GateDocs \subseteq GateFiles
  /\ MaxSourceFiles \in Nat /\ GateCommands \in Nat /\ GateReviews \in Nat
  /\ GateChanges \subseteq [GateFiles -> {"A", "M", "-"}]
  /\ GateLines \in [GateFiles -> Nat] /\ GateCitations \subseteq [file : GateFiles, start : Nat, end : Nat]

VARIABLES
  gpc,      \* where the review is
  change,   \* what the branch changes
  onBranch, \* what each changed file is on the branch: "head", or "base" if it was taken back
  inTree,   \* what it is in the sandbox: "head", "base" or "gone"
  found,    \* the checks of the gate that block; what they only warn of is text
  present,  \* what is really wrong with the change, as far as the gate looked
  untested, \* tests the probe has still to run
  cmd,      \* the command that runs in the sandbox
  ran,      \* exit codes of the project's checks so far
  chunks,   \* what the reviewer said of each part of the diff
  result,   \* how the review ended
  broken,   \* history: git failed, or the server died, in the middle of a probe
  gateReviews   \* reviews so far

gateVars == <<gpc, change, onBranch, inTree, found, present, untested, cmd, ran, chunks, result, broken, gateReviews>>

GateChecks == {"secret", "file-set", "mutation", "citation"}
NoCommand == [is |-> "off", timer |-> FALSE, late |-> FALSE, code |-> 0]
NoChange == [f \in GateFiles |-> "-"]
changed == {f \in GateFiles : change[f] # "-"}

GateTypeOK ==
  /\ gpc \in {"idle", "policy", "scan", "file-set", "probe", "delete", "test", "restore", "ac-map",
              "citation", "override", "review", "verdict"}
  /\ change \in GateChanges \cup {NoChange}
  /\ onBranch \in [GateFiles -> {"head", "base"}] /\ inTree \in [GateFiles -> {"head", "base", "gone"}]
  /\ found \subseteq GateChecks /\ present \subseteq GateChecks
  /\ untested \subseteq GateTests
  /\ cmd \in [is : {"off", "up", "exited", "settled"}, timer : BOOLEAN, late : BOOLEAN, code : 0..1]
  /\ result \in {"none", "passed", "rejected", "failed"} /\ gateReviews \in 0..GateReviews

GateInit ==
  /\ gpc = "idle" /\ change = NoChange /\ found = {} /\ present = {} /\ untested = {} /\ cmd = NoCommand
  /\ onBranch = [f \in GateFiles |-> "head"] /\ inTree = [f \in GateFiles |-> "head"]
  /\ ran = <<>> /\ chunks = {} /\ result = "none" /\ broken = FALSE /\ gateReviews = 0

-----------------------------------------------------------------------------
tree == <<onBranch, inTree, broken>>
commands == <<cmd, ran, chunks>>
gateTo(pc) == gpc' = pc /\ UNCHANGED <<change, gateReviews>>

\* A check of the gate may throw; that is a warning and no more.
Threw == UNCHANGED <<found, present>>
Blocks(check, wrong) ==
  IF wrong THEN found' = found \cup {check} /\ present' = present \cup {check} ELSE UNCHANGED <<found, present>>

\* What the worker left is committed, all of it, with what a probe may have left behind it.  The first
\* time the change comes to be; a rework goes on in the same tree.
forgeCommitAll ==
  /\ gpc = "idle" /\ gateReviews < GateReviews
  /\ IF gateReviews = 0 THEN change' \in GateChanges ELSE UNCHANGED change
  /\ onBranch' = [f \in GateFiles |-> IF inTree[f] = "head" THEN "head" ELSE "base"]
  /\ gpc' = "policy" /\ gateReviews' = gateReviews + 1 /\ found' = {} /\ present' = {}
  /\ ran' = <<>> /\ chunks' = {} /\ result' = "none"
  /\ UNCHANGED <<inTree, untested, cmd, broken>>

\* Resumed, the run goes straight to the review of what the branch holds.
ResumeToReview ==
  /\ gpc = "idle" /\ 0 < gateReviews /\ gateReviews < GateReviews /\ result \in {"none", "failed"}
  /\ gpc' = "policy" /\ gateReviews' = gateReviews + 1 /\ found' = {} /\ present' = {}
  /\ ran' = <<>> /\ chunks' = {} /\ result' = "none"
  /\ UNCHANGED <<change, onBranch, inTree, untested, cmd, broken>>

\* The branch takes in the base, or conflicts with it.  A protected path that is touched is told to the
\* reviewer and kept for the promotion; it does not by itself decide the verdict.
evaluateProtectedPaths ==
  /\ gpc = "policy"
  /\ \/ gateTo("scan") /\ UNCHANGED result
     \/ gateTo("idle") /\ result' = "rejected"
  /\ UNCHANGED <<tree, found, present, untested, commands>>

ScanSecrets ==
  /\ gpc = "scan" /\ gateTo("file-set")
  /\ Threw \/ \E secrets \in BOOLEAN : Blocks("secret", secrets)
  /\ UNCHANGED <<tree, untested, commands, result>>

\* A file the plan does not name, no ALLOW-FILES covers and drizzle did not generate.
unexpectedFiles(declared, allowed) ==
  {f \in changed \ (declared \cup allowed) : ~(f \in GateCompanions /\ GateSchema \cap declared # {})}

CheckFileSet ==
  /\ gpc = "file-set" /\ gateTo("probe")
  /\ \/ Threw
     \/ \E declared \in SUBSET changed, allowed \in {{}, changed} :
          Blocks("file-set", unexpectedFiles(declared, allowed) # {})
  /\ UNCHANGED <<tree, untested, commands, result>>

-----------------------------------------------------------------------------
\* New tests beside a few changed sources: what is worth a probe.
probed == changed \ GateTests
newTests == {f \in changed \cap GateTests : change[f] = "A"}
mutationCandidate == newTests # {} /\ probed # {} /\ Cardinality(probed) <= MaxSourceFiles

Modified == {f \in probed : change[f] = "M"}
Added == {f \in probed : change[f] = "A"}

\* The modified sources go back to the base.  If git refuses, nobody hears of it.
RevertModified ==
  /\ gpc = "probe"
  /\ IF ~mutationCandidate
     THEN gateTo("ac-map") /\ UNCHANGED <<inTree, broken, untested>>
     ELSE /\ gateTo("delete") /\ untested' = newTests
          /\ \/ inTree' = [f \in GateFiles |-> IF f \in Modified THEN "base" ELSE inTree[f]] /\ UNCHANGED broken
             \/ Modified # {} /\ broken' = TRUE /\ UNCHANGED inTree
  /\ UNCHANGED <<onBranch, found, present, commands, result>>

\* The added ones are deleted; the deletion may throw, and what is reverted is restored all the same.
sandboxDeletePaths ==
  /\ gpc = "delete"
  /\ \/ gateTo("test") /\ inTree' = [f \in GateFiles |-> IF f \in Added THEN "gone" ELSE inTree[f]]
        /\ UNCHANGED <<found, present, untested, broken>>
     \/ \E some \in SUBSET Added :
          /\ some # Added /\ inTree' = [f \in GateFiles |-> IF f \in some THEN "gone" ELSE inTree[f]]
          /\ gateTo("restore") /\ Threw /\ untested' = {} /\ UNCHANGED broken
  /\ UNCHANGED <<onBranch, commands, result>>

\* A test that still passes tells nothing of the change; one that fails, or is killed, is alive.
ProbeTest ==
  /\ gpc = "test" /\ cmd.is = "settled" /\ cmd' = NoCommand
  /\ Blocks("mutation", cmd.code = 0)
  /\ \E t \in untested : untested' = untested \ {t}
  /\ gateTo("test") /\ UNCHANGED <<tree, ran, chunks, result>>

\* Nothing is known that runs a test of this kind.
NoRunner ==
  /\ gpc = "test" /\ cmd.is = "off" /\ untested # {}
  /\ untested' = {} /\ gateTo("restore")
  /\ UNCHANGED <<tree, found, present, commands, result>>

ProbeOver ==
  /\ gpc = "test" /\ cmd.is = "off" /\ untested = {} /\ gateTo("restore")
  /\ UNCHANGED <<tree, found, present, untested, commands, result>>

(* Mutant of Restored: only what was modified is taken back from the branch. *)
RestoredModified == [f \in GateFiles |-> IF f \in Modified THEN onBranch[f] ELSE inTree[f]]

Restored == [f \in GateFiles |-> IF f \in probed THEN onBranch[f] ELSE inTree[f]]

\* In any case all of them are checked out of the branch again; if git refuses, nobody hears of it.
RestoreSources ==
  /\ gpc = "restore" /\ gateTo("ac-map")
  /\ \/ inTree' = Restored /\ broken' = (\E f \in changed : onBranch[f] # "head")
     \/ broken' = TRUE /\ UNCHANGED inTree
  /\ UNCHANGED <<onBranch, found, present, untested, commands, result>>

-----------------------------------------------------------------------------
\* Criteria no changed test speaks of are a warning only.
MapCriteria ==
  /\ gpc = "ac-map" /\ gateTo("citation")
  /\ UNCHANGED <<tree, found, present, untested, commands, result>>

\* A citation holds if its lines are in the file as the sandbox has it.
resolveCitation(ref) ==
  IF inTree[ref.file] = "gone" THEN "missing"
  ELSE IF 1 <= ref.start /\ ref.start <= ref.end /\ ref.end <= GateLines[ref.file] THEN "ok"
  ELSE "out-of-range"

\* Only what changed documents say is looked at.
CheckCitations ==
  /\ gpc = "citation" /\ gateTo("override")
  /\ \/ Threw
     \/ \E cited \in SUBSET GateCitations :
          /\ cited # {} => changed \cap GateDocs # {}
          /\ Blocks("citation", \E ref \in cited : resolveCitation(ref) # "ok")
  /\ UNCHANGED <<tree, untested, commands, result>>

\* What the ticket overrides is a warning, in this run and in every later one.
parseGateOverrides ==
  /\ gpc = "override" /\ gateTo("review")
  /\ \E by \in {{}, {"secret", "citation"}, GateChecks} :   \* the third is "all"
       found' = found \ by /\ present' = present \ by
  /\ UNCHANGED <<tree, untested, commands, result>>

-----------------------------------------------------------------------------
\* Commands run one after the other: tests of the probe, or the project's checks beside the reviewer.
runOne ==
  /\ cmd.is = "off"
  /\ \/ gpc = "test" /\ untested # {}
     \/ gpc = "review" /\ Len(ran) < GateCommands
  /\ cmd' = [NoCommand EXCEPT !.is = "up", !.timer = TRUE]
  /\ UNCHANGED <<gpc, change, tree, found, present, untested, ran, chunks, result, gateReviews>>

Settles(code) == cmd' = [is |-> "settled", timer |-> FALSE, late |-> FALSE, code |-> code]

\* The shell is gone, but a grandchild may hold its pipes for ever: a short timer is set.
CheckExits ==
  /\ cmd.is = "up"
  /\ \/ \E code \in 0..1 :
          (cmd.late => code = 1) /\ cmd' = [cmd EXCEPT !.is = "exited", !.code = code]
     \/ Settles(1)                         \* it could not be started
  /\ UNCHANGED <<gpc, change, tree, found, present, untested, ran, chunks, result, gateReviews>>

\* Killed for being too long, it exits.
CheckTimesOut ==
  /\ cmd.timer /\ cmd.is = "up" /\ ~cmd.late
  /\ cmd' = [cmd EXCEPT !.late = TRUE, !.timer = FALSE]
  /\ UNCHANGED <<gpc, change, tree, found, present, untested, ran, chunks, result, gateReviews>>

\* Its pipes close, or the short timer fires: the first of the two settles it.
CheckSettles ==
  /\ cmd.is = "exited" /\ Settles(cmd.code)
  /\ UNCHANGED <<gpc, change, tree, found, present, untested, ran, chunks, result, gateReviews>>

CheckRan ==
  /\ gpc = "review" /\ cmd.is = "settled" /\ ran' = Append(ran, cmd.code) /\ cmd' = NoCommand
  /\ UNCHANGED <<gpc, change, tree, found, present, untested, chunks, result, gateReviews>>

\* The parts of a large diff are read one after the other; "dead" is a reviewer that was not reached,
\* "stray" one that changed files.
chunkReviewDiff ==
  /\ gpc = "review" /\ Cardinality(chunks) < 2
  /\ \E said \in {"PASS", "FAIL", "dead", "stray"} : chunks' = chunks \cup {said}
  /\ UNCHANGED <<gpc, change, tree, found, present, untested, cmd, ran, result, gateReviews>>

\* The verdict waits for the reviewer and for the checks.
ReviewRead ==
  /\ gpc = "review" /\ chunks # {} /\ cmd.is = "off" /\ Len(ran) = GateCommands
  /\ gateTo("verdict") /\ UNCHANGED <<tree, found, present, untested, commands, result>>

mergeReviewVerdicts == chunks \subseteq {"PASS"}

JudgeReview ==
  /\ gpc = "verdict" /\ gateTo("idle")
  /\ result' = IF chunks \cap {"dead", "stray"} # {} THEN "failed"
               ELSE IF /\ mergeReviewVerdicts /\ found = {}
                       /\ \A i \in DOMAIN ran : ran[i] = 0
                    THEN "passed" ELSE "rejected"
  /\ UNCHANGED <<tree, found, present, untested, commands>>

\* The server dies.  The sandbox stays as it is.
GateCrash ==
  /\ gpc # "idle" /\ gateTo("idle") /\ cmd' = NoCommand /\ untested' = {} /\ result' = "none"
  /\ broken' = (broken \/ gpc \in {"delete", "test", "restore"})
  /\ found' = {} /\ present' = {} /\ ran' = <<>> /\ chunks' = {}
  /\ UNCHANGED <<onBranch, inTree>>

GateNext ==
  \/ forgeCommitAll \/ ResumeToReview \/ evaluateProtectedPaths \/ ScanSecrets \/ CheckFileSet
  \/ RevertModified \/ sandboxDeletePaths \/ ProbeTest \/ NoRunner \/ ProbeOver \/ RestoreSources
  \/ MapCriteria \/ CheckCitations \/ parseGateOverrides
  \/ runOne \/ CheckExits \/ CheckTimesOut \/ CheckSettles \/ CheckRan
  \/ chunkReviewDiff \/ ReviewRead \/ JudgeReview \/ GateCrash

-----------------------------------------------------------------------------
\* Outside a probe the sandbox is what the branch says, so no rework commits what a probe took back,
\* and the checks never run on it: unless git failed or the server died during a probe.
TreeWhole ==
  gpc \notin {"delete", "test", "restore"} /\ ~broken =>
    /\ \A f \in changed : inTree[f] = onBranch[f]
    /\ \A f \in changed : onBranch[f] = "head"

\* What passed has nothing the gate saw and nobody overrode, whatever the reviewers said, and every
\* part of it was passed and every check of the project ended well.  (A check of the gate that threw
\* saw nothing.)
PassedClean ==
  result = "passed" =>
    /\ present = {} /\ chunks = {"PASS"}
    /\ Len(ran) = GateCommands /\ \A i \in DOMAIN ran : ran[i] = 0

\* A command is in the sandbox only while the probe or the review waits for it.
NoStrayCommand == cmd.is # "off" => gpc \in {"test", "review"}

GateInv == GateTypeOK /\ TreeWhole /\ PassedClean /\ NoStrayCommand
=============================================================================
