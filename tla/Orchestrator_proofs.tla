------------------------ MODULE Orchestrator_proofs ------------------------
(***************************************************************************)
(* What a run of the orchestrator commits, proved for any number of cycles *)
(* and of edits by others.                                                 *)
(***************************************************************************)
EXTENDS Orchestrator, TLAPS

Before == {"clean", "branch", "models", "plan"}
Over == {"finish", "end"}

\* The steps that follow the capture of a cycle, and those that follow the
\* gate, the checks and the review.
AfterCapture == {"gate", "checks", "claude", "audit", "extract", "overrule", "adjudicate",
                 "commit"}
AfterGate == AfterCapture \ {"gate"}
AfterChecks == AfterGate \ {"checks"}
AfterReview == AfterChecks \ {"claude"}

-----------------------------------------------------------------------------
(* Types *)

Steps == Before \cup Over \cup AfterCapture \cup {"prompt", "codex", "capture"}

Reports == [decision : {"none", "ALLOWED", "STOPPED", "DRY_RUN"},
            claude : {"none", "PASS", "FAIL"}, audit : {"none", "PASS", "FAIL"}]

\* Of the tree: a version was made by Codex, once in a cycle, or by an edit, or
\* was there before.
TreeInv ==
  /\ repo \in [branch : {"main", "agent", "other"}, tree : Nat, touches : SUBSET Facts,
               staged : BOOLEAN]
  /\ cycle \in 0 .. opts.limit
  /\ hist \in [silent : BOOLEAN, edits : 0 .. MaxEdits, edited : BOOLEAN, blind : BOOLEAN,
               overruled : BOOLEAN]
  /\ repo.tree <= cycle + hist.edits + 1
  /\ pc = "codex" => cycle > 0 /\ repo.tree <= cycle + hist.edits

TypeInv ==
  /\ opts \in Options
  /\ pc \in Steps
  /\ TreeInv
  /\ feedback \in {"none", "checks", "claude"} /\ told \in {"none", "checks", "claude"}
  /\ cap \in [tree : Versions, touches : SUBSET Facts]
  /\ passed \in [Stages -> Versions]
  /\ out \in [commit : Versions, status : StopReasons \cup {"", "AUTO_COMMITTED"},
            report : Reports]
  /\ ticked \in BOOLEAN

\* The tree is one of the versions the run can come to.
LEMMA TreeBound ==
  ASSUME opts \in Options, TreeInv
  PROVE  /\ repo.tree \in Versions /\ 0 \in Versions
         /\ repo \in [branch : {"main", "agent", "other"}, tree : Versions,
                      touches : SUBSET Facts, staged : BOOLEAN]
<1>1. opts.limit \in 0 .. MaxCycles
  BY DEF Options
<1>2. cycle \in Nat /\ cycle <= MaxCycles /\ hist.edits \in 0 .. MaxEdits /\ repo.tree \in Nat
  BY <1>1, CyclesAssumption DEF TreeInv
<1>3. repo.tree <= MaxCycles + MaxEdits + 1
  BY <1>2, CyclesAssumption DEF TreeInv
<1>4. repo.tree \in Versions /\ 0 \in Versions
  BY <1>2, <1>3, CyclesAssumption DEF Versions
<1> QED
  BY <1>4 DEF TreeInv

\* The reason given for failed checks is one of the five.
LEMMA FailReasons ==
  ASSUME NEW failed \in (SUBSET Range(Checks)) \ {{}}
  PROVE  FailReason(failed) \in {"STOP_COMPILE_FAILED", "STOP_TESTS_FAILED",
           "STOP_LINT_FAILED", "STOP_TYPECHECK_FAILED", "STOP_INVARIANTS_FAILED"}
<1> DEFINE S == {i \in 1 .. Len(Checks) : Checks[i] \in failed}
<1>1. Len(Checks) = 5
  BY DEF Checks
<1>2. \E i \in 1 .. 5 : Checks[i] \in failed
  <2>1. PICK c : c \in failed
    OBVIOUS
  <2>2. c \in Range(Checks)
    BY <2>1
  <2> QED
    BY <2>1, <2>2, <1>1 DEF Range, Checks
<1>3. \E i \in S : \A j \in S : i <= j
  <2>1. S \subseteq 1 .. 5 /\ S # {}
    BY <1>1, <1>2
  <2>2. \E i \in 1 .. 5 : i \in S /\ \A j \in 1 .. 5 : j < i => j \notin S
    <3>1. CASE 1 \in S
      BY <3>1
    <3>2. CASE 1 \notin S /\ 2 \in S
      BY <3>2
    <3>3. CASE 1 \notin S /\ 2 \notin S /\ 3 \in S
      BY <3>3
    <3>4. CASE 1 \notin S /\ 2 \notin S /\ 3 \notin S /\ 4 \in S
      BY <3>4
    <3>5. CASE 1 \notin S /\ 2 \notin S /\ 3 \notin S /\ 4 \notin S
      <4>1. 5 \in S
        BY <2>1, <3>5
      <4> QED
        BY <4>1, <3>5
    <3> QED
      BY <3>1, <3>2, <3>3, <3>4, <3>5
  <2> HIDE DEF S
  <2>3. PICK i \in 1 .. 5 : i \in S /\ \A j \in 1 .. 5 : j < i => j \notin S
    BY <2>2
  <2>4. ASSUME NEW j \in S
        PROVE  i <= j
    BY <2>1, <2>3
  <2> QED
    BY <2>3, <2>4
<1>4. Min(S) \in S
  BY <1>3 DEF Min
<1>5. Min(S) \in 1 .. 5
  BY <1>1, <1>4
<1> HIDE DEF S
<1>6. CheckStop[Checks[Min(S)]] \in {"STOP_COMPILE_FAILED", "STOP_TESTS_FAILED",
           "STOP_LINT_FAILED", "STOP_TYPECHECK_FAILED", "STOP_INVARIANTS_FAILED"}
  BY <1>5 DEF CheckStop, Checks
<1> QED
  BY <1>6 DEF FailReason, S

-----------------------------------------------------------------------------
(* Where a step leaves the run *)

NoOutcome == [commit |-> 0, status |-> "", report |-> NoReport]

\* The run goes on, or stops with a report.
GoesOn == pc' \in Steps \ Over /\ UNCHANGED out
Stops == \E s \in StopReasons : Stop(s)

\* Every step but these three goes on or stops with a report.
LEMMA StepOutcome ==
  ASSUME Step, ~SwitchBranch, ~Commit, ~Finish
  PROVE  GoesOn \/ Stops
<1> USE DEF GoesOn, Goto, Steps, Over, Before, AfterCapture
<1>1. CASE CleanCheck \/ VerifyModels \/ Plan \/ Prompt \/ NoCycles \/ Codex
  BY <1>1 DEF CleanCheck, VerifyModels, Plan, Prompt, NoCycles, Codex, Stops, StopReasons
<1>2. CASE Capture \/ Gate
  BY <1>2 DEF Capture, Gate, Forbidden, Stops, StopReasons
<1>3. CASE RunChecks
  <2>1. CASE \E failed \in (SUBSET Range(Checks)) \ {{}} : Retry("checks", FailReason(failed))
    <3>1. PICK failed \in (SUBSET Range(Checks)) \ {{}} : Retry("checks", FailReason(failed))
      BY <2>1
    <3>2. FailReason(failed) \in StopReasons
      BY <3>1, FailReasons DEF StopReasons
    <3> QED
      BY <3>1, <3>2 DEF Retry, Stops
  <2> QED
    BY <2>1, <1>3 DEF RunChecks
<1>4. CASE ClaudeReview \/ Audit \/ ExtractVerdict \/ Overrule \/ Adjudicate
  BY <1>4 DEF ClaudeReview, Retry, Audit, ExtractVerdict, Verdict, Overrule, Adjudicate,
       Stops, StopReasons
<1> QED
  BY <1>1, <1>2, <1>3, <1>4 DEF Step

\* A stop is reported as one, and there is no commit.
LEMMA StopOutcome ==
  ASSUME out = NoOutcome, Stops
  PROVE  /\ pc' = "finish"
         /\ out'.commit = 0
         /\ out'.status \in StopReasons
         /\ out'.report \in Reports
         /\ out'.report.decision \in {"STOPPED", "DRY_RUN"}
         /\ out' = [commit |-> 0, status |-> out'.status, report |-> out'.report]
<1>1. PICK s \in StopReasons : Stop(s)
  BY DEF Stops
<1>2. s # "AUTO_COMMITTED"
  BY DEF StopReasons
<1>3. /\ Report(s) \in Reports
      /\ Report(s).decision \in {"STOPPED", "DRY_RUN"}
  BY <1>2 DEF Report, Reports
<1>4. out' = [commit |-> 0, status |-> s, report |-> Report(s)] /\ pc' = "finish"
  BY <1>1 DEF Stop, NoOutcome
<1> QED
  BY <1>2, <1>3, <1>4

\* The report of a commit.
LEMMA CommitReport ==
  /\ Report("AUTO_COMMITTED") \in Reports
  /\ Report("AUTO_COMMITTED").decision = "ALLOWED"
BY DEF Report, Reports

-----------------------------------------------------------------------------
(* The inductive invariant *)

\* What has been looked at is what is in the tree, unless somebody edited it or
\* git showed it badly, and each stage that lies behind has passed it.
VetInv ==
  /\ pc \in AfterCapture =>
       /\ repo.tree # 0
       /\ ~hist.edited /\ ~hist.blind =>
            cap.tree = repo.tree /\ cap.touches = repo.touches
  /\ pc \in AfterGate =>
       /\ passed["gate"] = cap.tree
       /\ "forbidden" \notin cap.touches
       /\ "contract" \in cap.touches => opts.contracts
  /\ pc \in AfterChecks => passed["checks"] = cap.tree
  /\ pc \in AfterReview => passed["claude"] = cap.tree
  /\ pc = "commit" => passed[IF hist.overruled THEN "adjudication" ELSE "audit"] = cap.tree
  /\ pc = "adjudicate" => cap.touches \cap {"contract", "critical"} = {}
  /\ hist.overruled => pc \in Over \cup {"commit"}
  /\ pc = "commit" /\ hist.overruled => cap.touches \cap {"contract", "critical"} = {}

\* Where the run works: not on top of others' work, not on the main branch.
PlaceInv ==
  /\ pc = "clean" /\ opts.dirty => repo.tree # 0
  /\ pc \notin Over \cup {"clean"} /\ ~hist.blind => (opts.dirty => opts.allowDirty)
  /\ pc \notin Over \cup {"clean", "branch"} /\ ~hist.blind =>
       repo.branch # "main" \/ opts.dry
  /\ pc \notin Over \cup Before => ~opts.dry

\* A cycle after the first begins with feedback, unless the checks were silent.
FeedInv ==
  /\ pc \in Before => cycle = 0
  /\ pc = "prompt" /\ cycle > 0 /\ ~hist.silent => feedback # "none"
  /\ FeedbackReaches

\* There is no outcome before the run is over; then report and commit agree.
OutInv ==
  /\ pc \notin Over => out = NoOutcome
  /\ pc \in Over =>
       /\ out.report = NoReport => out.status = "STOP_TOOL_ERROR" /\ cycle = 0
       /\ out.report.decision = "ALLOWED" <=> Committed
       /\ out.status = "AUTO_COMMITTED" <=> Committed
  /\ ticked => pc = "end" /\ opts.backlog /\ Committed

IInv == TypeInv /\ VetInv /\ PlaceInv /\ FeedInv /\ OutInv /\ CommittedWasVetted /\ CommitAllowed

\* Every step keeps the types.
LEMMA TypeStep ==
  ASSUME TypeInv, OutInv, [Next]_vars
  PROVE  TypeInv'
<1> USE CyclesAssumption
<1>1. opts' = opts
  BY DEF Next, Step, CleanCheck, SwitchBranch, VerifyModels, Plan, Prompt, NoCycles, Codex,
       Capture, Gate, RunChecks, ClaudeReview, Audit, ExtractVerdict, Overrule, Adjudicate,
       Commit, Finish, Edit, vars
<1>2. opts.limit \in Nat
  <2>1. opts.limit \in 0 .. MaxCycles
    BY DEF TypeInv, Options
  <2> QED
    BY <2>1
<1>3. TreeInv'
  <2>0. /\ cycle \in Nat /\ cycle <= opts.limit /\ repo.tree \in Nat
        /\ hist.edits \in 0 .. MaxEdits
        /\ repo.tree <= cycle + hist.edits + 1
        /\ pc = "codex" => cycle > 0 /\ repo.tree <= cycle + hist.edits
    <3>1. /\ repo.tree \in Nat /\ hist.edits \in 0 .. MaxEdits
          /\ cycle \in 0 .. opts.limit
      BY DEF TypeInv, TreeInv
    <3>2. cycle \in Nat /\ cycle <= opts.limit
      BY <3>1, <1>2
    <3> QED
      BY <3>1, <3>2 DEF TypeInv, TreeInv
  <2>1. repo' \in [branch : {"main", "agent", "other"}, tree : Nat, touches : SUBSET Facts,
                   staged : BOOLEAN]
    <3> DEFINE Trees == [branch : {"main", "agent", "other"}, tree : Nat,
                         touches : SUBSET Facts, staged : BOOLEAN]
    <3>0. repo.tree + 1 \in Nat
      BY <2>0
    <3>1. repo \in Trees /\ repo.staged \in BOOLEAN /\ repo.tree + 1 \in Nat
      BY <3>0 DEF TypeInv, TreeInv
    <3>2. \A t \in Touches : t \in SUBSET Facts
      BY DEF Touches, Facts
    <3>3. ASSUME NEW t \in Touches, NEW x \in BOOLEAN
          PROVE  /\ [repo EXCEPT !.tree = @ + 1, !.touches = t, !.staged = x] \in Trees
                 /\ [repo EXCEPT !.tree = @ + 1, !.touches = t] \in Trees
      BY <3>1, <3>2
    <3>4. CASE Codex
      BY <3>4, <3>1, <3>3 DEF Codex
    <3>5. CASE Edit
      BY <3>5, <3>1, <3>3 DEF Edit
    <3>6. CASE ~Codex /\ ~Edit
      BY <3>6, <3>1 DEF Next, Step, CleanCheck, SwitchBranch, VerifyModels, Plan, Prompt,
           NoCycles, Capture, Gate, RunChecks, ClaudeReview, Audit, ExtractVerdict, Overrule,
           Adjudicate, Commit, Finish, vars
    <3> QED
      BY <3>4, <3>5, <3>6
  <2>2. hist' \in [silent : BOOLEAN, edits : 0 .. MaxEdits, edited : BOOLEAN, blind : BOOLEAN,
                   overruled : BOOLEAN]
    <3>1. CASE Edit
      <4>1. hist.edits + 1 \in 0 .. MaxEdits
        BY <2>0, <3>1 DEF Edit
      <4> QED
        BY <3>1, <4>1 DEF Edit, TypeInv, TreeInv
    <3>2. CASE ~Edit
      BY <3>2 DEF TypeInv, TreeInv, Next, Step, CleanCheck, SwitchBranch, VerifyModels, Plan,
           Prompt, NoCycles, Codex, Capture, Gate, RunChecks, ClaudeReview, Audit,
           ExtractVerdict, Overrule, Adjudicate, Commit, Finish, Blind, vars
    <3> QED
      BY <3>1, <3>2
  <2>3. /\ cycle' \in Nat /\ cycle' <= opts.limit /\ repo'.tree <= cycle' + hist'.edits + 1
        /\ pc' = "codex" => cycle' > 0 /\ repo'.tree <= cycle' + hist'.edits
    <3>1. CASE Prompt
      BY <3>1, <2>0, <1>2 DEF Prompt, Goto
    <3>2. CASE Edit
      <4>1. /\ repo'.tree = repo.tree + 1 /\ hist'.edits = hist.edits + 1
            /\ UNCHANGED <<pc, cycle>>
        BY <3>2 DEF Edit, TypeInv, TreeInv
      <4> QED
        BY <4>1, <2>0
    <3>3. CASE Codex
      <4>1. /\ repo'.tree = repo.tree \/ repo'.tree = repo.tree + 1
            /\ UNCHANGED <<hist, cycle>> /\ pc = "codex" /\ pc' # "codex"
        BY <3>3 DEF Codex, Stop, Goto, TypeInv, TreeInv
      <4> QED
        BY <4>1, <2>0
    <3>4. CASE ~Prompt /\ ~Edit /\ ~Codex
      <4>1. /\ repo'.tree = repo.tree /\ hist'.edits = hist.edits /\ cycle' = cycle
            /\ pc' = "codex" => pc = "codex"
        BY <3>4 DEF TypeInv, TreeInv, Next, Step, CleanCheck, SwitchBranch, VerifyModels, Plan,
             NoCycles, Capture, Gate, RunChecks, ClaudeReview, Audit, ExtractVerdict, Verdict,
             Overrule, Adjudicate, Commit, Finish, Blind, Stop, Goto, Retry, vars
      <4> QED
        BY <4>1, <2>0
    <3> QED
      BY <3>1, <3>2, <3>3, <3>4
  <2> QED
    BY <2>1, <2>2, <2>3, <1>1, <1>2 DEF TreeInv
<1>4. /\ feedback' \in {"none", "checks", "claude"} /\ told' \in {"none", "checks", "claude"}
      /\ ticked' \in BOOLEAN
  BY DEF TypeInv, Next, Step, CleanCheck, SwitchBranch, VerifyModels, Plan, Prompt, NoCycles,
       Codex, Capture, Gate, RunChecks, ClaudeReview, Audit, ExtractVerdict, Overrule,
       Adjudicate, Commit, Finish, Edit, Retry, vars
<1>5. cap' \in [tree : Versions, touches : SUBSET Facts]
  <2>1. CASE Capture
    <3>1. repo.tree \in Versions /\ 0 \in Versions /\ repo.touches \in SUBSET Facts
      BY TreeBound DEF TypeInv, TreeInv
    <3>2. /\ [tree |-> repo.tree, touches |-> repo.touches]
                \in [tree : Versions, touches : SUBSET Facts]
          /\ \A t \in SUBSET repo.touches :
               [tree |-> 0, touches |-> t] \in [tree : Versions, touches : SUBSET Facts]
      BY <3>1
    <3> QED
      BY <2>1, <3>2 DEF Capture, TypeInv
  <2>2. CASE ~Capture
    BY <2>2 DEF TypeInv, Next, Step, CleanCheck, SwitchBranch, VerifyModels, Plan, Prompt,
         NoCycles, Codex, Gate, RunChecks, ClaudeReview, Audit, ExtractVerdict, Overrule,
         Adjudicate, Commit, Finish, Edit, vars
  <2> QED
    BY <2>1, <2>2
<1>6. passed' \in [Stages -> Versions]
  <2>1. ASSUME NEW s \in Stages, Pass(s)
        PROVE  passed' \in [Stages -> Versions]
    BY <2>1 DEF Pass, TypeInv
  <2>2. UNCHANGED passed \/ \E s \in Stages : Pass(s)
    BY DEF Next, Step, CleanCheck, SwitchBranch, VerifyModels, Plan, Prompt, NoCycles, Codex,
         Capture, Gate, RunChecks, ClaudeReview, Audit, ExtractVerdict, Verdict, Overrule,
         Adjudicate, Commit, Finish, Edit, Stages, vars
  <2> QED
    BY <2>1, <2>2 DEF TypeInv
<1>7. /\ pc' \in Steps
      /\ out' \in [commit : Versions, status : StopReasons \cup {"", "AUTO_COMMITTED"},
                   report : Reports]
  <2>1. CASE UNCHANGED vars \/ Edit
    BY <2>1 DEF TypeInv, vars, Edit
  <2>2. CASE SwitchBranch
    BY <2>2 DEF SwitchBranch, Goto, TypeInv, Steps, Before, Over, StopReasons
  <2>3. CASE Commit
    <3>1. CASE Stop("STOP_TOOL_ERROR")
      <4>1. out = NoOutcome /\ Stops
        BY <2>3, <3>1 DEF Commit, OutInv, Over, Stops, StopReasons
      <4> QED
        BY <4>1, StopOutcome, TreeBound DEF TypeInv, Steps, Over
    <3>2. CASE ~Stop("STOP_TOOL_ERROR")
      <4>1. /\ pc' = "finish" /\ out' = [commit |-> repo.tree, status |-> "AUTO_COMMITTED",
                                         report |-> Report("AUTO_COMMITTED")]
        BY <2>3, <3>2 DEF Commit
      <4>2. repo.tree \in Versions
        BY TreeBound DEF TypeInv
      <4> QED
        BY <4>1, <4>2, CommitReport DEF Steps, Over
    <3> QED
      BY <3>1, <3>2
  <2>4. CASE Finish
    BY <2>4 DEF Finish, TypeInv, Steps, Over
  <2>5. CASE Step /\ ~SwitchBranch /\ ~Commit /\ ~Finish
    <3>1. pc \notin Over
      BY <2>5 DEF Step, CleanCheck, VerifyModels, Plan, Prompt, NoCycles, Codex, Capture,
           Gate, RunChecks, ClaudeReview, Audit, ExtractVerdict, Overrule, Adjudicate, Over
    <3>2. CASE GoesOn
      BY <3>2 DEF GoesOn, TypeInv
    <3>3. CASE Stops
      BY <3>1, <3>3, StopOutcome, TreeBound DEF OutInv, TypeInv, Steps, Over
    <3> QED
      BY <2>5, <3>2, <3>3, StepOutcome
  <2> QED
    BY <2>1, <2>2, <2>3, <2>4, <2>5 DEF Next
<1> QED
  BY <1>1, <1>3, <1>4, <1>5, <1>6, <1>7 DEF TypeInv

\* The records that the steps change one field of.
LEMMA Records ==
  ASSUME TypeInv
  PROVE  /\ \A t \in Touches, x \in BOOLEAN :
              /\ [repo EXCEPT !.tree = @ + 1, !.touches = t].tree = repo.tree + 1
              /\ [repo EXCEPT !.tree = @ + 1, !.touches = t].branch = repo.branch
              /\ [repo EXCEPT !.tree = @ + 1, !.touches = t, !.staged = x].branch = repo.branch
         /\ repo.tree \in Nat
         /\ [repo EXCEPT !.branch = "agent"].branch = "agent"
         /\ repo.staged \in BOOLEAN
         /\ hist.blind \in BOOLEAN /\ hist.edited \in BOOLEAN /\ hist.overruled \in BOOLEAN
         /\ hist.silent \in BOOLEAN
BY DEF TypeInv, TreeInv

\* Every step keeps what is known of the tree and of the stages.
LEMMA VetStep ==
  ASSUME TypeInv, VetInv, [Next]_vars
  PROVE  VetInv'
<1> USE DEF Over, AfterCapture, AfterGate, AfterChecks, AfterReview
<1>t. /\ repo.tree \in Nat
      /\ passed \in [Stages -> Versions]
      /\ hist \in [silent : BOOLEAN, edits : 0 .. MaxEdits, edited : BOOLEAN,
                   blind : BOOLEAN, overruled : BOOLEAN]
  BY DEF TypeInv, TreeInv
<1>1. CASE UNCHANGED vars
  BY <1>1 DEF vars, VetInv
<1>2. CASE CleanCheck \/ SwitchBranch \/ VerifyModels \/ Plan \/ Prompt \/ NoCycles \/ Codex
  <2>1. pc' \notin AfterCapture /\ hist'.overruled = hist.overruled /\ pc \notin {"commit", "finish", "end"}
    BY <1>2, <1>t DEF CleanCheck, SwitchBranch, VerifyModels, Plan, Prompt, NoCycles, Codex, Blind,
         Stop, Goto
  <2> QED
    BY <2>1 DEF VetInv
<1>3. CASE Capture
  <2>1. /\ pc = "capture" /\ pc' \in {"finish", "gate"}
        /\ hist'.overruled = hist.overruled /\ UNCHANGED repo
    BY <1>3, <1>t DEF Capture, Stop, Goto
  <2>2. pc' = "gate" =>
          /\ repo.tree # 0
          /\ ~hist'.blind => cap' = [tree |-> repo.tree, touches |-> repo.touches]
    BY <1>3, <1>t DEF Capture, Stop, Goto
  <2> QED
    BY <2>1, <2>2 DEF VetInv
<1>4. CASE Gate
  BY <1>4, <1>t DEF Gate, Forbidden, Pass, Stages, Stop, Goto, VetInv
<1>5. CASE RunChecks
  BY <1>5, <1>t DEF RunChecks, Retry, Pass, Stages, Stop, Goto, VetInv
<1>6. CASE ClaudeReview
  BY <1>6, <1>t DEF ClaudeReview, Retry, Pass, Stages, Stop, Goto, VetInv
<1>7. CASE Audit \/ ExtractVerdict
  BY <1>7, <1>t DEF Audit, ExtractVerdict, Verdict, Pass, Stages, Stop, Goto, VetInv
<1>8. CASE Overrule
  BY <1>8, <1>t DEF Overrule, Stop, Goto, VetInv
<1>9. CASE Adjudicate
  BY <1>9, <1>t DEF Adjudicate, Pass, Stages, Stop, Goto, VetInv
<1>10. CASE Commit \/ Finish
  BY <1>10 DEF Commit, Finish, Stop, VetInv
<1>11. CASE Edit
  <2>1. repo'.tree = repo.tree + 1 /\ hist'.edited /\ hist'.overruled = hist.overruled
        /\ UNCHANGED <<pc, cap, passed, opts>>
    BY <1>11, <1>t, Records DEF Edit
  <2>2. repo'.tree # 0
    BY <2>1, <1>t
  <2> QED
    BY <2>1, <2>2 DEF VetInv
<1> QED
  BY <1>1, <1>2, <1>3, <1>4, <1>5, <1>6, <1>7, <1>8, <1>9, <1>10, <1>11 DEF Next, Step

\* Every step keeps what is known of the place of the run.
LEMMA PlaceStep ==
  ASSUME TypeInv, PlaceInv, [Next]_vars
  PROVE  PlaceInv'
<1> USE DEF Over, Before, PlaceInv
<1>t. hist \in [silent : BOOLEAN, edits : 0 .. MaxEdits, edited : BOOLEAN,
                blind : BOOLEAN, overruled : BOOLEAN]
  BY DEF TypeInv, TreeInv
<1>1. CASE UNCHANGED vars
  BY <1>1 DEF vars
<1>2. CASE CleanCheck
  BY <1>2, <1>t DEF CleanCheck, Blind, Stop, Goto
<1>3. CASE SwitchBranch
  BY <1>3, <1>t, Records DEF SwitchBranch, Blind, Stop, Goto
<1>4. CASE VerifyModels \/ Plan \/ Prompt \/ NoCycles
  BY <1>4 DEF VerifyModels, Plan, Prompt, NoCycles, Stop, Goto
<1>5. CASE Codex
  <2>1. repo'.branch = repo.branch
    <3>1. CASE UNCHANGED repo
      BY <3>1
    <3>2. CASE ~UNCHANGED repo
      <4>1. PICK t \in Touches, x \in {repo.staged, TRUE} :
              repo' = [repo EXCEPT !.tree = @ + 1, !.touches = t, !.staged = x]
        BY <1>5, <3>2 DEF Codex
      <4>2. x \in BOOLEAN
        BY <4>1, Records
      <4> QED
        BY <4>1, <4>2, Records
    <3> QED
      BY <3>1, <3>2
  <2>2. pc = "codex" /\ pc' \in {"finish", "capture"} /\ UNCHANGED <<hist, opts>>
    BY <1>5 DEF Codex, Stop, Goto
  <2> QED
    BY <2>1, <2>2
<1>6. CASE Capture
  BY <1>6, <1>t DEF Capture, Stop, Goto
<1>7. CASE RunChecks \/ Adjudicate
  BY <1>7, <1>t DEF RunChecks, Adjudicate, Retry, Stop, Goto
<1>8. CASE Gate \/ ClaudeReview \/ Audit \/ ExtractVerdict \/ Overrule \/ Commit \/ Finish
  BY <1>8 DEF Gate, ClaudeReview, Retry, Audit, ExtractVerdict, Verdict, Overrule, Commit,
       Finish, Stop, Goto
<1>9. CASE Edit
  <2>1. /\ repo'.tree = repo.tree + 1 /\ repo'.branch = repo.branch
        /\ hist'.blind = hist.blind /\ UNCHANGED <<pc, opts>>
    BY <1>9, <1>t, Records DEF Edit
  <2>2. repo'.tree # 0
    BY <2>1, Records
  <2> QED
    BY <2>1, <2>2
<1> QED
  BY <1>1, <1>2, <1>3, <1>4, <1>5, <1>6, <1>7, <1>8, <1>9 DEF Next, Step

\* Every step keeps what is known of the feedback.
LEMMA FeedStep ==
  ASSUME TypeInv, FeedInv, [Next]_vars
  PROVE  FeedInv'
<1> USE DEF Before, FeedInv, FeedbackReaches
<1>t. /\ hist \in [silent : BOOLEAN, edits : 0 .. MaxEdits, edited : BOOLEAN,
                   blind : BOOLEAN, overruled : BOOLEAN]
      /\ cycle \in 0 .. opts.limit
  BY DEF TypeInv, TreeInv
<1>n. cycle \in Nat
  <2>1. opts.limit \in 0 .. MaxCycles
    BY DEF TypeInv, Options
  <2> QED
    BY <2>1, <1>t, CyclesAssumption
<1>1. CASE UNCHANGED vars
  BY <1>1 DEF vars
<1>2. CASE CleanCheck \/ SwitchBranch \/ VerifyModels \/ Plan \/ NoCycles \/ Codex
  <2>1. /\ hist'.silent = hist.silent /\ UNCHANGED <<cycle, told, feedback>>
        /\ pc' \in Before \cup {"prompt"} => pc \in Before
    BY <1>2, <1>t DEF CleanCheck, SwitchBranch, VerifyModels, Plan, NoCycles, Codex, Blind,
         Stop, Goto
  <2> QED
    BY <2>1, <1>n
<1>3. CASE Prompt
  BY <1>3, <1>n DEF Prompt, Goto
<1>4. CASE Capture \/ Gate
  BY <1>4, <1>t DEF Capture, Gate, Stop, Goto
<1>5. CASE RunChecks
  BY <1>5, <1>t DEF RunChecks, Retry, Stop, Goto
<1>6. CASE ClaudeReview \/ Audit \/ ExtractVerdict \/ Overrule \/ Adjudicate
  BY <1>6, <1>t DEF ClaudeReview, Retry, Audit, ExtractVerdict, Verdict, Overrule, Adjudicate,
       Stop, Goto
<1>7. CASE Commit \/ Finish \/ Edit
  BY <1>7, <1>t DEF Commit, Finish, Edit, Stop
<1> QED
  BY <1>1, <1>2, <1>3, <1>4, <1>5, <1>6, <1>7 DEF Next, Step

\* A commit that succeeds.
Commits ==
  /\ pc = "commit" /\ pc' = "finish"
  /\ out' = [commit |-> repo.tree, status |-> "AUTO_COMMITTED",
             report |-> Report("AUTO_COMMITTED")]
  /\ UNCHANGED <<opts, cycle, feedback, told, repo, cap, passed, hist, ticked>>

\* The ways a step can treat the outcome of the run.
LEMMA OutcomeCases ==
  ASSUME OutInv, [Next]_vars
  PROVE  \/ UNCHANGED vars \/ Finish \/ Commits
         \/ /\ pc \notin Over /\ pc' \notin Over /\ UNCHANGED <<out, ticked>>
         \/ /\ pc \notin Over /\ pc' = "finish" /\ out = NoOutcome /\ UNCHANGED ticked
            /\ Stops \/ (SwitchBranch /\ out' = [out EXCEPT !.status = "STOP_TOOL_ERROR"])
<1>1. CASE Edit
  BY <1>1 DEF Edit, Over
<1>2. CASE SwitchBranch
  BY <1>2 DEF SwitchBranch, Goto, OutInv, Over
<1>3. CASE Commit
  BY <1>3 DEF Commit, Commits, Stop, Stops, StopReasons, OutInv, Over
<1>4. CASE Step /\ ~SwitchBranch /\ ~Commit /\ ~Finish
  <2>1. pc \notin Over /\ UNCHANGED ticked
    BY <1>4 DEF Step, CleanCheck, VerifyModels, Plan, Prompt, NoCycles, Codex, Capture,
         Gate, RunChecks, ClaudeReview, Audit, ExtractVerdict, Overrule, Adjudicate, Over
  <2> QED
    BY <1>4, <2>1, StepOutcome DEF GoesOn, Stops, Stop, OutInv
<1> QED
  BY <1>1, <1>2, <1>3, <1>4 DEF Next

\* Every step keeps report, commit and backlog in agreement.
LEMMA OutStep ==
  ASSUME TypeInv, VetInv, FeedInv, OutInv, [Next]_vars
  PROVE  OutInv'
<1> USE DEF Over, OutInv, Committed
<1>1. CASE UNCHANGED vars
  BY <1>1 DEF vars
<1>2. CASE Finish
  BY <1>2 DEF Finish
<1>3. CASE Commits
  <2>1. repo.tree # 0
    BY <1>3 DEF Commits, VetInv, AfterCapture
  <2>2. NoReport.decision = "none"
    BY DEF NoReport
  <2> QED
    BY <1>3, <2>1, <2>2, CommitReport DEF Commits, NoOutcome
<1>4. CASE pc \notin Over /\ pc' \notin Over /\ UNCHANGED <<out, ticked>>
  BY <1>4
<1>5. CASE pc \notin Over /\ pc' = "finish" /\ out = NoOutcome /\ Stops /\ UNCHANGED ticked
  <2>1. /\ out'.commit = 0 /\ out'.status # "AUTO_COMMITTED"
        /\ out'.report.decision \in {"STOPPED", "DRY_RUN"}
    BY <1>5, StopOutcome DEF StopReasons
  <2>2. NoReport.decision = "none"
    BY DEF NoReport
  <2> QED
    BY <1>5, <2>1, <2>2
<1>6. CASE /\ pc \notin Over /\ pc' = "finish" /\ out = NoOutcome /\ UNCHANGED ticked
           /\ SwitchBranch /\ out' = [out EXCEPT !.status = "STOP_TOOL_ERROR"]
  <2>1. cycle' = 0
    BY <1>6 DEF SwitchBranch, FeedInv, Before
  <2>2. out' = [commit |-> 0, status |-> "STOP_TOOL_ERROR", report |-> NoReport]
    BY <1>6 DEF NoOutcome
  <2>3. NoReport.decision = "none"
    BY DEF NoReport
  <2> QED
    BY <1>6, <2>1, <2>2, <2>3
<1> QED
  BY <1>1, <1>2, <1>3, <1>4, <1>5, <1>6, OutcomeCases

\* The commit itself, and everything after it, keeps the two properties of what
\* is committed.
LEMMA CommitStep ==
  ASSUME TypeInv, VetInv, PlaceInv, OutInv, CommittedWasVetted, CommitAllowed, [Next]_vars
  PROVE  CommittedWasVetted' /\ CommitAllowed'
<1> USE DEF Committed, CommittedWasVetted, CommitAllowed
<1>1. CASE UNCHANGED vars
  BY <1>1 DEF vars
<1>2. CASE Finish
  BY <1>2 DEF Finish
<1>3. CASE Commits
  <2>1. pc = "commit" /\ UNCHANGED <<opts, repo, cap, passed, hist>> /\ out'.commit = repo.tree
    BY <1>3 DEF Commits
  <2>2. ~hist.edited /\ ~hist.blind =>
          /\ \A s \in {"gate", "checks", "claude"} : passed[s] = repo.tree
          /\ passed[IF hist.overruled THEN "adjudication" ELSE "audit"] = repo.tree
    BY <2>1 DEF VetInv, AfterCapture, AfterGate, AfterChecks, AfterReview, Stages
  <2>3. ~hist.blind => repo.branch # "main" /\ (opts.dirty => opts.allowDirty)
    BY <2>1 DEF PlaceInv, Over, Before
  <2>4. ~hist.edited /\ ~hist.blind =>
          /\ "forbidden" \notin repo.touches
          /\ "contract" \in repo.touches => opts.contracts /\ ~hist.overruled
          /\ "critical" \in repo.touches => ~hist.overruled
    BY <2>1 DEF VetInv, AfterCapture, AfterGate
  <2> QED
    BY <2>1, <2>2, <2>3, <2>4
<1>4. CASE out'.commit = 0
  BY <1>4
<1>5. CASE pc \notin Over /\ UNCHANGED out
  <2>1. out' = NoOutcome
    BY <1>5 DEF OutInv
  <2>2. out'.commit = 0
    BY <2>1 DEF NoOutcome
  <2> QED
    BY <1>4, <2>2
<1>6. CASE out = NoOutcome /\ Stops
  BY <1>4, <1>6, StopOutcome
<1>7. CASE out = NoOutcome /\ out' = [out EXCEPT !.status = "STOP_TOOL_ERROR"]
  BY <1>4, <1>7 DEF NoOutcome
<1> QED
  BY <1>1, <1>2, <1>3, <1>5, <1>6, <1>7, OutcomeCases

-----------------------------------------------------------------------------
(* The theorems *)

\* The invariant holds when a task is taken up.
LEMMA Begins == Init => IInv
<1> SUFFICES ASSUME Init PROVE IInv
  OBVIOUS
<1> USE CyclesAssumption
<1>1. TreeInv
  <2>1. opts.limit \in 0 .. MaxCycles
    BY DEF Init, Options
  <2>2. repo.tree \in {0, 1}
    BY DEF Init
  <2>3. repo \in [branch : {"main", "agent", "other"}, tree : Nat, touches : SUBSET Facts,
                  staged : BOOLEAN]
    <3>1. opts.dirty \in BOOLEAN
      BY DEF Init, Options
    <3>2. (IF opts.dirty THEN 1 ELSE 0) \in Nat /\ {FALSE, opts.dirty} \subseteq BOOLEAN
      BY <3>1
    <3>3. {} \in SUBSET Facts
      OBVIOUS
    <3> QED
      BY <3>2, <3>3 DEF Init
  <2>4. hist \in [silent : BOOLEAN, edits : 0 .. MaxEdits, edited : BOOLEAN,
                  blind : BOOLEAN, overruled : BOOLEAN] /\ hist.edits = 0
    <3>1. 0 \in 0 .. MaxEdits
      OBVIOUS
    <3> QED
      BY <3>1 DEF Init
  <2>5. pc = "clean" /\ cycle = 0
    BY DEF Init
  <2> QED
    BY <2>1, <2>2, <2>3, <2>4, <2>5 DEF TreeInv
<1>2. 0 \in Versions
  BY DEF Versions
<1>3. TypeInv
  <2>1. out \in [commit : Versions, status : StopReasons \cup {"", "AUTO_COMMITTED"},
                 report : Reports]
    BY <1>2 DEF Init, NoReport, Reports
  <2> QED
    BY <1>1, <1>2, <2>1 DEF Init, TypeInv, Steps, Before, Facts
<1>0. /\ pc = "clean" /\ cycle = 0 /\ ~hist.overruled
      /\ opts.dirty => repo.tree = 1
  BY DEF Init
<1>4. VetInv /\ PlaceInv
  BY <1>0 DEF VetInv, PlaceInv, AfterCapture, AfterGate, AfterChecks, AfterReview, Over, Before
<1>5. FeedInv
  BY <1>0 DEF FeedInv, FeedbackReaches
<1>6. OutInv /\ CommittedWasVetted /\ CommitAllowed
  BY DEF Init, OutInv, Over, NoOutcome, Committed, CommittedWasVetted, CommitAllowed
<1> QED
  BY <1>3, <1>4, <1>5, <1>6 DEF IInv

\* The invariant holds throughout the run.
THEOREM Invariance == Spec => []IInv
<1>1. Init => IInv
  BY Begins
<1>2. IInv /\ [Next]_vars => IInv'
  BY TypeStep, VetStep, PlaceStep, FeedStep, OutStep, CommitStep DEF IInv
<1> QED
  BY <1>1, <1>2, PTL DEF Spec

\* What is committed has passed the gate, the checks, the review and the audit,
\* or the adjudication that overruled it, as the very version that is committed,
\* however many cycles there were.
THEOREM Vetted == Spec => []CommittedWasVetted
<1>1. IInv => CommittedWasVetted
  BY DEF IInv
<1> QED
  BY <1>1, Invariance, PTL

\* Nothing forbidden is committed, nothing critical on an overruled audit, nothing
\* to the main branch and nothing of others' work.
THEOREM Allowed == Spec => []CommitAllowed
<1>1. IInv => CommitAllowed
  BY DEF IInv
<1> QED
  BY <1>1, Invariance, PTL

\* Every further cycle tells Codex why there is one.
THEOREM Informed == Spec => []FeedbackReaches
<1>1. IInv => FeedbackReaches
  BY DEF IInv, FeedInv
<1> QED
  BY <1>1, Invariance, PTL

\* Types hold; a run that ends has its report, which allows the commit exactly if
\* there is one, and without one no task is ticked off.
THEOREM Reported == Spec => []EndReported
<1>1. IInv => TypeOK
  BY TreeBound DEF IInv, TypeInv, TreeInv, TypeOK, Steps, Before, Over, AfterCapture, Reports
<1>2. IInv => EndReported
  BY <1>1 DEF IInv, OutInv, Over, EndReported
<1> QED
  BY <1>2, Invariance, PTL

=============================================================================
