---------------------------- MODULE Orchestrator ----------------------------
(***************************************************************************)
(* tools/agent_orchestrator/orchestrate.py: one run of a task.  A coding   *)
(* agent (Codex) changes the work tree, gates and checks look at the       *)
(* change, a reviewer (Claude) and an auditor (Antigravity) give verdicts, *)
(* and the tool commits or stops.  Every subprocess may fail or time out;  *)
(* while one runs, somebody else may edit the work tree.  The content of   *)
(* the tree is a version number and what it touches.                       *)
(***************************************************************************)
EXTENDS Integers, SequencesExt, FiniteSetsExt

CONSTANTS
  MaxCycles,  \* bound: the largest limits.max_task_cycles
  MaxEdits    \* bound: edits of the tree by others

ASSUME CyclesAssumption == MaxCycles \in Nat /\ MaxEdits \in Nat

VARIABLES
  opts,      \* the options, the configuration and the task of the run
  pc,        \* the step execute_task comes to next
  cycle,     \* cycle
  feedback,  \* feedback_to_codex: where it came from, "none" for None or ""
  told,      \* history: the feedback in the prompt of this cycle
  repo,      \* the work tree
  cap,       \* what status and diff showed of it: the version and what it touches
  passed,    \* history: the version that last passed each stage
  hist,      \* history: what happened beside the run, and an overruled audit
  out,       \* what the run leaves: classification, report and commit
  ticked     \* the task is ticked off in the backlog file

vars == <<opts, pc, cycle, feedback, told, repo, cap, passed, hist, out, ticked>>

\* The stages a version passes; adjudication is what overrules a failed audit.
Stages == {"gate", "checks", "claude", "audit", "adjudication"}
\* What a change touches, as far as the tool tells changes apart.  Forbidden:
\* too large, configuration, secrets, Redis or a socket where none may be.
\* Critical: the command path, safety, sequence numbers or the board writer.
Facts == {"contract", "forbidden", "critical"}
\* Bound: a change touches at most one of them.
Touches == {{}} \cup {{f} : f \in Facts}
Options == [dry : BOOLEAN, allowDirty : BOOLEAN, override : BOOLEAN, contracts : BOOLEAN,
            backlog : BOOLEAN, dirty : BOOLEAN, limit : 0 .. MaxCycles]
Checks == <<"compileall", "pytest", "ruff", "mypy", "invariants">>
CheckStop == [compileall |-> "STOP_COMPILE_FAILED", pytest |-> "STOP_TESTS_FAILED",
              ruff |-> "STOP_LINT_FAILED", mypy |-> "STOP_TYPECHECK_FAILED",
              invariants |-> "STOP_INVARIANTS_FAILED"]
\* The classifications of a run that commits nothing.
StopReasons ==
  {"STOP_COMPILE_FAILED", "STOP_TESTS_FAILED", "STOP_LINT_FAILED",
   "STOP_TYPECHECK_FAILED", "STOP_INVARIANTS_FAILED", "STOP_DIRTY_WORKTREE",
   "STOP_TOOL_ERROR", "STOP_MODEL_UNVERIFIED", "DRY_RUN_OK", "STOP_BACKLOG_EMPTY",
   "STOP_CONTRACT_CHANGE", "STOP_HIGH_RISK_CHANGE", "STOP_ARCHITECTURE_RISK",
   "STOP_CLAUDE_REVIEW_FAILED", "STOP_ANTIGRAVITY_AUDIT_FAILED",
   "STOP_HUMAN_REVIEW_REQUIRED"}
NoReport == [decision |-> "none", claude |-> "none", audit |-> "none"]
Versions == 0 .. MaxCycles + MaxEdits + 1

TypeOK ==
  /\ opts \in Options
  /\ pc \in {"clean", "branch", "models", "plan", "prompt", "codex", "capture", "gate",
             "checks", "claude", "audit", "extract", "overrule", "adjudicate", "commit",
             "finish", "end"}
  /\ cycle \in 0 .. opts.limit
  /\ feedback \in {"none", "checks", "claude"} /\ told \in {"none", "checks", "claude"}
  /\ repo \in [branch : {"main", "agent", "other"}, tree : Versions, touches : SUBSET Facts,
               staged : BOOLEAN]
  /\ cap \in [tree : Versions, touches : SUBSET Facts]
  /\ passed \in [Stages -> Versions]
  /\ hist \in [silent : BOOLEAN, edits : 0 .. MaxEdits, edited : BOOLEAN, blind : BOOLEAN,
               overruled : BOOLEAN]
  /\ out.commit \in Versions /\ out.status \in StopReasons \cup {"", "AUTO_COMMITTED"}
  /\ out.report \in [decision : {"none", "ALLOWED", "STOPPED", "DRY_RUN"},
                     claude : {"none", "PASS", "FAIL"}, audit : {"none", "PASS", "FAIL"}]
  /\ ticked \in BOOLEAN

\* The work tree is at a commit (version 0), or there is work of others in it.
Init ==
  /\ opts \in Options
  /\ pc = "clean" /\ cycle = 0 /\ feedback = "none" /\ told = "none"
  /\ repo \in [branch : {"main", "other"}, tree : {IF opts.dirty THEN 1 ELSE 0},
               touches : {{}}, staged : {FALSE, opts.dirty}]
  /\ cap = [tree |-> 0, touches |-> {}]
  /\ passed = [s \in Stages |-> 0]
  /\ hist = [silent |-> FALSE, edits |-> 0, edited |-> FALSE, blind |-> FALSE,
             overruled |-> FALSE]
  /\ out = [commit |-> 0, status |-> "", report |-> NoReport]
  /\ ticked = FALSE

-----------------------------------------------------------------------------
(* Helpers.  A definition whose name begins with Bug is a broken variant of *)
(* the one that follows it, used to show that the properties notice.        *)

\* The verdicts in the report are guessed from the classification.
Report(s) ==
  [decision |-> CASE s = "AUTO_COMMITTED" -> "ALLOWED"
                  [] s = "DRY_RUN_OK" -> "DRY_RUN"
                  [] OTHER -> "STOPPED",
   claude |-> IF s = "STOP_CLAUDE_REVIEW_FAILED" THEN "FAIL" ELSE "PASS",
   audit |-> IF s = "STOP_ANTIGRAVITY_AUDIT_FAILED" THEN "FAIL" ELSE "PASS"]

\* log_report and return.
Stop(s) == pc' = "finish" /\ out' = [out EXCEPT !.status = s, !.report = Report(s)]

Goto(p) == pc' = p /\ UNCHANGED out

\* A finding goes back to Codex as long as there is a cycle left.
Retry(why, s) ==
  \/ cycle < opts.limit /\ Goto("prompt") /\ feedback' = why
  \/ cycle >= opts.limit /\ Stop(s) /\ UNCHANGED feedback

Pass(s) == passed' = [passed EXCEPT ![s] = cap.tree]

Blind == hist' = [hist EXCEPT !.blind = TRUE]

-----------------------------------------------------------------------------
(* Before the loop *)

\* 1. A git status that fails prints nothing, which is taken for clean.
CleanCheck ==
  /\ pc = "clean"
  /\ LET dirty == ~opts.allowDirty /\ repo.tree # 0
     IN  \/ dirty /\ Stop("STOP_DIRTY_WORKTREE") /\ UNCHANGED hist
         \/ dirty /\ Blind /\ Goto("branch")
         \/ ~dirty /\ Goto("branch") /\ UNCHANGED hist
  /\ UNCHANGED <<opts, cycle, feedback, told, repo, cap, passed, ticked>>

\* 2. Only a run that finds itself on the main branch switches; when that fails
\* it returns without a report.  The query for the branch may fail: its empty
\* output is not the name of the main branch.
SwitchBranch ==
  /\ pc = "branch"
  /\ \/ /\ repo.branch = "main" /\ ~opts.dry
        /\ \/ repo' = [repo EXCEPT !.branch = "agent"] /\ Goto("models") /\ UNCHANGED hist
           \/ /\ pc' = "finish" /\ out' = [out EXCEPT !.status = "STOP_TOOL_ERROR"]
              /\ UNCHANGED <<repo, hist>>
           \/ Blind /\ Goto("models") /\ UNCHANGED repo
     \/ /\ repo.branch # "main" \/ opts.dry
        /\ Goto("models") /\ UNCHANGED <<repo, hist>>
  /\ UNCHANGED <<opts, cycle, feedback, told, cap, passed, ticked>>

\* 3. verify_models: one of the agents' programs may answer neither --version
\* nor --help.
VerifyModels ==
  /\ pc = "models"
  /\ Stop("STOP_MODEL_UNVERIFIED") \/ Goto("plan")
  /\ UNCHANGED <<opts, cycle, feedback, told, repo, cap, passed, hist, ticked>>

\* 4. The context and the prompt are put together; a dry run ends here.
Plan ==
  /\ pc = "plan"
  /\ IF opts.dry THEN Stop("DRY_RUN_OK") ELSE Goto("prompt")
  /\ UNCHANGED <<opts, cycle, feedback, told, repo, cap, passed, hist, ticked>>

-----------------------------------------------------------------------------
(* One cycle *)

BugPrompt ==
  /\ pc = "prompt" /\ cycle < opts.limit
  /\ cycle' = cycle + 1 /\ feedback' = "none" /\ told' = "none"
  /\ Goto("codex")
  /\ UNCHANGED <<opts, repo, cap, passed, hist, ticked>>

\* The feedback of the last cycle goes into the prompt and is forgotten.
Prompt ==
  /\ pc = "prompt" /\ cycle < opts.limit
  /\ cycle' = cycle + 1 /\ feedback' = "none" /\ told' = feedback
  /\ Goto("codex")
  /\ UNCHANGED <<opts, repo, cap, passed, hist, ticked>>

\* The loop's else, reached only when the configuration allows no cycle.
NoCycles ==
  /\ pc = "prompt" /\ cycle >= opts.limit
  /\ Stop("STOP_TOOL_ERROR")
  /\ UNCHANGED <<opts, cycle, feedback, told, repo, cap, passed, hist, ticked>>

\* 5. Codex changes the tree or not, perhaps the index too.
Codex ==
  /\ pc = "codex"
  /\ \/ UNCHANGED repo
     \/ \E t \in Touches, s \in {repo.staged, TRUE} :
          repo' = [repo EXCEPT !.tree = @ + 1, !.touches = t, !.staged = s]
  /\ Stop("STOP_TOOL_ERROR") \/ Goto("capture")
  /\ UNCHANGED <<opts, cycle, feedback, told, cap, passed, hist, ticked>>

\* 6. git add -N, git status, git diff.  A status that shows no change (Codex
\* took it back, or git failed) stops the run.  A diff that fails is empty, and
\* a change in the index is not in it; the names of the files, from the status,
\* then give away a contract and perhaps the rest.
Capture ==
  /\ pc = "capture"
  /\ \/ Stop("STOP_BACKLOG_EMPTY") /\ UNCHANGED <<cap, hist>>
     \/ /\ repo.tree # 0 /\ Goto("gate")
        /\ \/ /\ ~repo.staged /\ cap' = [tree |-> repo.tree, touches |-> repo.touches]
              /\ hist' = [hist EXCEPT !.edited = FALSE]
           \/ /\ \E t \in SUBSET repo.touches :
                   repo.touches \cap {"contract"} \subseteq t /\ cap' = [tree |-> 0, touches |-> t]
              /\ hist' = [hist EXCEPT !.edited = FALSE, !.blind = TRUE]
  /\ UNCHANGED <<opts, cycle, feedback, told, repo, passed, ticked>>

\* check_forbidden_patterns: the stop for a change the task does not allow.
Forbidden ==
  IF "contract" \in cap.touches /\ ~opts.contracts THEN {"STOP_CONTRACT_CHANGE"}
  ELSE IF "forbidden" \in cap.touches THEN {"STOP_HIGH_RISK_CHANGE", "STOP_ARCHITECTURE_RISK"}
  ELSE {}

\* 7. The gate.
Gate ==
  /\ pc = "gate"
  /\ \/ \E s \in Forbidden : Stop(s) /\ UNCHANGED passed
     \/ Forbidden = {} /\ Pass("gate") /\ Goto("checks")
  /\ UNCHANGED <<opts, cycle, feedback, told, repo, cap, hist, ticked>>

\* The stop of the check that failed first.
FailReason(failed) == CheckStop[Checks[Min({i \in 1 .. Len(Checks) : Checks[i] \in failed})]]

\* 8. run_checks runs them all and reports the first that failed.  The output
\* of the failed ones is the feedback, which may be empty.
RunChecks ==
  /\ pc = "checks"
  /\ \/ Pass("checks") /\ Goto("claude") /\ UNCHANGED <<feedback, hist>>
     \/ \E failed \in (SUBSET Range(Checks)) \ {{}} :
          /\ Retry("checks", FailReason(failed))
          /\ UNCHANGED <<passed, hist>>
     \/ /\ cycle < opts.limit /\ Goto("prompt")
        /\ feedback' = "none" /\ hist' = [hist EXCEPT !.silent = TRUE]
        /\ UNCHANGED passed
  /\ UNCHANGED <<opts, cycle, told, repo, cap, ticked>>

BugClaudeReview ==
  /\ pc = "claude"
  /\ Pass("claude") \/ UNCHANGED passed
  /\ Goto("audit")
  /\ UNCHANGED <<opts, cycle, feedback, told, repo, cap, hist, ticked>>

\* 9. An error of Claude or an answer without a verdict stops; FAIL, or a PASS
\* with must-fix items, goes back to Codex.
ClaudeReview ==
  /\ pc = "claude"
  /\ \/ Stop("STOP_CLAUDE_REVIEW_FAILED") /\ UNCHANGED <<feedback, passed>>
     \/ Retry("claude", "STOP_CLAUDE_REVIEW_FAILED") /\ UNCHANGED passed
     \/ Pass("claude") /\ Goto("audit") /\ UNCHANGED feedback
  /\ UNCHANGED <<opts, cycle, told, repo, cap, hist, ticked>>

\* What a parsed verdict of Antigravity leads to.
Verdict ==
  \/ Pass("audit") /\ Goto("commit")
  \/ UNCHANGED passed /\ Goto("overrule")

\* 10. The audit, whose verdict may be missing.
Audit ==
  /\ pc = "audit"
  /\ \/ Stop("STOP_ANTIGRAVITY_AUDIT_FAILED") /\ UNCHANGED passed
     \/ Goto("extract") /\ UNCHANGED passed
     \/ Verdict
  /\ UNCHANGED <<opts, cycle, feedback, told, repo, cap, hist, ticked>>

BugExtractVerdict ==
  /\ pc = "extract"
  /\ (Goto("audit") /\ UNCHANGED passed) \/ Verdict
  /\ UNCHANGED <<opts, cycle, feedback, told, repo, cap, hist, ticked>>

\* _extract_antigravity_verdict asks once more; without a verdict it stops.
ExtractVerdict ==
  /\ pc = "extract"
  /\ \/ Stop("STOP_ANTIGRAVITY_AUDIT_FAILED") /\ UNCHANGED passed
     \/ Verdict
  /\ UNCHANGED <<opts, cycle, feedback, told, repo, cap, hist, ticked>>

BugOverrule ==
  /\ pc = "overrule"
  /\ IF opts.override THEN Goto("adjudicate") ELSE Stop("STOP_HUMAN_REVIEW_REQUIRED")
  /\ UNCHANGED <<opts, cycle, feedback, told, repo, cap, passed, hist, ticked>>

\* A FAIL can be overruled only if the configuration allows it and no
\* deterministic hard-stop fact holds; the checks and the gate have passed.
Overrule ==
  /\ pc = "overrule"
  /\ IF opts.override /\ cap.touches \cap {"contract", "critical"} = {}
       THEN Goto("adjudicate") ELSE Stop("STOP_HUMAN_REVIEW_REQUIRED")
  /\ UNCHANGED <<opts, cycle, feedback, told, repo, cap, passed, hist, ticked>>

\* Claude's adjudication: an error, no verdict, no or low confidence or
\* HARD_STOP stops; anything else overrules the audit, which stays failed.
Adjudicate ==
  /\ pc = "adjudicate"
  /\ \/ \E s \in {"STOP_CLAUDE_REVIEW_FAILED", "STOP_HUMAN_REVIEW_REQUIRED"} :
          Stop(s) /\ UNCHANGED <<passed, hist>>
     \/ Pass("adjudication") /\ Goto("commit") /\ hist' = [hist EXCEPT !.overruled = TRUE]
  /\ UNCHANGED <<opts, cycle, feedback, told, repo, cap, ticked>>

\* 11. git_commit adds and commits the captured paths as they are now.
Commit ==
  /\ pc = "commit"
  /\ \/ Stop("STOP_TOOL_ERROR")
     \/ /\ pc' = "finish"
        /\ out' = [commit |-> repo.tree, status |-> "AUTO_COMMITTED",
                   report |-> Report("AUTO_COMMITTED")]
  /\ UNCHANGED <<opts, cycle, feedback, told, repo, cap, passed, hist, ticked>>

BugFinish ==
  /\ pc = "finish" /\ pc' = "end"
  /\ ticked' = opts.backlog
  /\ UNCHANGED <<opts, cycle, feedback, told, repo, cap, passed, hist, out>>

\* main: the task is ticked off in the text that was read before the run, where
\* the first unchecked item with its text and a plain "[ ]" is looked for.  An
\* item written "-  [ ]" or "- [  ]" is taken up as a task and not found again.
Finish ==
  /\ pc = "finish" /\ pc' = "end"
  /\ ticked' \in {FALSE, opts.backlog /\ out.status = "AUTO_COMMITTED"}
  /\ UNCHANGED <<opts, cycle, feedback, told, repo, cap, passed, hist, out>>

\* Somebody else (a developer, an agent that was asked for a verdict) changes
\* the tree while a subprocess runs.
Edit ==
  /\ pc \notin {"finish", "end"} /\ hist.edits < MaxEdits
  /\ hist' = [hist EXCEPT !.edits = @ + 1, !.edited = TRUE]
  /\ \E t \in Touches : repo' = [repo EXCEPT !.tree = @ + 1, !.touches = t]
  /\ UNCHANGED <<opts, pc, cycle, feedback, told, cap, passed, out, ticked>>

Step ==
  \/ CleanCheck \/ SwitchBranch \/ VerifyModels \/ Plan \/ Prompt \/ NoCycles \/ Codex
  \/ Capture \/ Gate \/ RunChecks \/ ClaudeReview \/ Audit \/ ExtractVerdict \/ Overrule
  \/ Adjudicate \/ Commit \/ Finish

Next == Step \/ Edit

\* Every subprocess ends, by itself or by subprocess_timeout_s.
Spec == Init /\ [][Next]_vars /\ WF_vars(Step)

-----------------------------------------------------------------------------
(* Properties *)

Committed == out.commit # 0

\* What is committed passed the gate, the checks, the review and the audit, or
\* the adjudication that overruled a failed audit, all as this very version: no
\* verdict of an earlier cycle and none that could not be parsed stands in for
\* one of them.  The exceptions are a tree edited after it was captured and a
\* git query that failed or did not show the index.
CommittedWasVetted ==
  Committed /\ ~hist.edited /\ ~hist.blind =>
    /\ \A s \in {"gate", "checks", "claude"} : passed[s] = out.commit
    /\ passed[IF hist.overruled THEN "adjudication" ELSE "audit"] = out.commit

\* A committed change touches nothing the gate forbids, contracts only if the
\* task says so, and nothing critical if the audit was overruled; and it is
\* neither on the main branch nor on top of work of others that the tool was
\* not told to accept.  The exceptions are those of CommittedWasVetted.
CommitAllowed ==
  Committed /\ ~hist.blind =>
    /\ repo.branch # "main" /\ (opts.dirty => opts.allowDirty)
    /\ ~hist.edited =>
         /\ "forbidden" \notin repo.touches
         /\ "contract" \in repo.touches => opts.contracts /\ ~hist.overruled
         /\ "critical" \in repo.touches => ~hist.overruled

\* Codex is told in every further cycle why there is one, unless the checks
\* that failed printed nothing.
FeedbackReaches ==
  cycle > 1 /\ ~hist.silent => told # "none"

\* A run that ends has written a report, unless it could not switch to its
\* branch, and the report allows the commit exactly if there is one; no task is
\* ticked off in the backlog without one.
EndReported ==
  /\ TypeOK
  /\ pc = "end" =>
       /\ out.report = NoReport => out.status = "STOP_TOOL_ERROR" /\ cycle = 0
       /\ out.report.decision = "ALLOWED" <=> Committed
       /\ ticked => opts.backlog /\ Committed

\* The run ends, in at most max_task_cycles cycles.
RunEnds == <>(pc = "end")
=============================================================================
