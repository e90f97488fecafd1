---------------------------- MODULE ClaudeRunner ----------------------------
(***************************************************************************)
(* The self-hosted task runner: one workflow run of claude-task.yml on one *)
(* issue, its script run-claude-task.sh, the recovery step after it, and   *)
(* the re-runs of the same workflow run, which share its branch.           *)
(*                                                                         *)
(* The content of a tree is the number of contributions Claude made to it  *)
(* on top of the base commit, and the kinds of protected change in it.     *)
(* GitHub and the network are the environment: a push or a request is      *)
(* carried out and reported, carried out with the report lost, or not      *)
(* carried out.  The concurrency group serialises the runs of one issue.   *)
(***************************************************************************)
EXTENDS Integers

CONSTANTS
    MaxAttempts,    \* bound on runs of the job: the first and its re-runs
    MaxWork,        \* bound on contributions
    PushTries,      \* retry_cmd 4 10 git push, and of gh pr create
    CommentTries,   \* retry_cmd 3 5 gh issue comment
    RestoreMayFail, \* is a git restore that fails among the faults?
    Null

ASSUME BoundsAreCounts ==
    /\ MaxAttempts \in Nat \ {0}
    /\ MaxWork \in Nat
    /\ PushTries \in Nat \ {0}
    /\ CommentTries \in Nat \ {0}

ASSUME FaultIsAChoice == RestoreMayFail \in BOOLEAN

\* Changes to a protected path, by what the strip makes of them: "edited", the
\* path is in the base commit and is restored from there; "added", it is not,
\* and git status prints it, or a directory of it that a pattern matches;
\* "enclosed", it lies in a new directory, of which git status prints the
\* directory alone, and that matches no pattern (".vscode/" for
\* .vscode/tasks.json, in a repository that has no .vscode).
ProtectedChanges == {"edited", "added", "enclosed"}

\* What a commit or a working tree holds.
Content == [work : 0 .. MaxWork, protected : SUBSET ProtectedChanges]
Base == [work |-> 0, protected |-> {}]

ASSUME NullIsNoContent == Null \notin Content

VARIABLES
    pc,         \* the step the job is at
    attempt,    \* runs of the job so far
    tries,      \* failed tries of the command being retried
    tree,       \* the working tree
    head,       \* the checked-out commit
    start,      \* start_commit, base_commit: HEAD when the attempt began
    upstream,   \* the branch tracks origin/$branch
    checks,     \* checks_passed
    remote,     \* origin/$branch, or Null
    pr,         \* the pull request of the branch, or Null
    posted,     \* kinds of comments on the issue
    result      \* conclusion of the last attempt

vars == <<pc, attempt, tries, tree, head, start, upstream, checks, remote, pr,
          posted, result>>

local == <<tree, head, start, upstream, checks>>
github == <<remote, pr, posted>>

\* The pull request: the draft flag it was opened with.
PullRequest == [draft : BOOLEAN]

Comments == {"no_changes", "completed", "failed_before_pr", "checkpointed"}

ScriptSteps == {"issue", "sync", "claude", "check", "repair", "recheck",
                "strip", "no_changes", "commit", "push", "pr_list",
                "pr_create", "announce", "on_error"}
RecoverySteps == {"recover", "checkpoint", "notify"}

Init ==
    /\ pc = "idle"
    /\ attempt = 0
    /\ tries = 0
    /\ tree = Base /\ head = Base /\ start = Base
    /\ upstream = FALSE
    /\ checks = FALSE
    /\ remote = Null
    /\ pr = Null
    /\ posted = {}
    /\ result = "none"

Goto(step) == pc' = step /\ tries' = 0

\* Slip of retry_cmd: the counter is not advanced.
RetryForever(max, step) == UNCHANGED <<tries, pc>>

\* The command at hand failed: once more, or give up and go to step.
Retry(max, step) ==
    IF tries + 1 < max THEN tries' = tries + 1 /\ UNCHANGED pc
                       ELSE Goto(step)

Conclude(conclusion) == Goto("idle") /\ result' = conclusion

-----------------------------------------------------------------------------
(* Checkout repository, Restore partial checkpoint *)

\* Slip: git checkout -B "$branch" "origin/$branch" leaves the branch tracking.
UpstreamAfterRestoreKept == remote # Null

\* git branch --unset-upstream
UpstreamAfterRestore == FALSE

\* Slip: an attempt starts over.
RestoredNever == Base

Restored == IF remote = Null THEN Base ELSE remote

StartAttempt ==
    /\ pc = "idle"
    /\ attempt < MaxAttempts
    /\ attempt' = attempt + 1
    /\ head' = Restored
    /\ tree' = Restored
    /\ start' = Restored
    /\ upstream' = UpstreamAfterRestore
    /\ checks' = FALSE
    /\ result' = "none"
    /\ Goto("issue")
    /\ UNCHANGED github

-----------------------------------------------------------------------------
(* run-claude-task.sh *)

\* gh api fails for good, or the issue is refused: exit before the ERR trap.
IssueUnusable ==
    /\ pc = "issue"
    /\ Goto("recover")
    /\ UNCHANGED <<attempt, local, github, result>>

IssueAccepted ==
    /\ pc = "issue"
    /\ Goto("sync")
    /\ UNCHANGED <<attempt, local, github, result>>

Sync ==
    /\ pc = "sync"
    /\ Goto("claude") \/ Goto("on_error")
    /\ UNCHANGED <<attempt, local, github, result>>

\* run_claude: Claude changes the tree as it likes and then exits zero or not
\* (a turn or session limit).
RunClaude ==
    /\ pc \in {"claude", "repair"}
    /\ \E work \in tree.work .. MaxWork, changes \in SUBSET ProtectedChanges :
          /\ work <= tree.work + 1
          /\ tree' = [work |-> work,
                       protected |-> tree.protected \union changes]
    /\ \/ Goto(IF pc = "claude" THEN "check" ELSE "recheck")
       \/ Goto("on_error")
    /\ UNCHANGED <<attempt, head, start, upstream, checks, github, result>>

\* run_checks, the first time and after the repair.
RunChecks ==
    /\ pc \in {"check", "recheck"}
    /\ checks' \in BOOLEAN
    /\ Goto(IF checks' \/ pc = "recheck" THEN "strip" ELSE "repair")
    /\ UNCHANGED <<attempt, tree, head, start, upstream, github, result>>

\* Slip: protected changes are reported, not discarded.
NothingStripped(content) == {content}

\* What the loop over git status may leave of the changes since the commit: rm
\* removes what was added; "git restore ... || true" may leave an edit, and an
\* enclosed file is met only where a commit that failed had listed it.
Stripped(content) ==
    LET met == content.protected \ head.protected
        undone == IF RestoreMayFail THEN {"added"} ELSE {"added", "edited"}
    IN  {[content EXCEPT !.protected = head.protected \union left] :
            left \in SUBSET (met \ undone)}

\* Protected changes are restored from base_commit; is anything left?
Strip ==
    /\ pc = "strip"
    /\ tree' \in Stripped(tree)
    /\ Goto(IF tree' = head THEN "no_changes" ELSE "commit")
    /\ UNCHANGED <<attempt, head, start, upstream, checks, github, result>>

\* gh issue comment, CommentTries times; a lost report posts a second time.
Posting(kind, done) ==
    \/ done /\ posted' = posted \union {kind}
    \/ /\ Retry(CommentTries, "on_error")
       /\ posted' \in {posted, posted \union {kind}}
       /\ UNCHANGED result

NoChanges ==
    /\ pc = "no_changes"
    /\ Posting("no_changes", Conclude("success"))
    /\ UNCHANGED <<attempt, local, remote, pr>>

Commit ==
    /\ pc = "commit"
    /\ \/ head' = tree /\ Goto("push")
       \/ UNCHANGED head /\ Goto("on_error")
    /\ UNCHANGED <<attempt, tree, start, upstream, checks, github, result>>

\* git push --set-upstream: the upstream is set when the push is reported.
Push ==
    /\ pc = "push"
    /\ \/ remote' = head /\ upstream' = TRUE /\ Goto("pr_list")
       \/ /\ remote' \in {remote, head}
          /\ UNCHANGED upstream
          /\ Retry(PushTries, "on_error")
    /\ UNCHANGED <<attempt, tree, head, start, checks, pr, posted, result>>

PrList ==
    /\ pc = "pr_list"
    /\ \/ Goto(IF pr = Null THEN "pr_create" ELSE "announce")
       \/ Goto("on_error")
    /\ UNCHANGED <<attempt, local, github, result>>

\* gh pr create; a second try after a lost report finds the first and fails.
PrCreate ==
    /\ pc = "pr_create"
    /\ \/ /\ pr = Null
          /\ pr' = [draft |-> ~ checks]
          /\ Goto("announce") \/ Retry(PushTries, "on_error")
       \/ /\ UNCHANGED pr
          /\ Retry(PushTries, "on_error")
    /\ UNCHANGED <<attempt, local, remote, posted, result>>

Announce ==
    /\ pc = "announce"
    /\ Posting("completed", Conclude("success"))
    /\ UNCHANGED <<attempt, local, remote, pr>>

\* The ERR trap: a comment, whether or not it gets through, and exit.
OnError ==
    /\ pc = "on_error"
    /\ posted' \in {posted, posted \union {"failed_before_pr"}}
    /\ Goto("recover")
    /\ UNCHANGED <<attempt, local, remote, pr, result>>

-----------------------------------------------------------------------------
(* The rest of the workflow step, when the script failed *)

\* An upstream says that the runner pushed: the step succeeds.
RecoverPushed ==
    /\ pc = "recover"
    /\ upstream
    /\ Conclude("success")
    /\ UNCHANGED <<attempt, local, github>>

\* What is left after the strip is committed.
RecoverWork ==
    /\ pc = "recover"
    /\ ~ upstream
    /\ tree' \in Stripped(tree)
    /\ tree' # head
    /\ head' = tree'
    /\ Goto("checkpoint")
    /\ UNCHANGED <<attempt, start, upstream, checks, github, result>>

\* "Claude failed without committable partial changes; no checkpoint created."
RecoverNothing ==
    /\ pc = "recover"
    /\ ~ upstream
    /\ tree' \in Stripped(tree)
    /\ tree' = head
    /\ Conclude("nothing_left")
    /\ UNCHANGED <<attempt, head, start, upstream, checks, github>>

\* git push origin HEAD, which sets no upstream.
Checkpoint ==
    /\ pc = "checkpoint"
    /\ \/ /\ remote' = head
          /\ Goto("notify")
          /\ UNCHANGED result
       \/ /\ remote' \in {remote, head}
          /\ IF tries + 1 < PushTries
             THEN tries' = tries + 1 /\ UNCHANGED <<pc, result>>
             ELSE Conclude("not_preserved")
    /\ UNCHANGED <<attempt, local, pr, posted>>

Notify ==
    /\ pc = "notify"
    /\ posted' \in {posted, posted \union {"checkpointed"}}
    /\ Conclude("preserved")
    /\ UNCHANGED <<attempt, local, remote, pr>>

\* timeout-minutes, a cancelled run or a dead runner host: no step follows.
Kill ==
    /\ pc # "idle"
    /\ Conclude("killed")
    /\ UNCHANGED <<attempt, local, github>>

Script ==
    \/ IssueUnusable \/ IssueAccepted \/ Sync \/ RunClaude \/ RunChecks \/ Strip
    \/ NoChanges \/ Commit \/ Push \/ PrList \/ PrCreate \/ Announce \/ OnError

Recovery ==
    RecoverPushed \/ RecoverWork \/ RecoverNothing \/ Checkpoint \/ Notify

Next == StartAttempt \/ Script \/ Recovery \/ Kill

Spec == Init /\ [][Next]_vars

\* Every command of the job comes to an end: the number of turns of Claude and
\* of tries of a command are bounded.
FairSpec == Spec /\ WF_vars(Script \/ Recovery)

-----------------------------------------------------------------------------
(* Properties *)

Conclusions == {"none", "success", "preserved", "not_preserved",
                "nothing_left", "killed"}

\* Counters and contents stay in their types: no command is tried more often
\* than its bound, and a comment is one of the kinds the job posts.
TypeOK ==
    /\ pc \in {"idle"} \union ScriptSteps \union RecoverySteps
    /\ attempt \in 0 .. MaxAttempts
    /\ tries \in Nat
    /\ \/ pc \in {"no_changes", "announce"} /\ tries < CommentTries
       \/ pc \in {"push", "pr_create", "checkpoint"} /\ tries < PushTries
       \/ tries = 0
    /\ tree \in Content /\ head \in Content /\ start \in Content
    /\ upstream \in BOOLEAN /\ checks \in BOOLEAN
    /\ remote \in Content \union {Null}
    /\ pr \in PullRequest \union {Null}
    /\ posted \subseteq Comments
    /\ result \in Conclusions

\* What the strip does achieve: whichever of the two paths commits, whatever
\* failed before, and whatever an earlier attempt published, no protected file
\* that git status prints and the base does not hold reaches the branch.
AddedNeverPublished == remote # Null => "added" \notin remote.protected

\* An attempt that concludes with success, or that announces a checkpoint, has
\* left nothing behind on the runner: the branch holds all of Claude's work.
\* The recovery tells so from the upstream alone, which a restored checkpoint
\* and a failed push must therefore not set.
ConcludedIsDurable ==
    pc = "idle" /\ result \in {"success", "preserved"} =>
        tree = IF remote = Null THEN Base ELSE remote

\* Attempts build on one another: no push, of a finished task or of a
\* checkpoint, takes back work that an earlier attempt published.
PublishedWorkStays ==
    [][remote # Null => remote' # Null /\ remote'.work >= remote.work]_vars

\* Every attempt comes to a conclusion, whatever fails and however often.
AttemptsEnd == pc # "idle" ~> pc = "idle"

-----------------------------------------------------------------------------
(* What the job says and does not do *)

\* "Automated tasks cannot commit changes to the automation/agent trust
\* boundary" (docs/claude-runner.md:36): nothing published changes a protected
\* file.
ProtectedNeverPublished == remote # Null => remote.protected = {}

\* "Claude failed without committable partial changes"
\* (.github/workflows/claude-task.yml:131): the notice is given only when the
\* branch holds all there was.
NothingLeftIsNothing ==
    pc = "idle" /\ result = "nothing_left" => tree = Restored

\* "Claude completed Issue but produced no committable changes"
\* (scripts/run-claude-task.sh:248): the comment is posted only when there is
\* no work on the branch.
NoChangesMeansNoWork ==
    [][pc = "no_changes" /\ posted' # posted => head = Base]_vars
=============================================================================
