------------------------- MODULE ClaudeRunnerProofs -------------------------
(***************************************************************************)
(* Safety of ClaudeRunner for every number of attempts, contributions and  *)
(* tries.  The invariants speak of the end of an attempt; IInv says what   *)
(* tree, commit, upstream and branch have to do with one another at every  *)
(* step on the way there.                                                  *)
(***************************************************************************)
EXTENDS ClaudeRunner, TLAPS

\* The steps up to the commit of the script.
Uncommitted == {"issue", "sync", "claude", "check", "repair", "recheck",
                "strip", "no_changes", "commit"}

\* No commit, and so no checkout and no branch, holds an added protected file.
CommitsInv ==
    /\ "added" \notin head.protected
    /\ remote # Null => "added" \notin remote.protected
    /\ pc = "commit" => "added" \notin tree.protected

\* Nothing is taken back while an attempt runs.
GrowthInv ==
    pc # "idle" => /\ tree.work >= head.work
                   /\ head.work >= Restored.work

\* An upstream is there only after the script's push, and the tree is the
\* branch then.
UpstreamInv ==
    /\ upstream => remote = head /\ tree = head
    /\ pc \in Uncommitted \union {"push", "checkpoint", "notify"} => ~ upstream

\* Before the script commits, the commit is the one the attempt restored; the
\* steps that follow a commit have nothing left in the tree.
TreeInv ==
    /\ pc \in Uncommitted => head = Restored
    /\ pc \in {"no_changes", "push", "checkpoint", "notify"} => tree = head
    /\ pc \in {"pr_list", "pr_create", "announce"} => upstream
    /\ pc = "notify" => remote = head

IInv ==
    /\ TypeOK
    /\ CommitsInv
    /\ GrowthInv
    /\ UpstreamInv
    /\ TreeInv
    /\ ConcludedIsDurable

-----------------------------------------------------------------------------
\* Whatever of the protected changes the strip leaves, it leaves the work, and
\* nothing that was added.
LEMMA StripKeepsWork ==
    ASSUME head \in Content, "added" \notin head.protected,
           NEW content \in Content, NEW left \in Stripped(content)
    PROVE  /\ left \in Content
           /\ left.work = content.work
           /\ "added" \notin left.protected
  <1> DEFINE met == content.protected \ head.protected
             undone == IF RestoreMayFail THEN {"added"} ELSE {"added", "edited"}
  <1>1. PICK kept \in SUBSET (met \ undone) :
            left = [content EXCEPT !.protected = head.protected \union kept]
    BY DEF Stripped
  <1>2. "added" \in undone
    OBVIOUS
  <1>3. /\ head.protected \union kept \in SUBSET ProtectedChanges
        /\ "added" \notin head.protected \union kept
    BY <1>2 DEF Content
  <1> QED
    BY <1>1, <1>3 DEF Content

LEMMA ContentFields ==
    ASSUME NEW content \in Content
    PROVE  content.work \in 0 .. MaxWork /\ content.protected \in SUBSET ProtectedChanges
  BY DEF Content

LEMMA DraftIsPullRequest ==
    ASSUME NEW flag \in BOOLEAN
    PROVE  [draft |-> flag] \in PullRequest
  BY DEF PullRequest

LEMMA BaseIsContent == Base \in Content /\ "added" \notin Base.protected /\ Base.work = 0
  BY BoundsAreCounts DEF Base, Content

\* A retried command leaves its step and a count below its bound, or goes on.
LEMMA RetryCounts ==
    ASSUME NEW max \in Nat, NEW step, tries \in Nat, Retry(max, step)
    PROVE  \/ pc' = pc /\ tries' \in Nat /\ tries' < max
           \/ pc' = step /\ tries' = 0
  BY DEF Retry, Goto

LEMMA InitIInv == Init => IInv
  <1> SUFFICES ASSUME Init
               PROVE  IInv
    OBVIOUS
  <1>1. TypeOK
    <2>1. tree \in Content /\ head \in Content /\ start \in Content
      BY BaseIsContent DEF Init
    <2>2. attempt \in 0 .. MaxAttempts /\ tries = 0 /\ tries \in Nat
      BY BoundsAreCounts DEF Init
    <2>3. pc \in {"idle"} /\ result \in Conclusions /\ posted \subseteq Comments
      BY DEF Init, Conclusions
    <2> QED
      BY <2>1, <2>2, <2>3 DEF Init, TypeOK
  <1>2. CommitsInv /\ GrowthInv /\ UpstreamInv /\ TreeInv /\ ConcludedIsDurable
    BY BaseIsContent
       DEF Init, CommitsInv, GrowthInv, UpstreamInv, TreeInv, ConcludedIsDurable,
           Uncommitted
  <1> QED
    BY <1>1, <1>2 DEF IInv

LEMMA NextKeepsIInv == IInv /\ [Next]_vars => IInv'
  <1> SUFFICES ASSUME IInv, [Next]_vars
               PROVE  IInv'
    OBVIOUS
  <1> USE BoundsAreCounts, NullIsNoContent
      DEF IInv, TypeOK, CommitsInv, GrowthInv, UpstreamInv, TreeInv,
          ConcludedIsDurable, Uncommitted, Restored, Goto, Conclude,
          ScriptSteps, RecoverySteps, Conclusions, Comments, local, github
  <1>1. CASE IssueUnusable
    BY <1>1, StripKeepsWork, BaseIsContent, RetryCounts DEF IssueUnusable
  <1>2. CASE IssueAccepted
    BY <1>2, StripKeepsWork, BaseIsContent, RetryCounts DEF IssueAccepted
  <1>3. CASE Sync
    BY <1>3, StripKeepsWork, BaseIsContent, RetryCounts DEF Sync
  <1>4. CASE RunClaude
    <2>1. TypeOK'
      <3>1. tree' \in Content
        BY <1>4, ContentFields DEF RunClaude, Content
      <3> QED
        BY <1>4, <3>1 DEF RunClaude
    <2>2. CommitsInv'
      BY <1>4, StripKeepsWork, BaseIsContent, ContentFields, RetryCounts DEF RunClaude
    <2>3. GrowthInv'
      BY <1>4, StripKeepsWork, BaseIsContent, ContentFields, RetryCounts DEF RunClaude
    <2>4. UpstreamInv'
      BY <1>4, StripKeepsWork, BaseIsContent, ContentFields, RetryCounts DEF RunClaude
    <2>5. TreeInv'
      BY <1>4, StripKeepsWork, BaseIsContent, ContentFields, RetryCounts DEF RunClaude
    <2>6. ConcludedIsDurable'
      BY <1>4, StripKeepsWork, BaseIsContent, ContentFields, RetryCounts DEF RunClaude
    <2> QED
      BY <2>1, <2>2, <2>3, <2>4, <2>5, <2>6
  <1>5. CASE RunChecks
    BY <1>5, StripKeepsWork, BaseIsContent, RetryCounts DEF RunChecks
  <1>6. CASE Strip
    BY <1>6, StripKeepsWork, BaseIsContent, RetryCounts DEF Strip
  <1>7. CASE NoChanges
    <2>1. TypeOK'
      <3>1. /\ pc' \in {"no_changes", "on_error", "idle"} /\ tries' \in Nat
            /\ tries' = 0 \/ (pc' = pc /\ tries' < CommentTries)
        BY <1>7, RetryCounts DEF NoChanges, Posting
      <3>2. posted' \subseteq Comments /\ result' \in Conclusions
        BY <1>7 DEF NoChanges, Posting
      <3> QED
        BY <1>7, <3>1, <3>2 DEF NoChanges
    <2>2. CommitsInv'
      BY <1>7, StripKeepsWork, BaseIsContent, ContentFields, RetryCounts DEF NoChanges, Posting
    <2>3. GrowthInv'
      BY <1>7, StripKeepsWork, BaseIsContent, ContentFields, RetryCounts DEF NoChanges, Posting
    <2>4. UpstreamInv'
      BY <1>7, StripKeepsWork, BaseIsContent, ContentFields, RetryCounts DEF NoChanges, Posting
    <2>5. TreeInv'
      BY <1>7, StripKeepsWork, BaseIsContent, ContentFields, RetryCounts DEF NoChanges, Posting
    <2>6. ConcludedIsDurable'
      BY <1>7, StripKeepsWork, BaseIsContent, ContentFields, RetryCounts DEF NoChanges, Posting
    <2> QED
      BY <2>1, <2>2, <2>3, <2>4, <2>5, <2>6
  <1>8. CASE Commit
    <2>1. TypeOK'
      BY <1>8, StripKeepsWork, BaseIsContent, ContentFields, RetryCounts DEF Commit
    <2>2. CommitsInv'
      BY <1>8, StripKeepsWork, BaseIsContent, ContentFields, RetryCounts DEF Commit
    <2>3. GrowthInv'
      BY <1>8, StripKeepsWork, BaseIsContent, ContentFields, RetryCounts DEF Commit
    <2>4. UpstreamInv'
      BY <1>8, StripKeepsWork, BaseIsContent, ContentFields, RetryCounts DEF Commit
    <2>5. TreeInv'
      BY <1>8, StripKeepsWork, BaseIsContent, ContentFields, RetryCounts DEF Commit
    <2>6. ConcludedIsDurable'
      BY <1>8, StripKeepsWork, BaseIsContent, ContentFields, RetryCounts DEF Commit
    <2> QED
      BY <2>1, <2>2, <2>3, <2>4, <2>5, <2>6
  <1>9. CASE Push
    <2>1. TypeOK'
      <3>1. /\ pc' \in {"push", "pr_list", "on_error"} /\ tries' \in Nat
            /\ tries' = 0 \/ (pc' = pc /\ tries' < PushTries)
        BY <1>9, RetryCounts DEF Push
      <3>2. remote' \in Content \union {Null} /\ upstream' \in BOOLEAN
        BY <1>9 DEF Push
      <3> QED
        BY <1>9, <3>1, <3>2 DEF Push
    <2>2. CommitsInv'
      BY <1>9, StripKeepsWork, BaseIsContent, ContentFields, RetryCounts DEF Push
    <2>3. GrowthInv'
      BY <1>9, StripKeepsWork, BaseIsContent, ContentFields, RetryCounts DEF Push
    <2>4. UpstreamInv'
      BY <1>9, StripKeepsWork, BaseIsContent, ContentFields, RetryCounts DEF Push
    <2>5. TreeInv'
      BY <1>9, StripKeepsWork, BaseIsContent, ContentFields, RetryCounts DEF Push
    <2>6. ConcludedIsDurable'
      BY <1>9, StripKeepsWork, BaseIsContent, ContentFields, RetryCounts DEF Push
    <2> QED
      BY <2>1, <2>2, <2>3, <2>4, <2>5, <2>6
  <1>10. CASE PrList
    BY <1>10, StripKeepsWork, BaseIsContent, RetryCounts DEF PrList
  <1>11. CASE PrCreate
    <2>1. TypeOK'
      <3>1. /\ pc' \in {"pr_create", "announce", "on_error"} /\ tries' \in Nat
            /\ tries' = 0 \/ (pc' = pc /\ tries' < PushTries)
        BY <1>11, RetryCounts DEF PrCreate
      <3>2. [draft |-> ~ checks] \in PullRequest
        <4>1. (~ checks) \in BOOLEAN
          OBVIOUS
        <4> QED
          BY <4>1, DraftIsPullRequest
      <3>3. pr' \in PullRequest \union {Null}
        BY <1>11, <3>2 DEF PrCreate
      <3> QED
        BY <1>11, <3>1, <3>3 DEF PrCreate
    <2>2. CommitsInv'
      BY <1>11, StripKeepsWork, BaseIsContent, ContentFields, RetryCounts DEF PrCreate
    <2>3. GrowthInv'
      BY <1>11, StripKeepsWork, BaseIsContent, ContentFields, RetryCounts DEF PrCreate
    <2>4. UpstreamInv'
      BY <1>11, StripKeepsWork, BaseIsContent, ContentFields, RetryCounts DEF PrCreate
    <2>5. TreeInv'
      BY <1>11, StripKeepsWork, BaseIsContent, ContentFields, RetryCounts DEF PrCreate
    <2>6. ConcludedIsDurable'
      BY <1>11, StripKeepsWork, BaseIsContent, ContentFields, RetryCounts DEF PrCreate
    <2> QED
      BY <2>1, <2>2, <2>3, <2>4, <2>5, <2>6
  <1>12. CASE Announce
    <2>1. TypeOK'
      <3>1. /\ pc' \in {"announce", "on_error", "idle"} /\ tries' \in Nat
            /\ tries' = 0 \/ (pc' = pc /\ tries' < CommentTries)
        BY <1>12, RetryCounts DEF Announce, Posting
      <3>2. posted' \subseteq Comments /\ result' \in Conclusions
        BY <1>12 DEF Announce, Posting
      <3> QED
        BY <1>12, <3>1, <3>2 DEF Announce
    <2>2. CommitsInv'
      BY <1>12, StripKeepsWork, BaseIsContent, ContentFields, RetryCounts DEF Announce, Posting
    <2>3. GrowthInv'
      BY <1>12, StripKeepsWork, BaseIsContent, ContentFields, RetryCounts DEF Announce, Posting
    <2>4. UpstreamInv'
      BY <1>12, StripKeepsWork, BaseIsContent, ContentFields, RetryCounts DEF Announce, Posting
    <2>5. TreeInv'
      BY <1>12, StripKeepsWork, BaseIsContent, ContentFields, RetryCounts DEF Announce, Posting
    <2>6. ConcludedIsDurable'
      BY <1>12, StripKeepsWork, BaseIsContent, ContentFields, RetryCounts DEF Announce, Posting
    <2> QED
      BY <2>1, <2>2, <2>3, <2>4, <2>5, <2>6
  <1>13. CASE OnError
    BY <1>13, StripKeepsWork, BaseIsContent, RetryCounts DEF OnError
  <1>14. CASE RecoverPushed
    BY <1>14, StripKeepsWork, BaseIsContent, RetryCounts DEF RecoverPushed
  <1>15. CASE RecoverWork
    <2>1. TypeOK'
      BY <1>15, StripKeepsWork, BaseIsContent, ContentFields, RetryCounts DEF RecoverWork
    <2>2. CommitsInv'
      BY <1>15, StripKeepsWork, BaseIsContent, ContentFields, RetryCounts DEF RecoverWork
    <2>3. GrowthInv'
      BY <1>15, StripKeepsWork, BaseIsContent, ContentFields, RetryCounts DEF RecoverWork
    <2>4. UpstreamInv'
      BY <1>15, StripKeepsWork, BaseIsContent, ContentFields, RetryCounts DEF RecoverWork
    <2>5. TreeInv'
      BY <1>15, StripKeepsWork, BaseIsContent, ContentFields, RetryCounts DEF RecoverWork
    <2>6. ConcludedIsDurable'
      BY <1>15, StripKeepsWork, BaseIsContent, ContentFields, RetryCounts DEF RecoverWork
    <2> QED
      BY <2>1, <2>2, <2>3, <2>4, <2>5, <2>6
  <1>16. CASE RecoverNothing
    BY <1>16, StripKeepsWork, BaseIsContent, RetryCounts DEF RecoverNothing
  <1>17. CASE Checkpoint
    BY <1>17, StripKeepsWork, BaseIsContent, RetryCounts DEF Checkpoint
  <1>18. CASE Notify
    BY <1>18, StripKeepsWork, BaseIsContent, RetryCounts DEF Notify
  <1>19. CASE Kill
    BY <1>19, StripKeepsWork, BaseIsContent, RetryCounts DEF Kill
  <1>20. CASE StartAttempt
    <2>1. TypeOK'
      <3>1. Restored \in Content
        BY BaseIsContent
      <3>2. attempt' \in 0 .. MaxAttempts
        BY <1>20 DEF StartAttempt
      <3> QED
        BY <1>20, <3>1, <3>2 DEF StartAttempt, UpstreamAfterRestore
    <2>2. CommitsInv'
      BY <1>20, StripKeepsWork, BaseIsContent, ContentFields, RetryCounts DEF StartAttempt, UpstreamAfterRestore
    <2>3. GrowthInv'
      BY <1>20, StripKeepsWork, BaseIsContent, ContentFields, RetryCounts DEF StartAttempt, UpstreamAfterRestore
    <2>4. UpstreamInv'
      BY <1>20, StripKeepsWork, BaseIsContent, ContentFields, RetryCounts DEF StartAttempt, UpstreamAfterRestore
    <2>5. TreeInv'
      BY <1>20, StripKeepsWork, BaseIsContent, ContentFields, RetryCounts DEF StartAttempt, UpstreamAfterRestore
    <2>6. ConcludedIsDurable'
      BY <1>20, StripKeepsWork, BaseIsContent, ContentFields, RetryCounts DEF StartAttempt, UpstreamAfterRestore
    <2> QED
      BY <2>1, <2>2, <2>3, <2>4, <2>5, <2>6
  <1>21. CASE UNCHANGED vars
    BY <1>21 DEF vars
  <1> QED
    BY <1>1, <1>2, <1>3, <1>4, <1>5, <1>6, <1>7, <1>8, <1>9, <1>10, <1>11, <1>12, <1>13, <1>14, <1>15, <1>16, <1>17, <1>18, <1>19, <1>20, <1>21 DEF Next, Script, Recovery

LEMMA IInvHolds == Spec => []IInv
  BY InitIInv, NextKeepsIInv, PTL DEF Spec

-----------------------------------------------------------------------------
(* The theorems *)

\* No step leaves the job's types, and no command is tried beyond its bound.
THEOREM TypeCorrect == Spec => []TypeOK
  <1>1. IInv => TypeOK
    BY DEF IInv
  <1> QED
    BY <1>1, IInvHolds, PTL

\* Neither the script nor the recovery publishes a protected file it could see
\* to be new, in any attempt.
THEOREM NothingAddedIsPublished == Spec => []AddedNeverPublished
  <1>1. IInv => AddedNeverPublished
    BY DEF IInv, CommitsInv, AddedNeverPublished
  <1> QED
    BY <1>1, IInvHolds, PTL

\* Success and an announced checkpoint mean that the branch holds the work.
THEOREM ConclusionsAreDurable == Spec => []ConcludedIsDurable
  <1>1. IInv => ConcludedIsDurable
    BY DEF IInv
  <1> QED
    BY <1>1, IInvHolds, PTL

\* No push takes back published work.
THEOREM PublishedWorkIsKept == Spec => PublishedWorkStays
  <1> DEFINE Step == remote # Null => remote' # Null /\ remote'.work >= remote.work
  <1>1. IInv /\ [Next]_vars => [Step]_vars
    <2> SUFFICES ASSUME IInv, Next
                 PROVE  Step
      BY DEF vars
    <2> USE ContentFields, NullIsNoContent DEF IInv, TypeOK
    <2>1. CASE Push
      BY <2>1 DEF Push, GrowthInv, Restored
    <2>2. CASE Checkpoint
      BY <2>2 DEF Checkpoint, GrowthInv, Restored
    <2>3. CASE UNCHANGED remote
      BY <2>3
    <2> QED
      BY <2>1, <2>2, <2>3
         DEF Next, Script, Recovery, StartAttempt, IssueUnusable, IssueAccepted,
             Sync, RunClaude, RunChecks, Strip, NoChanges, Commit, PrList,
             PrCreate, Announce, OnError, RecoverPushed, RecoverWork,
             RecoverNothing, Notify, Kill, github
  <1> QED
    BY <1>1, IInvHolds, PTL DEF Spec, PublishedWorkStays
=============================================================================
