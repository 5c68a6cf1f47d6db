------------------------------ MODULE MergeLoop ------------------------------
(***************************************************************************)
(* How one approved pull request gets merged: the merger, a state machine  *)
(* over what GitHub says of the pull request, the resolver it hands        *)
(* conflicts to, and the reviewer whose verdict queues the merge.          *)
(*                                                                         *)
(* A kind has at most one dispatch at a time here, from claim to release:  *)
(* TaskClaim models why (merger and resolver are not swept, a reviewer     *)
(* times out before its lock is old).  ReviewLoop models the detector call *)
(* by call.                                                                *)
(***************************************************************************)
EXTENDS Integers, Sequences

CONSTANTS
    PeoplePush,   \* whether somebody pushes to the pull request as well
    MaxHead,      \* bound on the heads of the pull request
    MaxMoves,     \* bound on the moves of the base branch
    MayFail       \* calls that may fail, any number of times

Calls == {"read", "createRef", "addLabel", "removeLabel", "merge", "updateBranch"}

ASSUME BoundsAssumption ==
    /\ PeoplePush \in BOOLEAN /\ MaxHead \in Nat \ {0}
    /\ MaxMoves \in Nat /\ MayFail \subseteq Calls

VARIABLES
    open,      \* whether the pull request is open; it is merged otherwise
    head,      \* its head commit; every push makes the next
    status,    \* mergeStateStatus, as GitHub computes it
    checks,    \* what the check runs of the head amount to
    labels,    \* its labels, without the prefix `claude-'
    reviewed,  \* heads with a marker ref cc-crew/rereviewed
    merger,    \* control state of the merger's dispatch
    resolver,  \* control state of the resolver's dispatch
    reviewer,  \* control state of the reviewer's dispatch
    moves      \* moves of the base branch so far

github == <<open, head, status, checks>>
vars == <<github, labels, reviewed, merger, resolver, reviewer, moves>>

-----------------------------------------------------------------------------
Heads == 1 .. MaxHead
Statuses == {"CLEAN", "BEHIND", "DIRTY", "UNSTABLE", "BLOCKED", "UNKNOWN"}
CheckResults == {"pending", "failed", "passed"}
Labels == {"review", "reviewing", "reviewed", "merge", "merging", "resolve-conflict",
           "resolving", "conflict-blocked"}

MergerSteps == {"idle", "listed", "get", "merge", "update", "checks", "handoff",
                "block", "unqueue", "unlock"}
ResolverSteps == {"idle", "listed", "get", "run", "pushed", "clean"}
CleanSteps == {"unlock", "dequeue", "review", "unreviewed", "block", "unqueue"}
ReviewerSteps == {"idle", "listed", "get", "run", "mark", "verdict", "unlock", "dequeue",
                  "done", "flag", "fail"}
Verdicts == {"", "APPROVED", "CHANGES_REQUESTED"}

TypeOK ==
    /\ open \in BOOLEAN /\ head \in Heads /\ status \in Statuses
    /\ checks \in CheckResults
    /\ labels \subseteq Labels
    /\ reviewed \subseteq Heads
    /\ merger \in [at : MergerSteps, sha : Heads \cup {0}]
    /\ resolver \in [at : ResolverSteps, todo : Seq(CleanSteps)]
    /\ (resolver.at = "clean") = (resolver.todo # << >>)
    /\ reviewer \in [at : ReviewerSteps, sha : Heads \cup {0}, verdict : Verdicts]
    /\ moves \in 0 .. MaxMoves

IdleMerger == [at |-> "idle", sha |-> 0]
IdleResolver == [at |-> "idle", todo |-> << >>]
IdleReviewer == [at |-> "idle", sha |-> 0, verdict |-> ""]

Init ==
    /\ open = TRUE /\ head = 1 /\ status = "UNKNOWN" /\ checks = "pending"
    /\ labels = {"review"}
    /\ reviewed = {}
    /\ merger = IdleMerger /\ resolver = IdleResolver /\ reviewer = IdleReviewer
    /\ moves = 0

\* A call answers "ok", or "error" and has done nothing.
Call(call, answer) == answer = "error" => call \in MayFail

Outcome == {"ok", "error"}

AddLabel(label) ==
    \E answer \in Outcome :
        /\ Call("addLabel", answer)
        /\ labels' = IF answer = "ok" THEN labels \cup {label} ELSE labels
RemoveLabel(label) ==
    \E answer \in Outcome :
        /\ Call("removeLabel", answer)
        /\ labels' = IF answer = "ok" THEN labels \ {label} ELSE labels

\* A push, or a rebase by GitHub: mergeability is computed anew.
NewHead ==
    /\ head < MaxHead
    /\ head' = head + 1
    /\ status' = "UNKNOWN" /\ checks' = "pending"
    /\ UNCHANGED open

-----------------------------------------------------------------------------
(* GitHub and people.                                                      *)

\* GitHub computes mergeStateStatus: HAS_HOOKS is CLEAN here and DRAFT is BLOCKED.
\* MaxHead bounds the rebases of GitHub as well.
Compute(result) ==
    /\ open /\ status = "UNKNOWN" /\ result # "UNKNOWN"
    /\ result = "UNSTABLE" => checks # "passed"
    /\ result = "BEHIND" => head < MaxHead
    /\ status' = result
    /\ UNCHANGED <<open, head, checks, labels, reviewed, merger, resolver, reviewer, moves>>

\* The checks of a head that is not UNSTABLE are never read.
ChecksEnd(runs) ==
    /\ open /\ status = "UNSTABLE" /\ checks = "pending" /\ runs # "pending"
    /\ checks' = runs
    /\ UNCHANGED <<open, head, status, labels, reviewed, merger, resolver, reviewer, moves>>

BaseMoves ==
    /\ open /\ moves < MaxMoves
    /\ moves' = moves + 1
    /\ status' = "UNKNOWN"
    /\ UNCHANGED <<open, head, checks, labels, reviewed, merger, resolver, reviewer>>

HumanPush ==
    /\ PeoplePush
    /\ open /\ NewHead
    /\ UNCHANGED <<labels, reviewed, merger, resolver, reviewer, moves>>

\* Somebody follows the terminal comment, `Remove conflict-blocked after resolving', once
\* the calls around that comment are over.
Unblock ==
    /\ "conflict-blocked" \in labels /\ "merge" \notin labels
    /\ merger.at # "unqueue" /\ resolver.at # "clean"
    /\ labels' = labels \ {"conflict-blocked"}
    /\ UNCHANGED <<github, reviewed, merger, resolver, reviewer, moves>>

-----------------------------------------------------------------------------
(* The reviewer and the detector.                                          *)

Reviewer(step) == reviewer' = [reviewer EXCEPT !.at = step]

ReviewerLists ==
    /\ reviewer.at = "idle"
    /\ open /\ "review" \in labels /\ "reviewing" \notin labels
    /\ Reviewer("listed")
    /\ UNCHANGED <<github, labels, reviewed, merger, resolver, moves>>

ReviewerStarts ==
    /\ reviewer.at = "listed"
    /\ Reviewer("get")
    /\ AddLabel("reviewing")
    /\ UNCHANGED <<github, reviewed, merger, resolver, moves>>

ReviewerGetsPR ==
    /\ reviewer.at = "get"
    /\ \E answer \in Outcome :
         /\ Call("read", answer)
         /\ reviewer' = IF answer = "ok" THEN [reviewer EXCEPT !.at = "run", !.sha = head]
                                         ELSE [reviewer EXCEPT !.at = "fail"]
    /\ UNCHANGED <<github, labels, reviewed, merger, resolver, moves>>

ReviewerEnds ==
    /\ reviewer.at = "run"
    /\ Reviewer("mark") \/ Reviewer("fail")
    /\ UNCHANGED <<github, labels, reviewed, merger, resolver, moves>>

\* successCleanupReviewer: the marker of the head it was dispatched for,
ReviewerMarks ==
    /\ reviewer.at = "mark"
    /\ \E answer \in Outcome :
         /\ Call("createRef", answer)
         /\ reviewed' = IF answer = "ok" THEN reviewed \cup {reviewer.sha} ELSE reviewed
    /\ reviewer' = [reviewer EXCEPT !.at = "verdict", !.sha = 0]
    /\ UNCHANGED <<github, labels, merger, resolver, moves>>

\* the verdict: the state of the latest review that is not a comment.  People review too,
\* at any time, so it may be any;
ReviewerAsks ==
    /\ reviewer.at = "verdict"
    /\ \E answer \in Outcome, latest \in Verdicts :
         /\ Call("read", answer)
         /\ reviewer' = [reviewer EXCEPT !.at = "unlock",
                                         !.verdict = IF answer = "ok" THEN latest ELSE ""]
    /\ UNCHANGED <<github, labels, reviewed, merger, resolver, moves>>

\* the labels of its queue; failCleanup has only the lock label to remove;
ReviewerRelabels ==
    /\ \/ reviewer.at = "unlock" /\ RemoveLabel("reviewing") /\ Reviewer("dequeue")
       \/ reviewer.at = "dequeue" /\ RemoveLabel("review") /\ Reviewer("done")
       \/ reviewer.at = "done" /\ AddLabel("reviewed") /\ Reviewer("flag")
       \/ reviewer.at = "fail" /\ RemoveLabel("reviewing") /\ reviewer' = IdleReviewer
    /\ UNCHANGED <<github, reviewed, merger, resolver, moves>>

\* and what the verdict means for the merge queue, before the release.
ReviewerFlags ==
    /\ reviewer.at = "flag"
    /\ CASE reviewer.verdict = "APPROVED"          -> AddLabel("merge")
         [] reviewer.verdict = "CHANGES_REQUESTED" -> RemoveLabel("merge")
         [] reviewer.verdict = ""                  -> UNCHANGED labels
    /\ reviewer' = IdleReviewer
    /\ UNCHANGED <<github, reviewed, merger, resolver, moves>>

\* maybeFlipToReview.
Detect ==
    /\ open /\ "reviewed" \in labels /\ labels \cap {"review", "reviewing"} = {}
    /\ head \notin reviewed
    /\ labels' = (labels \ {"reviewed"}) \cup {"review"}
    /\ UNCHANGED <<github, reviewed, merger, resolver, reviewer, moves>>

ReviewerStep ==
    \/ ReviewerLists \/ ReviewerStarts \/ ReviewerGetsPR \/ ReviewerEnds \/ ReviewerMarks
    \/ ReviewerAsks \/ ReviewerRelabels \/ ReviewerFlags

-----------------------------------------------------------------------------
(* The merger.                                                             *)

\* The head GetPR answered counts until the merge or the update.
MergerTold(step, sha) ==
    merger' = [at |-> step, sha |-> IF step \in {"merge", "update", "checks"} THEN sha ELSE 0]
Merger(step) == MergerTold(step, merger.sha)

MergerLists ==
    /\ merger.at = "idle"
    /\ open /\ "merge" \in labels /\ "merging" \notin labels
    /\ Merger("listed")
    /\ UNCHANGED <<github, labels, reviewed, resolver, reviewer, moves>>

MergerStarts ==
    /\ merger.at = "listed"
    /\ Merger("get")
    /\ AddLabel("merging")
    /\ UNCHANGED <<github, reviewed, resolver, reviewer, moves>>

\* What the merger does about each mergeStateStatus.
StepFor(state) ==
    CASE state = "CLEAN"    -> "merge"
      [] state = "BEHIND"   -> "update"
      [] state = "DIRTY"    -> "handoff"
      [] state = "UNSTABLE" -> "checks"
      [] state = "BLOCKED"  -> "block"
      [] state = "UNKNOWN"  -> "unlock"

MergerGetsPR ==
    /\ merger.at = "get"
    /\ \E answer \in Outcome :
         /\ Call("read", answer)
         /\ IF answer = "ok" THEN MergerTold(StepFor(status), head) ELSE Merger("unlock")
    /\ UNCHANGED <<github, labels, reviewed, resolver, reviewer, moves>>

\* (variant) A failed check is waited for like a pending one.
StepAfterFailed(runs) == IF runs = "passed" THEN "merge" ELSE "unlock"

\* mergerHandleUnstable.  The runs are those of the head the merger was told of.
StepAfterChecks(runs) ==
    CASE runs = "failed"  -> "block"
      [] runs = "pending" -> "unlock"
      [] runs = "passed"  -> "merge"

MergerGetsChecks ==
    /\ merger.at = "checks"
    /\ \E answer \in Outcome :
         /\ Call("read", answer)
         /\ \E runs \in IF merger.sha = head THEN {checks} ELSE CheckResults :
              Merger(IF answer = "ok" THEN StepAfterChecks(runs) ELSE "unlock")
    /\ UNCHANGED <<github, labels, reviewed, resolver, reviewer, moves>>

\* What `gh pr merge --match-head-commit' answers when it gets through.
MergeAnswers ==
    IF ~ open \/ merger.sha # head THEN {"refused"}
    ELSE IF status \in {"CLEAN", "UNSTABLE"} THEN {"merged"}
    ELSE IF status = "UNKNOWN" THEN {"merged", "conflict"} ELSE {"conflict"}

MergerMerges ==
    /\ merger.at = "merge"
    /\ \E answer \in Outcome :
         /\ Call("merge", answer)
         /\ \E result \in IF answer = "ok" THEN MergeAnswers ELSE {"refused"} :
              /\ open' = (open /\ result # "merged")
              /\ Merger(CASE result = "merged"   -> "unqueue"
                          [] result = "conflict" -> "handoff"
                          [] result = "refused"  -> "block")
    /\ UNCHANGED <<head, status, checks, labels, reviewed, resolver, reviewer, moves>>

\* update-branch rebases the head GitHub was told of.
MergerUpdatesBranch ==
    /\ merger.at = "update"
    /\ \/ /\ merger.sha = head /\ status = "BEHIND"
          /\ NewHead
          /\ Merger("unlock")
       \/ /\ ~ (merger.sha = head /\ status = "BEHIND")
          /\ Merger("block")
          /\ UNCHANGED github
       \/ /\ Call("updateBranch", "error")
          /\ Merger("block")
          /\ UNCHANGED github
    /\ UNCHANGED <<labels, reviewed, resolver, reviewer, moves>>

\* mergerHandoffResolver: `merge' stays on, to try again after the resolver.
MergerHandsOff ==
    /\ merger.at = "handoff"
    /\ AddLabel("resolve-conflict")
    /\ Merger("unlock")
    /\ UNCHANGED <<github, reviewed, resolver, reviewer, moves>>

\* mergerTerminal.
MergerBlocks ==
    /\ merger.at = "block"
    /\ AddLabel("conflict-blocked")
    /\ Merger("unqueue")
    /\ UNCHANGED <<github, reviewed, resolver, reviewer, moves>>

MergerUnqueues ==
    /\ merger.at = "unqueue"
    /\ RemoveLabel("merge")
    /\ Merger("unlock")
    /\ UNCHANGED <<github, reviewed, resolver, reviewer, moves>>

MergerUnlocks ==
    /\ merger.at = "unlock"
    /\ RemoveLabel("merging")
    /\ merger' = IdleMerger
    /\ UNCHANGED <<github, reviewed, resolver, reviewer, moves>>

MergerStep ==
    \/ MergerLists \/ MergerStarts \/ MergerGetsPR \/ MergerGetsChecks \/ MergerMerges
    \/ MergerUpdatesBranch \/ MergerHandsOff \/ MergerBlocks \/ MergerUnqueues
    \/ MergerUnlocks

-----------------------------------------------------------------------------
(* The resolver.                                                           *)

Resolver(step) == resolver' = [resolver EXCEPT !.at = step]

\* up.go starts a resolver only beside implementers: it may never come.
ResolverLists ==
    /\ resolver.at = "idle"
    /\ open /\ "resolve-conflict" \in labels /\ "resolving" \notin labels
    /\ Resolver("listed")
    /\ UNCHANGED <<github, labels, reviewed, merger, reviewer, moves>>

ResolverStarts ==
    /\ resolver.at = "listed"
    /\ Resolver("get")
    /\ AddLabel("resolving")
    /\ UNCHANGED <<github, reviewed, merger, reviewer, moves>>

\* (variant) A failed resolver leaves the pull request without its escalation label.
CleanupUnblocked(exit) ==
    CASE exit = "ok"   -> <<"unlock", "dequeue", "review", "unreviewed">>
      [] exit = "fail" -> <<"unlock", "dequeue", "unqueue", "block">>
      [] exit = "soft" -> <<"unlock">>

\* resolverSuccessCleanup, resolverFailCleanup, and failCleanup before the container.
Cleanup(exit) ==
    CASE exit = "ok"   -> <<"unlock", "dequeue", "review", "unreviewed">>
      [] exit = "fail" -> <<"unlock", "dequeue", "block", "unqueue">>
      [] exit = "soft" -> <<"unlock">>

Conclude(exit) == resolver' = [at |-> "clean", todo |-> Cleanup(exit)]

\* GetPR, worktree and home directory of the container.
ResolverPrepares ==
    /\ resolver.at = "get"
    /\ \E answer \in Outcome :
         /\ Call("read", answer)
         /\ IF answer = "ok" THEN Resolver("run") ELSE Conclude("soft")
    /\ UNCHANGED <<github, labels, reviewed, merger, reviewer, moves>>

\* The container pushes the rebased head.
ResolverPushes ==
    /\ resolver.at = "run" /\ open
    /\ NewHead
    /\ Resolver("pushed")
    /\ UNCHANGED <<labels, reviewed, merger, reviewer, moves>>

\* Only the exit code counts, not whether the container has pushed.
ResolverSucceeds ==
    /\ resolver.at \in {"run", "pushed"}
    /\ Conclude("ok")
    /\ UNCHANGED <<github, labels, reviewed, merger, reviewer, moves>>

ResolverFails ==
    /\ resolver.at \in {"run", "pushed"}
    /\ Conclude("fail")
    /\ UNCHANGED <<github, labels, reviewed, merger, reviewer, moves>>

\* (variant) The dispatch ends without its release.
RestUnreleased(r) == [r EXCEPT !.todo = Tail(@)]

\* What is left of a cleanup; the claim is released after its last call.
Rest(r) == IF Len(r.todo) = 1 THEN IdleResolver ELSE [r EXCEPT !.todo = Tail(@)]

CleanResolver(step) ==
    /\ resolver.at = "clean" /\ Head(resolver.todo) = step
    /\ \/ step = "unlock" /\ RemoveLabel("resolving")
       \/ step = "dequeue" /\ RemoveLabel("resolve-conflict")
       \/ step = "review" /\ AddLabel("review")
       \/ step = "unreviewed" /\ RemoveLabel("reviewed")
       \/ step = "block" /\ AddLabel("conflict-blocked")
       \/ step = "unqueue" /\ RemoveLabel("merge")
    /\ resolver' = Rest(resolver)
    /\ UNCHANGED <<github, reviewed, merger, reviewer, moves>>

ResolverStep ==
    \/ ResolverStarts \/ ResolverPrepares \/ ResolverSucceeds \/ ResolverFails
    \/ \E step \in CleanSteps : CleanResolver(step)

-----------------------------------------------------------------------------
Next ==
    \/ \E result \in Statuses : Compute(result)
    \/ \E runs \in CheckResults : ChecksEnd(runs)
    \/ BaseMoves \/ HumanPush \/ Unblock
    \/ ReviewerStep \/ Detect
    \/ MergerStep \/ ResolverLists \/ ResolverStep \/ ResolverPushes

Spec == Init /\ [][Next]_vars

\* Ticks and dispatches go on, containers end, GitHub computes mergeability, and check
\* runs end.  A resolver need not be there.
Fairness ==
    /\ WF_vars(MergerStep) /\ WF_vars(ResolverStep) /\ WF_vars(ReviewerStep) /\ WF_vars(Detect)
    /\ WF_vars(\E result \in Statuses : Compute(result))
    /\ WF_vars(\E runs \in CheckResults : ChecksEnd(runs))

FairSpec == Spec /\ Fairness

-----------------------------------------------------------------------------
(* Correctness.                                                            *)

\* A pull request that leaves the merge queue is merged, or blocked in the open, or the
\* reviewer has read a request for changes: none drops out silently
\* (mergerTerminal, resolverFailCleanup, successCleanupReviewer).
NoSilentDrop ==
    [][("merge" \in labels /\ "merge" \notin labels')
       => \/ ~ open \/ "conflict-blocked" \in labels
          \/ reviewer.at = "flag" /\ reviewer.verdict = "CHANGES_REQUESTED"]_vars

\* A pull request in the merge queue does not stay there for ever with nothing done about
\* it: it leaves the queue, is blocked in the open, or is handed to the resolver.
NoSilentStall ==
    "merge" \in labels
    ~> \/ ~ open \/ "conflict-blocked" \in labels \/ "merge" \notin labels
       \/ "resolve-conflict" \in labels

=============================================================================
