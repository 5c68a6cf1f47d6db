------------------------------ MODULE WorkPool ------------------------------
(***************************************************************************)
(* The workers of one orchestrator: the schedulers that up.go builds, the  *)
(* semaphores they draw on, the dispatches they start, the counters that   *)
(* take an item out of the queue when its dispatches keep failing, and the *)
(* worktrees on the host.                                                  *)
(*                                                                         *)
(* A task is a kind of work on an issue or pull request.  Its claim is one *)
(* ref here, which the sweeper may take from a dispatch at work; TaskClaim *)
(* has its parts, its age, the other orchestrators and crashes.  What a    *)
(* dispatch queues for another kind is in ReviewLoop and MergeLoop; here   *)
(* tasks arrive by Enqueue.                                                *)
(***************************************************************************)
EXTENDS Integers, FiniteSets, Sequences

CONSTANTS
    Schedulers,   \* the kinds of the schedulers, in the order of their ticks
    Tasks,        \* <<kind, number>>
    Slots,        \* semaphore slots
    Pool,         \* Pool[s]: the semaphore slot s belongs to
    Threshold,    \* Quarantine.Threshold; 0 switches it off
    Broken,       \* tasks no dispatch of which succeeds
    Waiting,      \* issues that other issues block at first
    Outlive,      \* swept kinds whose dispatches may outlive the age of reclaim
    MayFail,      \* calls that may report an error having done nothing
    MaxFailures,  \* bound on such errors
    MaxHelps,     \* bound on what people do
    None          \* no task, no slot

Kinds == {"implementer", "reviewer", "addresser", "merger", "resolver"}
Pools == {"implementer", "reviewer", "merger"}
SweptKinds == {"implementer", "reviewer", "addresser"}
Calls == {"list", "claim", "lockLabel", "removeLabel", "release", "quarantineLabel"}
Kind(t) == t[1]
Number(t) == t[2]

ASSUME TasksAssumption ==
    /\ Schedulers \in Seq(Kinds) /\ Len(Schedulers) > 0
    /\ Tasks \subseteq Kinds \X Nat /\ None \notin Tasks /\ Broken \subseteq Tasks
    /\ Waiting \subseteq {t \in Tasks : Kind(t) = "implementer"}
    /\ Outlive \subseteq SweptKinds
ASSUME SlotsAssumption ==
    IsFiniteSet(Slots) /\ Pool \in [Slots -> Pools] /\ None \notin Slots
ASSUME BoundsAssumption ==
    /\ Threshold \in Nat /\ MaxFailures \in Nat /\ MaxHelps \in Nat /\ MayFail \subseteq Calls

VARIABLES
    queueLabel,   \* tasks whose queue label is on
    lockLabel,    \* tasks whose lock label is on
    lockRefs,     \* tasks whose lock ref exists
    quarantined,  \* numbers that carry the quarantine label, which all kinds share
    blocked,      \* issues with open blockers
    counts,       \* Quarantine.counts
    labeled,      \* Quarantine.labeled
    loop,         \* the main loop: scheduler, and where in its tick
    slot,         \* slot[s]: control state of the dispatch goroutine in slot s
    worktree,     \* worktree[t]: the slot whose dispatch made the worktree at the path of t
    tries,        \* dispatches of a task since it last succeeded, was to leave the queue, was
                  \* helped or met a failing call of those BoundedRetries names (history)
    failures,     \* failed calls so far
    helps         \* what people did so far

github == <<queueLabel, lockLabel, lockRefs, quarantined, blocked>>
quarantine == <<counts, labeled>>
bounds == <<failures, helps>>
vars == <<github, quarantine, loop, slot, worktree, tries, bounds>>

-----------------------------------------------------------------------------
(* What up.go gives to the schedulers and dispatches of a kind.            *)

\* Addresser and resolver use the implementers' semaphore.
PoolOf(kind) == IF kind \in {"addresser", "resolver"} THEN "implementer" ELSE kind

HasQuarantine(kind) == kind # "merger"
HasWorktree(kind) == kind # "merger"

\* The cleanup of a dispatch, a step for each call that matters here, by its exit:
\* "unready" and "fail" are failCleanup before and after the worktree is made, "guard" is
\* the addresser without reviews to address, "blocked" a resolver whose container failed,
\* "retry" a merger that leaves the pull request to the next tick.  "remove" is
\* WT.Remove, which comes after the release of the claim.  A finished implementer keeps
\* its lock ref, the branch of its pull request.
Cleanup(kind, exit) ==
    CASE exit = "unready" -> <<"unmark", "release", "recordFailure">>
      [] exit = "fail"    -> <<"unmark", "release", "recordFailure", "remove">>
      [] exit = "guard"   -> <<"release", "unmark", "dequeue">>
      [] exit = "retry"   -> <<"unmark", "release">>
      [] exit = "blocked" -> <<"unmark", "dequeue", "release", "remove">>
      [] exit = "ok" /\ kind = "merger"   -> <<"dequeue", "unmark", "release">>
      [] exit = "ok" /\ kind = "resolver" ->
            <<"recordSuccess", "unmark", "dequeue", "release", "remove">>
      [] exit = "ok" /\ kind \in {"reviewer", "addresser"} ->
            <<"unmark", "dequeue", "recordSuccess", "release", "remove">>
      [] exit = "ok" /\ kind = "implementer" ->
            <<"unmark", "dequeue", "recordSuccess", "remove">>

CleanSteps == {"unmark", "dequeue", "release", "recordFailure", "recordSuccess",
               "label", "remove"}

\* How often a task may be dispatched before it is quarantined.  Each of the n slots may
\* reach the threshold and wait with its label call while Tick, which takes the missing
\* label for a removed one, makes the count start anew; failures recorded in between are
\* lost, of up to n - 1, n - 2, ... slots; once more the task is dispatched from a list
\* older than the label, and, beside another slot, by a pick older than the last help.
RetryBound(t) ==
    LET n == Cardinality({s \in Slots : Pool[s] = PoolOf(Kind(t))})
    IN  n * Threshold + (n * (n - 1)) \div 2 + (IF n > 1 THEN 2 ELSE 1)

\* How a dispatch of the kind may end before and after its container was started.
EarlyExits(kind) ==
    CASE kind = "merger"    -> {"retry", "ok"}
      [] kind = "addresser" -> {"unready", "fail", "guard"}
      [] OTHER              -> {"unready", "fail"}
LateExits(kind) == IF kind = "resolver" THEN {"ok", "blocked"} ELSE {"ok", "fail"}

\* The exits of a broken task leave it in the queue.
Possible(t, exits) == IF t \in Broken THEN exits \cap {"unready", "fail", "retry"} ELSE exits

-----------------------------------------------------------------------------
FreeSlot == [at |-> "free", task |-> None, todo |-> << >>]
LoopAt(k) == [at |-> "list", sched |-> k, todo |-> {}, task |-> None, slot |-> None]

SlotStates == [at : {"free", "taken", "prep", "run", "clean"},
               task : Tasks \cup {None}, todo : Seq(CleanSteps)]
LoopStates == [at : {"list", "pick", "claim", "mark"}, sched : DOMAIN Schedulers,
               todo : SUBSET Tasks, task : Tasks \cup {None}, slot : Slots \cup {None}]

TypeOK ==
    /\ queueLabel \subseteq Tasks /\ lockLabel \subseteq Tasks /\ lockRefs \subseteq Tasks
    /\ quarantined \subseteq {Number(t) : t \in Tasks} /\ blocked \subseteq Tasks
    /\ counts \in [Tasks -> 0 .. Threshold] /\ labeled \subseteq Tasks
    /\ loop \in LoopStates /\ slot \in [Slots -> SlotStates]
    /\ worktree \in [Tasks -> Slots \cup {None}]
    /\ tries \in [Tasks -> Nat] /\ failures \in 0 .. MaxFailures /\ helps \in 0 .. MaxHelps
    /\ loop.slot # None => slot[loop.slot].at = "taken"
    /\ \A s \in Slots :
         /\ slot[s].at = "taken" => loop.slot = s
         /\ slot[s].at \in {"prep", "run", "clean"} => PoolOf(Kind(slot[s].task)) = Pool[s]

Init ==
    /\ queueLabel = Tasks /\ lockLabel = {} /\ lockRefs = {} /\ quarantined = {}
    /\ blocked = Waiting
    /\ counts = [t \in Tasks |-> 0] /\ labeled = {}
    /\ loop = LoopAt(1)
    /\ slot = [s \in Slots |-> FreeSlot]
    /\ worktree = [t \in Tasks |-> None]
    /\ tries = [t \in Tasks |-> 0] /\ failures = 0 /\ helps = 0

\* A call answers "ok", or "error" and has done nothing.
Call(call, answer) ==
    \/ answer = "ok" /\ UNCHANGED failures
    \/ /\ answer = "error" /\ call \in MayFail /\ failures < MaxFailures
       /\ failures' = failures + 1
Outcome == {"ok", "error"}

-----------------------------------------------------------------------------
(* Quarantine.                                                             *)

\* RecordSuccess.
ClearRecord(t) == counts' = [counts EXCEPT ![t] = 0] /\ labeled' = labeled \ {t}

\* (variant) The label comes with the failure after the one that reaches the threshold.
ShouldLabelLate(t) == Threshold > 0 /\ counts[t] >= Threshold /\ t \notin labeled

\* RecordFailure: whether this failure is the one to be labelled.
ShouldLabel(t) == Threshold > 0 /\ counts[t] + 1 >= Threshold /\ t \notin labeled

\* A count above Threshold is as good as Threshold.
RecordFailure(t) ==
    /\ counts' = IF counts[t] < Threshold THEN [counts EXCEPT ![t] = @ + 1] ELSE counts
    /\ labeled' = IF ShouldLabel(t) THEN labeled \cup {t} ELSE labeled

-----------------------------------------------------------------------------
(* The main loop: one Tick after the other.                                *)

NextScheduler == LoopAt(IF loop.sched = Len(Schedulers) THEN 1 ELSE loop.sched + 1)

\* (variant) The loop forgets that it has given the slot away.
SkipKeepsSlot == [loop EXCEPT !.at = "pick", !.todo = @ \ {loop.task}, !.task = None]

\* On to the next candidate.
Skip == [loop EXCEPT !.at = "pick", !.todo = @ \ {loop.task}, !.task = None, !.slot = None]

\* (variant) What is quarantined is listed all the same.
CandidatesUnfiltered(kind) ==
    {t \in queueLabel \ (lockLabel \cup blocked) : Kind(t) = kind}

\* listCandidates.  The merger's scheduler has no QuarantineLabel.
Candidates(kind) ==
    {t \in queueLabel \ (lockLabel \cup blocked) :
        Kind(t) = kind /\ (HasQuarantine(kind) => Number(t) \notin quarantined)}

List ==
    /\ loop.at = "list"
    /\ \E answer \in Outcome :
         /\ Call("list", answer)
         /\ loop' = IF answer = "ok"
                    THEN [loop EXCEPT !.at = "pick", !.todo = Candidates(Schedulers[loop.sched])]
                    ELSE NextScheduler
    /\ UNCHANGED <<github, quarantine, slot, worktree, tries, helps>>

Free(kind) == {s \in Slots : Pool[s] = PoolOf(kind) /\ slot[s].at = "free"}

TickEnd ==
    /\ loop.at = "pick" /\ loop.todo = {}
    /\ loop' = NextScheduler
    /\ UNCHANGED <<github, quarantine, slot, worktree, tries, bounds>>

\* (variant) A candidate that was labelled before is taken like any other.
IgnoreLabeled(t) == UNCHANGED quarantine

\* A candidate that was labelled before: somebody has removed the label.
ResetIfLabeled(t) == IF t \in labeled THEN ClearRecord(t) ELSE UNCHANGED quarantine

\* The counters are looked at before the semaphore; without a free slot the tick is over.
Pick ==
    /\ loop.at = "pick"
    /\ \E t \in loop.todo :
         /\ \A u \in loop.todo : Number(t) <= Number(u)
         /\ ResetIfLabeled(t)
         /\ \/ /\ Free(Kind(t)) = {}
               /\ loop' = NextScheduler
               /\ UNCHANGED slot
            \/ \E s \in Free(Kind(t)) :
                 /\ loop' = [loop EXCEPT !.at = "claim", !.task = t, !.slot = s]
                 /\ slot' = [slot EXCEPT ![s].at = "taken"]
    /\ UNCHANGED <<github, worktree, tries, bounds>>

Claim ==
    /\ loop.at = "claim"
    /\ \E answer \in Outcome :
         /\ Call("claim", answer)
         /\ IF answer = "ok" /\ loop.task \notin lockRefs
            THEN /\ lockRefs' = lockRefs \cup {loop.task}
                 /\ loop' = [loop EXCEPT !.at = "mark"]
                 /\ UNCHANGED slot
            ELSE /\ loop' = Skip
                 /\ slot' = [slot EXCEPT ![loop.slot] = FreeSlot]
                 /\ UNCHANGED lockRefs
    /\ UNCHANGED <<queueLabel, lockLabel, quarantined, blocked, quarantine, worktree, tries, helps>>

MarkAndDispatch ==
    /\ loop.at = "mark"
    /\ \E answer \in Outcome :
         /\ Call("lockLabel", answer)
         /\ lockLabel' = IF answer = "ok" THEN lockLabel \cup {loop.task} ELSE lockLabel
    /\ slot' = [slot EXCEPT ![loop.slot] = [FreeSlot EXCEPT !.at = "prep", !.task = loop.task]]
    /\ tries' = IF tries[loop.task] <= RetryBound(loop.task)
                THEN [tries EXCEPT ![loop.task] = @ + 1] ELSE tries
    /\ loop' = Skip
    /\ UNCHANGED <<queueLabel, lockRefs, quarantined, blocked, quarantine, worktree, helps>>

LoopStep == List \/ TickEnd \/ Pick \/ Claim \/ MarkAndDispatch

-----------------------------------------------------------------------------
(* A dispatch.                                                             *)

Conclude(s, exit) ==
    slot' = [slot EXCEPT ![s].at = "clean", ![s].todo = Cleanup(Kind(slot[s].task), exit)]

\* WT.Add replaces what is at the path, and what it has made is its caller's.
Prepare(s) ==
    /\ slot[s].at = "prep" /\ HasWorktree(Kind(slot[s].task))
    /\ worktree' = [worktree EXCEPT ![slot[s].task] = s]
    /\ slot' = [slot EXCEPT ![s].at = "run"]
    /\ UNCHANGED <<github, quarantine, loop, tries, bounds>>

\* The dispatch ends without container: "unready" before or in WT.Add, which has cleaned
\* the path by then, "fail" after it.
EndEarly(s, exit) ==
    /\ slot[s].at = "prep" /\ exit \in Possible(slot[s].task, EarlyExits(Kind(slot[s].task)))
    /\ Conclude(s, exit)
    /\ LET place(owner) == [worktree EXCEPT ![slot[s].task] = owner]
       IN  \/ exit = "unready" /\ worktree' \in {worktree, place(None)}
           \/ exit = "fail" /\ worktree' = place(s)
           \/ exit \notin {"unready", "fail"} /\ UNCHANGED worktree
    /\ UNCHANGED <<github, quarantine, loop, tries, bounds>>

\* The container exits, or its time is up.
EndLate(s, exit) ==
    /\ slot[s].at = "run" /\ exit \in Possible(slot[s].task, LateExits(Kind(slot[s].task)))
    /\ Conclude(s, exit)
    /\ UNCHANGED <<github, quarantine, loop, worktree, tries, bounds>>

\* The slot is given back when Dispatch returns.
Rest(s, todo) == slot' = [slot EXCEPT ![s] = IF todo = << >> THEN FreeSlot ELSE [@ EXCEPT !.todo = todo]]

Doing(s, step) == slot[s].at = "clean" /\ Head(slot[s].todo) = step
Done(s) == Rest(s, Tail(slot[s].todo))

\* The errors of these calls are ignored: what should have gone stays.
Unmark(s) ==
    /\ Doing(s, "unmark")
    /\ \E answer \in Outcome :
         /\ Call("removeLabel", answer)
         /\ lockLabel' = IF answer = "ok" THEN lockLabel \ {slot[s].task} ELSE lockLabel
    /\ Done(s)
    /\ UNCHANGED <<queueLabel, lockRefs, quarantined, blocked, quarantine, loop, worktree, tries, helps>>

Dequeue(s) ==
    /\ Doing(s, "dequeue")
    /\ \E answer \in Outcome :
         /\ Call("removeLabel", answer)
         /\ queueLabel' = IF answer = "ok" THEN queueLabel \ {slot[s].task} ELSE queueLabel
    /\ tries' = [tries EXCEPT ![slot[s].task] = 0]
    /\ Done(s)
    /\ UNCHANGED <<lockLabel, lockRefs, quarantined, blocked, quarantine, loop, worktree, helps>>

\* Whoever's ref it is by now goes.  When releaseWithRetry gives up, the guard of the
\* addresser keeps the labels.
Release(s) ==
    /\ Doing(s, "release")
    /\ \E answer \in Outcome :
         /\ Call("release", answer)
         /\ lockRefs' = IF answer = "ok" THEN lockRefs \ {slot[s].task} ELSE lockRefs
         /\ IF answer = "error" /\ slot[s].todo = Cleanup("addresser", "guard")
            THEN Rest(s, << >>) /\ tries' = [tries EXCEPT ![slot[s].task] = 0]
            ELSE Done(s) /\ UNCHANGED tries
    /\ UNCHANGED <<queueLabel, lockLabel, quarantined, blocked, quarantine, loop, worktree, helps>>

RecordSuccess(s) ==
    /\ Doing(s, "recordSuccess")
    /\ ClearRecord(slot[s].task)
    /\ tries' = [tries EXCEPT ![slot[s].task] = 0]
    /\ Done(s)
    /\ UNCHANGED <<github, loop, worktree, bounds>>

NoteFailure(s) ==
    /\ Doing(s, "recordFailure")
    /\ RecordFailure(slot[s].task)
    /\ Rest(s, IF ShouldLabel(slot[s].task) THEN <<"label">> \o Tail(slot[s].todo)
                                            ELSE Tail(slot[s].todo))
    /\ UNCHANGED <<github, loop, worktree, tries, bounds>>

\* The comment that follows the label is left out.
LabelQuarantine(s) ==
    /\ Doing(s, "label")
    /\ \E answer \in Outcome :
         /\ Call("quarantineLabel", answer)
         /\ quarantined' = IF answer = "ok" THEN quarantined \cup {Number(slot[s].task)}
                                            ELSE quarantined
         /\ tries' = IF answer = "ok" THEN tries ELSE [tries EXCEPT ![slot[s].task] = 0]
    /\ Done(s)
    /\ UNCHANGED <<queueLabel, lockLabel, lockRefs, blocked, quarantine, loop, worktree, helps>>

\* `git worktree remove --force' of the path, whoever made what is there now.
RemoveWorktree(s) ==
    /\ Doing(s, "remove")
    /\ worktree' = [worktree EXCEPT ![slot[s].task] = None]
    /\ Done(s)
    /\ UNCHANGED <<github, quarantine, loop, tries, bounds>>

SlotStep(s) ==
    \/ Prepare(s)
    \/ \E exit \in {"unready", "fail", "guard", "retry", "ok"} : EndEarly(s, exit)
    \/ \E exit \in {"ok", "fail", "blocked"} : EndLate(s, exit)
    \/ Unmark(s) \/ Dequeue(s) \/ Release(s) \/ RecordSuccess(s) \/ NoteFailure(s)
    \/ LabelQuarantine(s) \/ RemoveWorktree(s)

-----------------------------------------------------------------------------
(* The sweeper and people.                                                 *)

InProgress(t) == \E s \in Slots : slot[s].task = t

\* Sweep, before the ticks of a round, sees how old the ref is and not who is at work.
Sweep(t) ==
    /\ loop.at = "list" /\ loop.sched = 1
    /\ t \in lockRefs /\ Kind(t) \in SweptKinds
    /\ InProgress(t) => Kind(t) \in Outlive
    /\ lockRefs' = lockRefs \ {t}
    /\ UNCHANGED <<queueLabel, lockLabel, quarantined, blocked, quarantine, loop, slot, worktree,
                   tries, bounds>>

Help == helps < MaxHelps /\ helps' = helps + 1

\* Somebody queues the item again; an issue after its branch has gone with its pull
\* request.  The ref of a claim the loop has just won is no such branch.
Enqueue(t) ==
    /\ Help /\ t \notin queueLabel /\ ~ InProgress(t)
    /\ queueLabel' = queueLabel \cup {t}
    /\ lockRefs' = IF loop.at = "mark" /\ loop.task = t THEN lockRefs ELSE lockRefs \ {t}
    /\ tries' = [tries EXCEPT ![t] = 0]
    /\ UNCHANGED <<lockLabel, quarantined, blocked, quarantine, loop, slot, worktree, failures>>

\* `Remove claude-failed to re-enable automation.'
Unquarantine(i) ==
    /\ Help /\ i \in quarantined
    /\ quarantined' = quarantined \ {i}
    /\ tries' = [t \in Tasks |-> IF Number(t) = i THEN 0 ELSE tries[t]]
    /\ UNCHANGED <<queueLabel, lockLabel, lockRefs, blocked, quarantine, loop, slot, worktree, failures>>

\* The last open blocker of an issue is closed.
Unblock(t) ==
    /\ t \in blocked
    /\ blocked' = blocked \ {t}
    /\ UNCHANGED <<queueLabel, lockLabel, lockRefs, quarantined, quarantine, loop, slot, worktree, tries, bounds>>

Next ==
    \/ LoopStep
    \/ \E s \in Slots : SlotStep(s)
    \/ \E t \in Tasks : Sweep(t) \/ Enqueue(t) \/ Unblock(t) \/ Unquarantine(Number(t))

Spec == Init /\ [][Next]_vars

\* The loop goes on, and a dispatch goes on: its container ends by its timeout.
Fairness == WF_vars(LoopStep) /\ \A s \in Slots : WF_vars(SlotStep(s))

FairSpec == Spec /\ Fairness

-----------------------------------------------------------------------------
(* Correctness.                                                            *)

Attended(t) == \E s \in Slots : slot[s].task = t /\ slot[s].at \in {"prep", "run"}

\* A call that failed has left its lock label or its ref behind.
Stranded(t) ==
    /\ t \in lockLabel \cup lockRefs
    /\ ~ InProgress(t) /\ ~ (loop.at = "mark" /\ loop.task = t)

OutOfReach(t) ==
    t \notin queueLabel \/ t \in blocked \/ Number(t) \in quarantined \/ Stranded(t)

\* Whatever else is queued before it and keeps failing, a queued task gets a slot: the
\* order of the ticks, the ascending order of candidates and the shared semaphore starve
\* nobody, because quarantine takes what keeps failing out of the way (Tick,
\* listCandidates, RecordFailure).  What becomes of a stranded task is TaskClaim's matter.
QueuedTaskGetsSlot == \A t \in Tasks : t \in queueLabel ~> Attended(t) \/ OutOfReach(t)

\* A task that never succeeds is quarantined in the end, also when the label call failed
\* or somebody had removed the label, though RecordFailure asks for the label only once.
BrokenTaskIsQuarantined ==
    \A t \in Broken : t \in queueLabel /\ t \notin blocked ~> OutOfReach(t)

\* Quarantine stops a task that keeps failing, and not only after long: between two helps,
\* successes, exits from the queue or failed calls of the quarantine label or of the release
\* in the addresser's guard, it is dispatched at most RetryBound times, although its claim is
\* released before the failure is recorded, or taken away by the sweeper, and Tick resets
\* counters while label calls are under way (Tick, failCleanup).
BoundedRetries ==
    Threshold > 0 =>
        \A t \in Tasks : HasQuarantine(Kind(t)) => tries[t] <= RetryBound(t)

\* The worktree of a container that runs is there, and is the one made for it.
ContainerKeepsWorktree ==
    \A s \in Slots : slot[s].at = "run" => worktree[slot[s].task] = s

=============================================================================
