----------------------------- MODULE TaskClaim -----------------------------
(***************************************************************************)
(* The claim protocol of cc-crew, for one kind of work: how orchestrators  *)
(* that share nothing but a GitHub repository pick a queued issue or pull  *)
(* request, lock it with a git ref, work on it in a slot of a bounded      *)
(* semaphore, give it up again, and how stale locks are reclaimed.         *)
(*                                                                         *)
(* Every call to the GitHub API is one atomic step, and what a process     *)
(* learnt in one call may be stale in the next.  Three processes run in an *)
(* orchestrator: the main loop of up.go (sweep, then tick), one goroutine  *)
(* per slot (Lifecycle.Dispatch), and the shutdown path, which takes the   *)
(* place of the loop.                                                      *)
(***************************************************************************)
EXTENDS Integers, FiniteSets

CONSTANTS
    Orchestrators,  \* processes running `cc-crew up' on machines of their own
    Slots,          \* semaphore slots, one dispatch goroutine each
    Home,           \* Home[s]: the orchestrator whose semaphore s belongs to
    Items,          \* issue or pull request numbers
    Kind,           \* the claim.Kind modelled
    MaxAge,         \* Sweeper.MaxAge (ReclaimAfter), in clock steps
    TaskTimeout,    \* bound on a dispatch, from claim to release, in clock steps
    RetryAttempts,  \* retryAttempts of lifecycle.go
    MaxStops,       \* bound on the crashes and shutdowns of a behaviour
    Hangs,          \* whether a container may still run when its dispatch times out
    MayFail,        \* calls that may report an error having done nothing
    MayLose,        \* calls that may report an error although they took effect
    None            \* no item, no slot

Kinds == {"implementer", "reviewer", "addresser", "merger", "resolver"}
Calls == {"read", "createRef", "deleteRef", "addLabel", "removeLabel"}

ASSUME SetsAssumption ==
    /\ Home \in [Slots -> Orchestrators]
    /\ Items \subseteq Nat /\ None \notin Items /\ None \notin Slots
ASSUME KindAssumption == Kind \in Kinds
ASSUME BoundsAssumption ==
    /\ MaxAge \in Nat \ {0} /\ TaskTimeout \in Nat \ {0}
    /\ RetryAttempts \in Nat \ {0} /\ MaxStops \in Nat /\ Hangs \in BOOLEAN
ASSUME CallsAssumption == MayFail \subseteq Calls /\ MayLose \subseteq Calls \ {"read"}

VARIABLES
    lockRefs,    \* items whose lock ref exists
    tags,        \* tags[i]: ages of the timestamp tags of item i
    queueLabel,  \* items that carry the queue label
    lockLabel,   \* items that carry the lock label
    finished,    \* items Sweeper.IsDone says are done
    loop,        \* loop[o]: control state of the main loop of orchestrator o
    slot,        \* slot[s]: control state of the dispatch goroutine in slot s
    orphans,     \* orphans[o]: items whose container runs on o's machine with nobody waiting for it
    stops        \* crashes and shutdowns so far

vars == <<lockRefs, tags, queueLabel, lockLabel, finished, loop, slot, orphans, stops>>
github == <<lockRefs, tags, queueLabel, lockLabel, finished>>

-----------------------------------------------------------------------------
(* Kinds of work: which are swept, what their dispatch does at its end.    *)

\* (variant) Nobody built a sweeper for the implementer.
SweptButImplementer == Kind \in {"reviewer", "addresser"}

\* up.go builds sweepers for these kinds only; reclaim.listLockRefs knows no other.
Swept == Kind \in {"implementer", "reviewer", "addresser"}

\* A finished implementer keeps its lock: the branch its pull request is made of.
KeepsLock(exit) == Kind = "implementer" /\ exit = "ok"

\* "guard" is the addresser's early return when every review is addressed already,
\* "early" the resolver's when it could not prepare its worktree.
Exits ==
    CASE Kind = "addresser" -> {"ok", "fail", "guard"}
      [] Kind = "resolver"  -> {"ok", "fail", "early"}
      [] OTHER              -> {"ok", "fail"}

\* The order of the cleanup calls: remove the lock label ("unmark"), remove the
\* queue label ("dequeue"), release the claim ("relList", then "relRefs").
FirstStep(exit) ==
    IF exit = "guard" THEN "relList"
    ELSE IF Kind = "merger" /\ exit = "ok" THEN "dequeue" ELSE "unmark"

DequeuesLate(exit) ==
    \/ exit = "guard"
    \/ exit = "ok" /\ Kind # "merger"
    \/ exit = "fail" /\ Kind = "resolver"

StepAfterUnmark(exit) == IF DequeuesLate(exit) THEN "dequeue" ELSE "relList"

StepAfterDequeue(exit) ==
    IF exit = "guard" THEN "free" ELSE IF Kind = "merger" THEN "unmark" ELSE "relList"

\* Only the guard has steps left after a release, and it takes them only when the
\* release succeeded.
StepAfterRelease(exit, released) ==
    IF exit = "guard" /\ released THEN "unmark" ELSE "free"

-----------------------------------------------------------------------------
(* State space.                                                            *)

Ages == 0 .. MaxAge  \* older than MaxAge is as stale as MaxAge

SlotSteps == {"free", "taken", "claimed", "prep", "run",
              "unmark", "dequeue", "relList", "relRefs"}
LoopSteps == {"sweep", "age", "retag", "isDone", "relList", "relRefs",
              "tick", "pick", "claim", "tag", "mark", "stop", "down"}

FreeSlot == [at |-> "free", item |-> None, exit |-> "none",
             listed |-> {}, try |-> 1, ran |-> 0]
LoopAt(step) == [at |-> step, todo |-> {}, item |-> None, listed |-> {},
                 slot |-> None, why |-> "work"]

SlotStates == [at : SlotSteps, item : Items \cup {None}, exit : Exits \cup {"none"},
               listed : SUBSET Ages, try : 1 .. RetryAttempts, ran : 0 .. TaskTimeout]
LoopStates == [at : LoopSteps, todo : SUBSET Items, item : Items \cup {None},
               listed : SUBSET Ages, slot : Slots \cup {None}, why : {"work", "stop"}]

TypeOK ==
    /\ lockRefs \subseteq Items /\ tags \in [Items -> SUBSET Ages]
    /\ queueLabel \subseteq Items /\ lockLabel \subseteq Items
    /\ finished \subseteq Items
    /\ slot \in [Slots -> SlotStates] /\ loop \in [Orchestrators -> LoopStates]
    /\ orphans \in [Orchestrators -> SUBSET Items] /\ stops \in 0 .. MaxStops

LoopStart == IF Swept THEN "sweep" ELSE "tick"

Init ==
    /\ lockRefs = {} /\ tags = [i \in Items |-> {}]
    /\ queueLabel = Items /\ lockLabel = {} /\ finished = {}
    /\ loop = [o \in Orchestrators |-> LoopAt(LoopStart)]
    /\ slot = [s \in Slots |-> FreeSlot]
    /\ orphans = [o \in Orchestrators |-> {}] /\ stops = 0

\* What a call may answer: it worked, it failed, or its answer was lost.
Answers(call) ==
    {"ok"} \cup (IF call \in MayFail THEN {"error"} ELSE {})
           \cup (IF call \in MayLose THEN {"lost"} ELSE {})
Landed(answer) == answer # "error"

-----------------------------------------------------------------------------
(* Writes to GitHub.                                                       *)

\* GitHub closes the pull request of a branch that is deleted.
DropLock(i) ==
    /\ lockRefs' = lockRefs \ {i}
    /\ finished' = IF Kind = "implementer" THEN finished \ {i} ELSE finished

DropTag(i, age) == tags' = [tags EXCEPT ![i] = @ \ {age}]
AddTag(i) == tags' = [tags EXCEPT ![i] = @ \cup {0}]

-----------------------------------------------------------------------------
(* The main loop: sweep.  A failed call ends the sweep of this round.      *)

Continue(o, next) == loop' = [loop EXCEPT ![o] = next]

\* On to the next item of loop[o].todo.
Skip(o, step) ==
    [LoopAt(step) EXCEPT !.todo = loop[o].todo \ {loop[o].item}, !.why = loop[o].why]

Sweep(o) ==
    /\ loop[o].at = "sweep"
    /\ \E answer \in Answers("read") :
         Continue(o, IF Landed(answer) THEN [LoopAt("age") EXCEPT !.todo = lockRefs]
                                       ELSE LoopAt("tick"))
    /\ UNCHANGED <<github, slot, orphans, stops>>

SweepEnd(o) ==
    /\ loop[o].at = "age" /\ loop[o].todo = {}
    /\ Continue(o, LoopAt("tick"))
    /\ UNCHANGED <<github, slot, orphans, stops>>

\* OldestTagAge: the oldest tag decides.
Stale(i) == \E age \in tags[i] : age >= MaxAge

SweepLock(o) ==
    /\ loop[o].at = "age"
    /\ \E i \in loop[o].todo, answer \in Answers("read") :
         LET look(step) == [loop[o] EXCEPT !.at = step, !.item = i]
             leave      == [LoopAt("age") EXCEPT !.todo = loop[o].todo \ {i}]
         IN  Continue(o, CASE ~ Landed(answer) -> LoopAt("tick")
                           [] Landed(answer) /\ tags[i] = {} -> look("retag")
                           [] Landed(answer) /\ tags[i] # {} /\ ~ Stale(i) -> leave
                           [] Landed(answer) /\ Stale(i) -> look("isDone"))
    /\ UNCHANGED <<github, slot, orphans, stops>>

\* A lock without tags gets one, so that its age is defined from now on.
Retag(o) ==
    /\ loop[o].at = "retag"
    /\ \E answer \in Answers("createRef") :
         /\ IF Landed(answer) THEN AddTag(loop[o].item) ELSE UNCHANGED tags
         /\ Continue(o, IF answer = "ok" THEN Skip(o, "age") ELSE LoopAt("tick"))
    /\ UNCHANGED <<lockRefs, queueLabel, lockLabel, finished, slot, orphans, stops>>

AskDone(o) ==
    /\ loop[o].at = "isDone"
    /\ \E answer \in Answers("read") :
         Continue(o, IF ~ Landed(answer) THEN LoopAt("tick")
                     ELSE IF loop[o].item \in finished THEN Skip(o, "age")
                     ELSE [loop[o] EXCEPT !.at = "relList"])
    /\ UNCHANGED <<github, slot, orphans, stops>>

-----------------------------------------------------------------------------
(* Release(deleteLock = true) as the loop calls it: for a stale lock, and   *)
(* for each task a shutdown kills.  Release lists the tags, deletes those   *)
(* it listed one by one, then the lock, and stops at the first error.       *)

AfterRelease(o, released) ==
    IF loop[o].why = "stop" THEN Skip(o, "stop")
    ELSE IF released THEN Skip(o, "age") ELSE LoopAt("tick")

LoopListTags(o) ==
    /\ loop[o].at = "relList"
    /\ \E answer \in Answers("read") :
         Continue(o, IF Landed(answer)
                     THEN [loop[o] EXCEPT !.at = "relRefs", !.listed = tags[loop[o].item]]
                     ELSE AfterRelease(o, FALSE))
    /\ UNCHANGED <<github, slot, orphans, stops>>

LoopDeleteTag(o) ==
    /\ loop[o].at = "relRefs"
    /\ \E age \in loop[o].listed, answer \in Answers("deleteRef") :
         /\ IF Landed(answer) THEN DropTag(loop[o].item, age) ELSE UNCHANGED tags
         /\ Continue(o, IF answer = "ok" THEN [loop[o] EXCEPT !.listed = @ \ {age}]
                                         ELSE AfterRelease(o, FALSE))
    /\ UNCHANGED <<lockRefs, queueLabel, lockLabel, finished, slot, orphans, stops>>

LoopDeleteLock(o) ==
    /\ loop[o].at = "relRefs" /\ loop[o].listed = {}
    /\ \E answer \in Answers("deleteRef") :
         /\ IF Landed(answer) THEN DropLock(loop[o].item)
                              ELSE UNCHANGED <<lockRefs, finished>>
         /\ Continue(o, AfterRelease(o, answer = "ok"))
    /\ UNCHANGED <<tags, queueLabel, lockLabel, slot, orphans, stops>>

-----------------------------------------------------------------------------
(* The main loop: tick.                                                    *)

\* (variant) The lock label is not looked at.
AllQueued == queueLabel

\* listCandidates (without the quarantine label and issue dependencies).
Candidates == queueLabel \ lockLabel

Tick(o) ==
    /\ loop[o].at = "tick"
    /\ \E answer \in Answers("read") :
         Continue(o, IF Landed(answer) THEN [LoopAt("pick") EXCEPT !.todo = Candidates]
                                       ELSE LoopAt(LoopStart))
    /\ UNCHANGED <<github, slot, orphans, stops>>

Free(o) == {s \in Slots : Home[s] = o /\ slot[s].at = "free"}

\* The end of the list, or no free slot for what is left of it.
TickEnd(o) ==
    /\ loop[o].at = "pick" /\ (loop[o].todo = {} \/ Free(o) = {})
    /\ Continue(o, LoopAt(LoopStart))
    /\ UNCHANGED <<github, slot, orphans, stops>>

\* Candidates are taken in ascending order.
Pick(o) ==
    /\ loop[o].at = "pick"
    /\ \E i \in loop[o].todo, s \in Free(o) :
         /\ \A j \in loop[o].todo : i <= j
         /\ Continue(o, [loop[o] EXCEPT !.at = "claim", !.item = i, !.slot = s])
         /\ slot' = [slot EXCEPT ![s].at = "taken"]
    /\ UNCHANGED <<github, orphans, stops>>

\* (variant) The semaphore slot of a claim that was not won leaks.
LeakSlot(o) == UNCHANGED slot

GiveUpSlot(o) == slot' = [slot EXCEPT ![loop[o].slot] = FreeSlot]

\* (variant) A lock that exists already counts as won, as for a marker ref.
ClaimAnswersIdempotent(i) == Answers("createRef")

\* What CreateRef may answer for the lock of item i.
ClaimAnswers(i) == IF i \in lockRefs THEN {"exists"} ELSE Answers("createRef")

\* tryClaimOne: a read, then CreateRef of the lock.  The error of either skips the item.
Claim(o) ==
    /\ loop[o].at = "claim"
    /\ LET i == loop[o].item
           s == loop[o].slot
       IN  \E reading \in Answers("read") :
           \E answer \in IF Landed(reading) THEN ClaimAnswers(i) ELSE {"error"} :
             /\ lockRefs' = IF answer \in {"ok", "lost"} THEN lockRefs \cup {i} ELSE lockRefs
             /\ IF answer = "ok"
                THEN /\ slot' = [slot EXCEPT ![s] = [FreeSlot EXCEPT !.at = "claimed", !.item = i]]
                     /\ Continue(o, [loop[o] EXCEPT !.at = "tag"])
                ELSE /\ GiveUpSlot(o)
                     /\ Continue(o, Skip(o, "pick"))
    /\ UNCHANGED <<tags, queueLabel, lockLabel, finished, orphans, stops>>

\* TryClaim's second half.  When the tag cannot be created TryClaim answers (true, err)
\* and Tick skips the item: the slot is given up, the lock is not.
ClaimTag(o) ==
    /\ loop[o].at = "tag"
    /\ \E answer \in Answers("createRef") :
         /\ IF Landed(answer) THEN AddTag(loop[o].item) ELSE UNCHANGED tags
         /\ IF answer = "ok"
            THEN /\ Continue(o, [loop[o] EXCEPT !.at = "mark"])
                 /\ UNCHANGED slot
            ELSE /\ Continue(o, Skip(o, "pick"))
                 /\ GiveUpSlot(o)
    /\ UNCHANGED <<lockRefs, queueLabel, lockLabel, finished, orphans, stops>>

\* The lock label is best effort; the dispatch starts whatever AddLabel answers.
MarkAndDispatch(o) ==
    /\ loop[o].at = "mark"
    /\ \E answer \in Answers("addLabel") :
         lockLabel' = IF Landed(answer) THEN lockLabel \cup {loop[o].item} ELSE lockLabel
    /\ slot' = [slot EXCEPT ![loop[o].slot].at = "prep"]
    /\ Continue(o, Skip(o, "pick"))
    /\ UNCHANGED <<lockRefs, tags, queueLabel, finished, orphans, stops>>

-----------------------------------------------------------------------------
(* A dispatch, in its slot.                                                *)

\* (variant) The containers of every orchestrator are taken for one's own.
AllContainers(o) ==
    {slot[s].item : s \in {r \in Slots : slot[r].at = "run"}}
    \cup UNION {orphans[p] : p \in Orchestrators}

\* The items of the containers that run on the machine of o.
Containers(o) ==
    {slot[s].item : s \in {r \in Slots : Home[r] = o /\ slot[r].at = "run"}} \cup orphans[o]

Do(s, step) == slot' = [slot EXCEPT ![s].at = step]

\* Worktree, pull request and container home are ready: the container starts, unless
\* one of its name runs already.  The merger calls the API directly, without container.
Launch(s) ==
    /\ slot[s].at = "prep" /\ Kind # "merger" /\ slot[s].item \notin Containers(Home[s])
    /\ Do(s, "run")
    /\ UNCHANGED <<github, loop, orphans, stops>>

\* What the container leaves on GitHub for IsDone to see: a pull request whose push
\* creates the branch if need be, or a review.
Produce(o, i) ==
    /\ i \in Containers(o) /\ Kind \in {"implementer", "reviewer"}
    /\ finished' = finished \cup {i}
    /\ lockRefs' = IF Kind = "implementer" THEN lockRefs \cup {i} ELSE lockRefs
    /\ UNCHANGED <<tags, queueLabel, lockLabel, slot, loop, orphans, stops>>

\* The dispatch knows its outcome: a step before the container failed, or the merger or
\* the container is through.
End(s, exit) ==
    /\ \/ slot[s].at = "run" /\ exit \in {"ok", "fail"}
       \/ slot[s].at = "prep" /\ (exit # "ok" \/ Kind = "merger")
    /\ slot' = [slot EXCEPT ![s].at = FirstStep(exit), ![s].exit = exit]
    /\ UNCHANGED <<github, loop, orphans, stops>>

\* The context of Run is over: the `docker run' client is killed, its container is not,
\* and the dispatch takes the failure path.
TimeOut(s) ==
    /\ Hangs /\ slot[s].at = "run" /\ slot[s].ran = TaskTimeout
    /\ slot' = [slot EXCEPT ![s].at = FirstStep("fail"), ![s].exit = "fail"]
    /\ orphans' = [orphans EXCEPT ![Home[s]] = @ \cup {slot[s].item}]
    /\ UNCHANGED <<github, loop, stops>>

Go(s, step) == slot' = [slot EXCEPT ![s] = IF step = "free" THEN FreeSlot ELSE [@ EXCEPT !.at = step]]

Unmark(s) ==
    /\ slot[s].at = "unmark"
    /\ \E answer \in Answers("removeLabel") :
         lockLabel' = IF Landed(answer) THEN lockLabel \ {slot[s].item} ELSE lockLabel
    /\ Go(s, StepAfterUnmark(slot[s].exit))
    /\ UNCHANGED <<lockRefs, tags, queueLabel, finished, loop, orphans, stops>>

Dequeue(s) ==
    /\ slot[s].at = "dequeue"
    /\ \E answer \in Answers("removeLabel") :
         queueLabel' = IF Landed(answer) THEN queueLabel \ {slot[s].item} ELSE queueLabel
    /\ Go(s, StepAfterDequeue(slot[s].exit))
    /\ UNCHANGED <<lockRefs, tags, lockLabel, finished, loop, orphans, stops>>

\* (variant) One attempt too many.
RetryOnceMore(s) ==
    IF slot[s].try <= RetryAttempts
    THEN slot' = [slot EXCEPT ![s].at = "relList", ![s].listed = {}, ![s].try = @ + 1]
    ELSE Go(s, StepAfterRelease(slot[s].exit, FALSE))

\* releaseWithRetry: Release again from its start, or give up after RetryAttempts.
RetryRelease(s) ==
    IF slot[s].try < RetryAttempts
    THEN slot' = [slot EXCEPT ![s].at = "relList", ![s].listed = {}, ![s].try = @ + 1]
    ELSE Go(s, StepAfterRelease(slot[s].exit, FALSE))

ListTags(s) ==
    /\ slot[s].at = "relList"
    /\ \E answer \in Answers("read") :
         IF Landed(answer)
         THEN slot' = [slot EXCEPT ![s].at = "relRefs", ![s].listed = tags[slot[s].item]]
         ELSE RetryRelease(s)
    /\ UNCHANGED <<github, loop, orphans, stops>>

DeleteTag(s) ==
    /\ slot[s].at = "relRefs"
    /\ \E age \in slot[s].listed, answer \in Answers("deleteRef") :
         /\ IF Landed(answer) THEN DropTag(slot[s].item, age) ELSE UNCHANGED tags
         /\ IF answer = "ok" THEN slot' = [slot EXCEPT ![s].listed = @ \ {age}]
                             ELSE RetryRelease(s)
    /\ UNCHANGED <<lockRefs, queueLabel, lockLabel, finished, loop, orphans, stops>>

DeleteLock(s) ==
    /\ slot[s].at = "relRefs" /\ slot[s].listed = {} /\ ~ KeepsLock(slot[s].exit)
    /\ \E answer \in Answers("deleteRef") :
         /\ IF Landed(answer) THEN DropLock(slot[s].item) ELSE UNCHANGED <<lockRefs, finished>>
         /\ IF answer = "ok" THEN Go(s, StepAfterRelease(slot[s].exit, TRUE))
                             ELSE RetryRelease(s)
    /\ UNCHANGED <<tags, queueLabel, lockLabel, loop, orphans, stops>>

KeepLock(s) ==
    /\ slot[s].at = "relRefs" /\ slot[s].listed = {} /\ KeepsLock(slot[s].exit)
    /\ Go(s, "free")
    /\ UNCHANGED <<github, loop, orphans, stops>>

-----------------------------------------------------------------------------
(* Shutdown, crash and restart.                                            *)

\* (variant) The dispatches of an orchestrator that stops go on.
HaltNone(o) == UNCHANGED slot

HaltSlots(o) == slot' = [s \in Slots |-> IF Home[s] = o THEN FreeSlot ELSE slot[s]]

\* SIGINT: the context of loop and dispatches is cancelled, so no call of theirs
\* lands any more, and the containers `docker ps' lists are killed.
Shutdown(o) ==
    /\ loop[o].why = "work" /\ loop[o].at # "down" /\ stops < MaxStops
    /\ stops' = stops + 1
    /\ Continue(o, [LoopAt("stop") EXCEPT !.todo = Containers(o), !.why = "stop"])
    /\ HaltSlots(o)
    /\ orphans' = [orphans EXCEPT ![o] = {}]
    /\ UNCHANGED github

StopTask(o) ==
    /\ loop[o].at = "stop"
    /\ \E i \in loop[o].todo, answer \in Answers("removeLabel") :
         /\ lockLabel' = IF Landed(answer) THEN lockLabel \ {i} ELSE lockLabel
         /\ Continue(o, [loop[o] EXCEPT !.at = "relList", !.item = i])
    /\ UNCHANGED <<lockRefs, tags, queueLabel, finished, slot, orphans, stops>>

StopEnd(o) ==
    /\ loop[o].at = "stop" /\ loop[o].todo = {}
    /\ Continue(o, LoopAt("down"))
    /\ UNCHANGED <<github, slot, orphans, stops>>

\* The containers of a process that dies go on.
Crash(o) ==
    /\ loop[o].at # "down" /\ stops < MaxStops
    /\ stops' = stops + 1
    /\ Continue(o, LoopAt("down"))
    /\ HaltSlots(o)
    /\ orphans' = [orphans EXCEPT ![o] = Containers(o)]
    /\ UNCHANGED github

Restart(o) ==
    /\ loop[o].at = "down"
    /\ Continue(o, LoopAt(LoopStart))
    /\ UNCHANGED <<github, slot, orphans, stops>>

-----------------------------------------------------------------------------
(* The world outside.                                                      *)

\* A container nobody waits for is through.
OrphanEnds(o, i) ==
    /\ i \in orphans[o]
    /\ orphans' = [orphans EXCEPT ![o] = @ \ {i}]
    /\ UNCHANGED <<github, loop, slot, stops>>

\* Someone (a human, the detector, another kind's dispatch) queues the item again.
Requeue(i) ==
    /\ i \notin queueLabel
    /\ queueLabel' = queueLabel \cup {i}
    /\ UNCHANGED <<lockRefs, tags, lockLabel, finished, loop, slot, orphans, stops>>

\* The pull request of an implementer's branch is merged or closed, and the branch may
\* be deleted with it.
ClosePR(i) ==
    /\ Kind = "implementer" /\ i \in finished
    /\ finished' = finished \ {i}
    /\ lockRefs' \in {lockRefs, lockRefs \ {i}}
    /\ UNCHANGED <<tags, queueLabel, lockLabel, loop, slot, orphans, stops>>

Dispatched == SlotSteps \ {"free", "taken"}

Older(ages) == {IF age < MaxAge THEN age + 1 ELSE age : age \in ages}

\* Time passes, but not beyond the timeout of a dispatch.
Clock ==
    /\ \A s \in Slots : slot[s].at \in Dispatched => slot[s].ran < TaskTimeout
    /\ tags' = [i \in Items |-> Older(tags[i])]
    /\ slot' = [s \in Slots |->
                  [slot[s] EXCEPT !.listed = Older(@),
                                  !.ran = IF slot[s].at \in Dispatched THEN @ + 1 ELSE @]]
    /\ loop' = [o \in Orchestrators |-> [loop[o] EXCEPT !.listed = Older(@)]]
    /\ UNCHANGED <<lockRefs, queueLabel, lockLabel, finished, orphans, stops>>

LoopStep(o) ==
    \/ Sweep(o) \/ SweepEnd(o) \/ SweepLock(o) \/ Retag(o) \/ AskDone(o)
    \/ LoopListTags(o) \/ LoopDeleteTag(o) \/ LoopDeleteLock(o)
    \/ Tick(o) \/ TickEnd(o) \/ Pick(o) \/ Claim(o) \/ ClaimTag(o) \/ MarkAndDispatch(o)
    \/ StopTask(o) \/ StopEnd(o)

SlotStep(s) ==
    \/ Launch(s) \/ (\E exit \in Exits : End(s, exit)) \/ TimeOut(s)
    \/ Unmark(s) \/ Dequeue(s)
    \/ ListTags(s) \/ DeleteTag(s) \/ DeleteLock(s) \/ KeepLock(s)

Next ==
    \/ \E o \in Orchestrators : LoopStep(o) \/ Shutdown(o) \/ Crash(o) \/ Restart(o)
    \/ \E s \in Slots : SlotStep(s)
    \/ \E o \in Orchestrators, i \in Items : Produce(o, i) \/ OrphanEnds(o, i)
    \/ \E i \in Items : Requeue(i) \/ ClosePR(i)
    \/ Clock

Spec == Init /\ [][Next]_vars

\* CreateRef may fail again and again, but not for ever.
CreatesGetThrough(o) ==
    /\ SF_vars(Claim(o) /\ loop'[o].at = "tag")
    /\ SF_vars(ClaimTag(o) /\ loop'[o].at = "mark")
    /\ SF_vars(Retag(o) /\ loop'[o].at = "age")

\* The loop goes on, a dispatch goes on (its container ends or times out), time goes
\* on, and a stopped orchestrator is started again.
Fairness ==
    /\ \A o \in Orchestrators :
         WF_vars(LoopStep(o)) /\ WF_vars(Restart(o)) /\ CreatesGetThrough(o)
    /\ \A s \in Slots : WF_vars(SlotStep(s))
    /\ WF_vars(Clock)

FairSpec == Spec /\ Fairness

-----------------------------------------------------------------------------
(* Correctness.                                                            *)

\* What the control state of loop and slots implies of each other.
LoopOK(o) ==
    LET l == loop[o] IN
    /\ l.at \in {"retag", "isDone", "relList", "relRefs", "claim", "tag", "mark"}
         => l.item \in Items
    /\ l.at \in {"isDone", "relList", "relRefs"} => l.item \in l.todo
    /\ l.at \in {"claim", "tag", "mark"} => l.slot \in Slots /\ Home[l.slot] = o
    /\ l.at = "claim" => slot[l.slot].at = "taken"
    /\ l.at \in {"tag", "mark"} => slot[l.slot].at = "claimed" /\ slot[l.slot].item = l.item
    /\ l.why = "stop" => l.at \in {"stop", "relList", "relRefs"}
    /\ l.at = "stop" => l.why = "stop"

SlotOK(s) ==
    /\ slot[s].at \in Dispatched => slot[s].item \in Items
    /\ slot[s].exit = "none" => slot[s].at \in {"free", "taken", "claimed", "prep", "run"}

Handshake == (\A o \in Orchestrators : LoopOK(o)) /\ (\A s \in Slots : SlotOK(s))

\* The dispatch in slot s has won its item and not yet given it up.
Holds(s) ==
    /\ slot[s].at \in Dispatched
    /\ slot[s].exit = "guard" => slot[s].at \notin {"unmark", "dequeue"}

\* What o no longer works on and has not given up either: a claim its shutdown is still
\* releasing, or a container that outlived its dispatch.
Inherits(o, i) ==
    \/ loop[o].why = "stop" /\ i \in loop[o].todo
    \/ i \in orphans[o]

\* No two dispatches own an item at once, none owns an item that another
\* orchestrator's shutdown is still releasing or a left-over container still works on,
\* and no two orchestrators have left the same item: the git ref is a lock (TryClaim,
\* Release).
MutualExclusion ==
    /\ \A r, s \in Slots : Holds(r) /\ Holds(s) /\ slot[r].item = slot[s].item => r = s
    /\ \A s \in Slots, o \in Orchestrators : Holds(s) => ~ Inherits(o, slot[s].item)
    /\ \A o, p \in Orchestrators, i \in Items : Inherits(o, i) /\ Inherits(p, i) => o = p

\* The dispatch in slot s is preparing or running its container.
Works(s) == slot[s].at \in {"prep", "run"}

\* At most one dispatch works on an item, and its container does not run beside one that
\* was left behind, also when a live lock has been reclaimed: the lock label keeps the item
\* out of the candidates, and docker starts no second container of its name.  If containers
\* end by their timeout, a dispatch does not even get to replace the worktree under one that
\* was left behind (Scheduler.listCandidates, Tick, Runner.Run).
OneContainer ==
    /\ \A r, s \in Slots : Works(r) /\ Works(s) /\ slot[r].item = slot[s].item => r = s
    /\ \A s \in Slots, o \in Orchestrators :
         slot[s].at = "run" \/ (~ Hangs /\ slot[s].at = "prep") => slot[s].item \notin orphans[o]

Owned(i) ==
    \/ \E s \in Slots : Holds(s) /\ slot[s].item = i
    \/ \E o \in Orchestrators : Inherits(o, i)

\* A dispatch finds the lock ref of its item in place, so does a shutdown that
\* releases it, and a container that outlived a crash is still protected by it: nobody
\* deletes the lock of another one's work, whatever retries, races and half-done
\* releases came before.
WorkIsLocked == \A i \in Items : Owned(i) => i \in lockRefs

\* The sweeper reclaims the lock of a live dispatch only when that dispatch is as old
\* as MaxAge (Sweep: "whose oldest timestamp tag is older than MaxAge").
OnlyOldWorkReclaimed ==
    [][\A o \in Orchestrators, s \in Slots :
         LoopDeleteLock(o) /\ loop[o].why = "work" /\ Holds(s) /\ slot[s].item = loop[o].item
         => slot[s].ran >= MaxAge]_vars

\* The pull request an implementer's lock has become is a reason to keep the lock.
HasPR(i) == Kind = "implementer" /\ i \in finished

Attended(i) ==
    \/ \E s \in Slots : Holds(s) /\ slot[s].item = i
    \/ \E o \in Orchestrators : loop[o].why = "stop" /\ i \in loop[o].todo

\* A lock ref no process answers for does not stay: after a crash, a failed release or a
\* half-done claim the sweeper removes it, also when it has no tag.
AbandonedLockReaped ==
    \A i \in Items :
        i \in lockRefs /\ ~ Attended(i) ~> i \notin lockRefs \/ Attended(i) \/ HasPR(i)

\* A candidate is taken up, also when an orchestrator died half-way through claiming it.
CandidateIsTaken ==
    \A i \in Items :
        i \in Candidates ~> i \notin Candidates \/ HasPR(i) \/ \E s \in Slots : Works(s) /\ slot[s].item = i

\* Work that stays queued is taken up, whatever became of the orchestrator that had it.
QueuedWorkIsTaken ==
    \A i \in Items :
        i \in queueLabel ~> i \notin queueLabel \/ \E s \in Slots : Works(s) /\ slot[s].item = i

=============================================================================
