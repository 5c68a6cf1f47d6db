# TLA+ models of cc-crew

cc-crew runs a crew of coding agents on the issues and pull requests of a GitHub
repository. `cc-crew up` is an orchestrator: it polls GitHub, claims items by git refs,
and runs an agent in a container for each claimed item. Several orchestrators, on several
machines, may serve one repository. They share nothing but GitHub: git refs are locks,
timestamps and markers, labels are queues. All of the difficulty of the program is in what
happens between two calls to GitHub, and that is what these modules model: **every GitHub
call is one atomic step, and what a process learnt in one call may be stale in the next.**

The modules are translated from the Go sources under `cmd/` and `internal/`;
`PROJECT.json` maps each definition to the lines it stands for.

## 1. The system

| Part | State | Operations | Model |
|---|---|---|---|
| claim (`claim/claim.go`) | lock ref and timestamp tags per item and kind, on GitHub | `TryClaim`, `Release`, `OldestTagAge` | TaskClaim |
| reclaim (`reclaim/reclaim.go`) | none of its own | `Sweep`, `IsDone` functions | TaskClaim; one step in ReviewLoop and WorkPool |
| scheduler (`scheduler/scheduler.go`) | semaphore per pool | `Tick`, `listCandidates`, `tryClaimOne` | TaskClaim, ReviewLoop, WorkPool |
| lifecycle (`scheduler/lifecycle.go`) | a goroutine per dispatch | `Dispatch` by kind, success and failure cleanup, retries, verdict, snapshot | TaskClaim, ReviewLoop, WorkPool |
| merger (`scheduler/merger.go`) | none | the state machine over `mergeStateStatus` | MergeLoop |
| resolver (`scheduler/resolver.go`) | none | rebase in a container, two cleanups | MergeLoop, WorkPool |
| detector (`continuous/continuous.go`) | marker refs on GitHub | `Detect`, flip to review, label for addressing | ReviewLoop |
| orchestrator (`cmd/cc-crew/up.go`) | main loop, signal context | sweep, detect, tick; which scheduler on which semaphore; shutdown; restart | all |
| docker runner (`docker/docker.go`) | containers on the host | `Run`, `Kill`, `PS` | TaskClaim, ReviewLoop, CrewReset |
| GitHub client (`github/gh.go`) | GitHub | the calls, and how they fail | all |
| quarantine (`scheduler/quarantine.go`) | failure counters in memory | `RecordFailure`, `RecordSuccess`, `WasLabeled` | WorkPool |
| worktree (`worktree/worktree.go`) | directories | add, remove | WorkPool |
| reset (`reset/reset.go`) | none | `Compute`, `Execute`: list, kill, delete refs, requeue | CrewReset |
| status, init, configuration, output prefix, sandbox, agent images | - | - | not modelled: no state of the protocol |

How they interact. The main loop calls, in each round, the three sweepers, the detector and
the `Tick` of each scheduler, one after the other; a won claim starts a goroutine, so
dispatches run beside the loop and beside each other. The kinds (implementer, reviewer,
addresser, merger, resolver) never call each other: one puts a label on, another lists it.
A signal cancels the context of loop and goroutines and runs a shutdown that kills
containers and releases what they had claimed. A crash leaves refs, labels and containers
as they are; `cc-crew reset`, which people run when the crew has stopped, removes what is left and
queues the items again.

What makes each part correct:

* claim: a lock ref has one owner, and nobody deletes the lock of another's work.
* reclaim: what nobody owns is released in the end; what somebody owns is not, while young.
* scheduler: no candidate is forgotten, no slot is lost, no item is worked on twice at once.
* lifecycle and detector: markers, labels and lock are written in an order in which nobody
  can see work as open that is done, nor as done that is open.
* merger and resolver: a queued pull request gets merged, visibly blocked, or handed to the resolver.
* quarantine and pools: what keeps failing is stopped after a few attempts, and does not keep
  other work from its slot.
* worktree: a container keeps the directory it was started in.
* reset: whatever state the crew stopped in, and wherever an earlier reset failed, what it leaves
  is clean and every open item is queued again.

`PROJECT.json` lists the hazards by source line with the properties aimed at them.

## 2. The modules

### TaskClaim: claims, dispatches, sweeps, shutdowns, crashes

One kind of work (`Kind`), any number of orchestrators, slots and items.

| Variable | Stands for |
|---|---|
| `lockRefs`, `tags` | lock refs, and the ages of the timestamp tags (`claim.PathsFor`) |
| `queueLabel`, `lockLabel` | labels of the kind |
| `finished` | what `Sweeper.IsDone` answers: an open pull request of the issue, or any review |
| `loop[o]` | where the main loop of orchestrator `o` is: sweep, tick or shutdown, with the list it works off (`todo`) and what it has read (`listed`) |
| `slot[s]` | a semaphore slot and the goroutine in it, from `Pick` to the last cleanup call, with its age (`ran`) |
| `orphans[o]` | items with a container on `o`'s machine and no goroutine waiting for it |

Actions follow the calls of the code. `Sweep`, `SweepLock`, `Retag`, `AskDone` and
`LoopListTags`/`LoopDeleteTag`/`LoopDeleteLock` are `Sweeper.Sweep` with `Release`; `Tick`, `Pick`,
`Claim`, `ClaimTag`, `MarkAndDispatch` are `Scheduler.Tick` with `TryClaim`; `Launch`, `End`,
`TimeOut` are `Runner.Run`; `Unmark`, `Dequeue`, `ListTags`, `DeleteTag`, `DeleteLock` and
`RetryRelease` are the cleanup, in the order that `FirstStep`, `StepAfterUnmark`,
`StepAfterDequeue` and `StepAfterRelease` give for each kind and exit. `Shutdown`, `StopTask` and
`StopEnd` are the end of `runUp`. Where the code ignores an error, so does the action. A call
answers "ok", "error" (nothing done), or "lost" (done, but an error is reported); the constants
`MayFail` and `MayLose` say for which calls.

Time is the action `Clock`. Tags age, an age beyond `MaxAge` is as good as `MaxAge`, and a
dispatch is over by `TaskTimeout`, measured from claim to release. `Hangs` says whether a
container may still be busy then. In the code the timeout kills the `docker` client and not
the container, which becomes an orphan; it holds its docker name, so a later container of the
same item on that machine cannot start.

Not in the module: the quarantine label, open blockers of an issue and the semaphore that
implementer, addresser and resolver share, which are in WorkPool; two orchestrators on one host
(the shutdown of one would kill and release the containers of the other). A `docker ps` or `docker kill` that fails
at shutdown is a `Crash`.

### ReviewLoop: reviewer, addresser, detector

One pull request. Heads, labels, reviews, the two sets of marker refs (`addressed`,
`rereviewed`), one lock per kind, the main loop (sweep, detect, two ticks) and dispatches.
`Detect` reads the pull request once and acts on that copy (`loop[o].labels`, `loop[o].head`) in
later steps, with the markers and reviews of then, as `continuous.go` does. A dispatch's
cleanup is the sequence `Cleanup(kind, exit)`, one action for each of its calls. People may
review, push and ask for a review at any time.

A claim is one ref here, and `SweepLock` may take it whenever the loop sweeps, from a live
dispatch as well: the sweeper goes by age alone, and an addresser may take longer (60 minutes) than
a lock may grow old (30). TaskClaim has the parts of a claim and their age. `orphans[o]` are the
containers on the host of `o` that no dispatch waits for, left by a crash or, with `Hangs`, by a timeout
(`TimeOut`); a left-over reviewer still posts, a left-over addresser pushes as people do (`HumanPush`), and
while one is there docker starts no other of its name (`NameTaken`). Not in the module: dismissed or pending
reviews (they trigger nothing), deletion of markers by `reset`, the shutdown on a signal, quarantine.

### MergeLoop: merger, resolver, and the verdict they depend on

One pull request, from the review that approves it to the merge. GitHub computes
`mergeStateStatus` in steps of its own (`Compute`) and forgets it on a push or a move of the base;
`StepFor` is the switch of `dispatchMerger`, `StepAfterChecks` is `mergerHandleUnstable`, and the
merger uses what it read although head and status may have changed since. `MergeAnswers` is what
`gh pr merge --match-head-commit` and `MergePR` make of it. The resolver's cleanups are
sequences of calls. Its container need not push, and only its exit code says how it ended
(`ResolverSucceeds`); a resolver may also never come (`ResolverLists`), for `runUp` builds none without
implementers. The reviewer's cleanup is one action per call (`ReviewerMarks` to `ReviewerFlags`), and the
verdict it reads may be any, since people review too. The calls in `MayFail` fail any number of times.

Not in the module: people who add `claude-merge` by hand, comments, quarantine, and claims: a kind has at
most one dispatch at a time on the pull request, for mergers and resolvers by ClaimsExclude below, for
reviewers because they time out (15 minutes) before their lock is old. People remove
`claude-conflict-blocked` only when the calls around the comment that asks them to are over.

### WorkLock and ClaimLock: what a claim promises

`WorkLock` is the abstract lock: an item is unlocked, held by one machine, or locked and abandoned.
`Win` needs an unlocked item, `Release` a holder, `Abandon` gives up holding without unlocking,
`WinUnknown` is a lock nobody knows to have won, and `Reap` may unlock what nobody holds: whether what is
abandoned gets unlocked is left open (see `claim_live` and `claim_reaped`). `ClaimLock` extends TaskClaim with the refinement
mapping: `locked` is `lockRefs`, and a machine holds an item (`HoldsAt`) while a dispatch there has
won it, a shutdown there has still to release it, or a container there has outlived a crash.
`ImplementsWorkLock` is the specification of WorkLock under that mapping.

### WorkPool: schedulers, semaphores, quarantine, worktrees

One orchestrator with several kinds of work. A task is a kind and a number; `loop` goes through
`Schedulers` in the order of `runUp`, and `PoolOf` is which semaphore each draws on. `counts` and
`labeled` are the fields of `Quarantine`, with `RecordFailure` and `ClearRecord`, which is
`RecordSuccess`; the reset in `Tick` is `ResetIfLabeled`. `Candidates` has the quarantine label and the open blockers, `Pick` the ascending
order. A dispatch ends in one of the exits of its kind, each with its own sequence of calls
(`Cleanup`), one action each. `worktree[t]` is whose directory is at the path of task `t`: `Prepare` replaces it
(`Add`, `AddDetached`), `RemoveWorktree` removes it by path, whoever made it.
`tries` counts dispatches for `BoundedRetries` and influences nothing. People who queue a task
again delete its old branch first (`Enqueue`), but not the ref of a claim the loop has just won.
`Sweep` takes refs of swept kinds before the ticks of a round: any that a failed release left behind, and
those of dispatches at work if they may outlive the age of reclaim (`Outlive`; by default implementer and
addresser). The errors of `Unmark`, `Dequeue` and `Release` are ignored as in the code, and what should have gone stays.

Not in the module: the parts and the age of a claim, crashes and other orchestrators (TaskClaim), what one
kind queues for another (ReviewLoop, MergeLoop). Blockers are closed but not opened again.

### CrewReset: reset after the crew has stopped

Extends TaskClaim: the crew runs, crashes or is shut down at any step, its containers go on, then
somebody runs `reset --yes` until it succeeds and starts the crew again. `Compute` is one
listing for each phase (`ListLocks`, `ListTagRefs`, `ListMarked`, `ListDone`, `ListContainers`), `Execute` kills, deletes
and relabels what was listed, call by call, in the order of `Phases`. A call that fails ends
the run where it is (`Abort`), except for the labels, whose errors the code ignores. A dispatch that
succeeds takes the queue label off, puts the done label on and releases its claim, and may be interrupted
after each (`Finishes`, `DoneAfter`). `owed`, `late` and `lost` are history variables of the property: what
reset owes a place in the queue, the refs that came up behind its back, and the items of which nothing tells any more.

Not in the module: the labels of kinds other than `Kind`, quarantine label and markers (reset deletes
them in the same way), worktrees, items that are closed, the dry run, a crew that goes on beside reset.

### Proof modules

| Module | Extends | Theorems (section 5) |
|---|---|---|
| `TaskClaimProofs` | `TaskClaim` | TypeCorrect, OneContainerPerItem |
| `ClaimExclusionProofs` | `TaskClaimProofs`, `ClaimLock` | ClaimsExclude, LocksStay |
| `WorkLock` | - | LockExcludes |
| `ClaimLockProofs` | `ClaimExclusionProofs` | ClaimsImplementLock |
| `ReviewLoopProofs` | `ReviewLoop` | ReviewTypeCorrect, ReviewsAnsweredOnce, ReviewedIsNotRequeued |
| `MergeLoopProofs` | `MergeLoop` | MergeTypeCorrect, NobodyDropsSilently |
| `WorkPoolProofs` | `WorkPool` | PoolTypeCorrect, OneDispatchByRef, OneDispatchByLabel, RetriesBounded |
| `CrewResetProofs` | `CrewReset`, `TaskClaimProofs` | ResetTypeCorrect, ResetDropsAndRequeues |

The modules `MC...` hold the sets and functions the configurations give to constants. Definitions
marked "(variant)" are faulty versions of the definition after them: with one of them in place
the property it is meant for must fail, which shows that the property depends on that code.

## 3. Runs that pass

| Run | What it asks | Instance |
|---|---|---|
| `claim_unswept` | `MutualExclusion`, `WorkIsLocked`, `ImplementsWorkLock`, `TypeOK` for a kind that is not swept | resolver; two orchestrators with 2 + 1 slots, one item, 3 stops, 3 attempts; every call may fail, every write but deletions may lose its answer |
| `claim_live` | `OneContainer`, `AbandonedLockReaped`, `CandidateIsTaken` for a kind that is swept, live locks included | implementer; 2 slots, 1 stop; a dispatch may reach the reclaim age, its container may outlive it, people merge or close pull requests; `createRef` may fail or lose its answer, so that claims end half-done |
| `review_loop` | `AnsweredOnce`, `ReviewedHeadNotRequeued`, `TypeOK` | 2 heads, 1 review, 1 reviewer and 2 addresser slots, 1 crash, live locks swept, containers outlast their timeout, failing releases, people ask for reviews |
| `review_live` | `HeadIsReviewed`, `ReviewIsAnswered` | 2 heads, 2 reviews, no failures |
| `merge_loop` | `NoSilentDrop`, `NoSilentStall`, `TypeOK` | 2 heads, 1 move of the base, merges and updates that may fail at any time, people push, any verdict, a resolver that need not come |
| `pool` | `BoundedRetries`, `QueuedTaskGetsSlot`, `BrokenTaskIsQuarantined`, `TypeOK` | 1 slot for implementer and addresser; an issue that always fails, an issue blocked at first, a pull request; threshold 2, 1 failing quarantine label call or release, 1 help by people, the sweeper takes what is left behind (`Outlive = {}`) |
| `reset` | `ResetRequeues`, `ResetUnsticks`, `ResetOK` | implementer; 1 slot, 1 item, 2 stops, containers may hang, 1 run of reset fails |

What they show, in words:

* `MutualExclusion`: no two dispatches own an item, none owns what a shutdown is still
  releasing or an orphan works on. `WorkIsLocked`: whoever owns an item finds its lock ref in
  place. Both hold for unswept kinds through any mix of failed, repeated and half-done
  releases. They need that deletions do not lose their answer: `releaseWithRetry` repeats a
  `Release` whose deletion took effect, and then deletes the lock of whoever claimed the item in
  between.
* `ImplementsWorkLock`: the same as a refinement. Every step wins an unlocked item, unlocks what
  its own machine holds or what nobody holds, gives something up, or changes nothing a lock is made of.
* `OneContainer`: with one orchestrator and a lock label that lands, no second dispatch works
  on an item, though the default reclaim age (30 minutes) is below the implementer
  timeout (60 minutes) and live locks are reclaimed. It is the label that prevents it, not the lock. Nor does
  a container run beside one that outlived its dispatch: docker's container names prevent that. If containers end
  by their timeout, a dispatch does not even prepare beside such a left-over (it would replace its worktree).
* `AbandonedLockReaped`, `CandidateIsTaken`: the sweeper removes whatever a crash, a shutdown or
  a half-done claim left, and every candidate is taken. For mergers and resolvers the first does not hold
  (`claim_reaped`).
* `AnsweredOnce`: no container works on a review that has its marker, no two work on the same review, and none
  beside one that was left behind. The lock does not see to that, since the sweeper takes live ones; it is the lock label,
  the order of `successCleanupAddresser` and the name of the container. With `addLabel` in `MayFail` the property fails.
* `ReviewedHeadNotRequeued`: the comment "Order matters" of `successCleanupReviewer` is right. It is claimed for one
  orchestrator: with two, one detector acts on labels it listed before the other's reviewer
  finished. It also needs one reviewer slot or a lock label that lands (section 5).
* `HeadIsReviewed`, `ReviewIsAnswered`: what arrives during a dispatch is not lost, because the
  dispatch marks the head and the reviews it was started for, and not those of its end.
* `NoSilentDrop`: a pull request leaves the merge queue merged, blocked in the open, or because the
  reviewer has read a request for changes. `NoSilentStall`: it does not stay there with nothing done about
  it; it leaves, is blocked in the open, or is handed to the resolver. A hand-off is all the second one asks for:
  what comes of it depends on the resolver (see the end of section 4).
* `BoundedRetries`: a task that fails is dispatched at most `T + 1` times between two interventions
  with threshold `T` and one slot, and `n * T + n * (n - 1) / 2 + 2` times with `n > 1` slots (`RetryBound`). `T` alone is not
  the bound: the claim is released before the failure is recorded, `Tick` works through a list that is older than the
  label, and takes a missing label for one that somebody removed, so that each slot may count to `T` anew.
  A failed call of the quarantine label, or a failed release in the addresser's guard, starts the count again.
* `QueuedTaskGetsSlot`, `BrokenTaskIsQuarantined`: neither the ascending order of candidates nor the
  shared semaphore starves a task, since what fails is quarantined in the end, also when the label
  call failed once, or people removed the label. A task whose lock label or ref a failed call has left behind
  (`Stranded`) is excepted: no candidate, until the sweeper or a reset comes.
* `ResetRequeues`: after a successful reset no refs, tags or containers are left, and every item that
  had one is a candidate, even if earlier runs failed half-way. Two exceptions, named in the property. `late`: the branch of a
  container that pushes it between the listing of the refs and its kill; `Compute` lists branches before
  `Execute` kills containers, while the design orders the kill first. `lost`: a crew that stops between
  `RemoveLabel` of the queue label and `AddLabel` of the done label (`lifecycle.go:438-439`) leaves an item that only its lock
  ref tells of; a run of reset that deletes this ref and fails before it relabels leaves nothing for the next run to find.
  The design's "drops all cc-crew state and requeues every open issue/PR that had one" does not hold for that item.
* `ResetUnsticks`: with a reset after each stop queued work is taken up. It is the counterpart of `claim_queued`.

### Bounds, and why they are enough

* One item: the locks, tags and labels of different items do not interact; items meet only in
  the semaphore and in the order of candidates. (The proofs are for any number of items.)
  With one item the order of candidates is not exercised there; `pool` has three.
* Two orchestrators and three slots have every pair that `MutualExclusion` speaks of: two slots
  of one, slots of two, slot and shutdown. Three stops let one crash leave work, a second one
  interrupt its repair, and a third one follow.
* `MaxAge` and `TaskTimeout` of 1 or 2 put the age of a lock below, at and above a dispatch:
  the code only compares the two. In `claim_live` a dispatch may be as old as the reclaim age while it works, so its lock
  may go, as in the default configuration (what is older is treated alike); in `claim_young` and `claim_queued` it is below, so that reclaiming live
  work plays no part in what they show.
* Two heads: one reviewed and one pushed meanwhile. `MaxReviews = 1` in `review_loop` keeps it
  in memory: the property is about one review answered twice; two reviews are in `review_live`.
* In MergeLoop GitHub does not call the last head the bound allows BEHIND: its rebase would be a further
  head. DIRTY it may call any head, as often as it computes the status.
* `pool`: with one slot every dispatch competes with all others; the failing issue has the lowest number and
  the first scheduler. A threshold of 2 has a failure below it and one that reaches it. The bound of `BoundedRetries`
  grows with the slots; this run checks it for one, and RetriesBounded proves it for any number of slots and any
  threshold. The inductive invariant of that proof was checked on two and three slots and thresholds 1 and 2; with
  the other tasks and liveness these instances are too large to be runs.
* `reset`: the second stop interrupts the crew that a reset let start again; the aborted run makes a later one
  start from what an earlier one left. Label calls of reset succeed: the code ignores their errors after the refs have gone,
  and an item that was done would be in no queue.

### Fairness, and why the code justifies it

Weak fairness, with one exception. `LoopStep`: the main loop runs until it is cancelled and every call of it
returns. `SlotStep`: a dispatch goes on, since its container ends or `TaskTimeout` ends the wait for
it. `Restart`: whoever runs the crew starts it again. `Clock`: time goes on. In MergeLoop GitHub computes
mergeability and ends check runs, but no resolver need come. In WorkPool the sweeper need not come, and in
ReviewLoop it need not take a lock; containers that were left behind end some day (`OrphanEnds`). The exception is
`CreatesGetThrough` in `claim_live`: a sweeper and a loop whose `createRef` may fail get one through in the end (strong
fairness), for no property could hold of a GitHub that always fails. In CrewReset somebody runs reset when the crew has stopped, until it succeeds, and
starts the crew again (`ResetStep`, `RestartCrew`); in WorkPool no blocker need be closed and no label removed. Nothing is assumed of people, nor of agents but that their
containers end or time out: they need not post or push anything, whatever their exit code. `review_live` has no failures and crashes: the detector's flip is two
calls, and a failure between them leaves the pull request without either label.

## 4. Runs that find a disagreement

Each of these checks one property that states what a document, comment or message of the
repository says; the run has no more failures than it needs.

* `claim_young`, `OnlyOldWorkReclaimed` ("locks older than --reclaim-seconds", README.md:216). `Release`
  deletes the tags and then the lock. A sweep between the two sees a lock without tag and
  writes one (`reclaim.go:52`); the tag outlives the release and makes a later claim look as old as the tag.
* `claim_queued`, `QueuedWorkIsTaken` ("the next orchestrator picks the work back up"). A crash leaves the
  lock label on; the sweeper removes refs only, and the item is no candidate for ever.
* `claim_reaped`, `AbandonedLockReaped` ("`up` auto-reclaims locks older than `--reclaim-seconds`", README.md:216; "release failed after
  retries; reclaim sweeper will need to clean up", lifecycle.go:687). For mergers and resolvers there is no
  sweeper: a release that fails three times, or a crash, leaves a lock that only a reset removes. The instance is a
  resolver, one failing `deleteRef` call after the other and no crash.
* `review_cap`, `CapStopsAddressing` ("Bounded cycles per PR"). The reviewer puts the address label on by
  itself and the cap is in the detector only.
* `pool_worktree`, `ContainerKeepsWorktree` (`failCleanup` releases "so the scheduler can re-pick this item on the next
  tick"). After a failed container the claim is released before the worktree is removed, by path: with a second free slot the next
  dispatch may have made its own worktree there, and loses it under its container.

Further limits, seen while the passing runs were bounded, are in the hazards with what shows them:

* With `Hangs = TRUE` `MutualExclusion` fails, because nothing kills the container at the timeout; and a dispatch may prepare,
  replacing the worktree, beside the left-over container. `OneContainer` says so by its `~ Hangs`.
* Without its last disjunct `NoSilentStall` fails. A hand-off to the resolver need not lead anywhere: where none was
  started (`up.go:162`) the label stays on for ever, though `up.go:205` warns that "conflicts will be terminal"; and one that
  exits 0 without having pushed (`resolver.go:69` looks at the exit code only) gives the pull request back as it was, so
  that merger and resolver hand it to each other for ever. The auto-merger design asks for "no silent stalls" (line 21).
* With `addLabel` in `MayFail` `AnsweredOnce` and `NoSilentDrop` fail: `Tick` and `mergerTerminal` go on without the label.
* The merger may merge a head the resolver has pushed before the reviewer has seen it, about which the documents disagree.

## 5. What is proved

Every theorem is about the specification of its module and holds for every value of the constants that satisfies
the module's ASSUMEs; what more a theorem assumes is said with it. Every invariant and every
action property that a passing run checks is stated by one of them.

### Claims

* **TypeCorrect** (`TaskClaimProofs`): `Spec => [](TypeOK /\ Handshake)`. `TypeOK` alone is not
  inductive: `ClaimTag` uses the slot the loop has recorded, `Release` the item. `Handshake` says what the control
  state of loop and slots implies of each other (which slot a claim in progress has taken, that a release in
  progress has an item of the list it works off). One lemma per action, or per group of actions that change the
  same variables.
* **ClaimsExclude** (`ClaimExclusionProofs`):
  `Spec => [](MutualExclusion /\ WorkIsLocked)`, under three assumptions: the kind is not swept
  (merger and resolver), containers end by their timeout (`~ Hangs`), and deletions do not lose
  their answer. Each is needed: a sweeper reclaims live work; an orphan keeps working after the release;
  a repeated deletion deletes the next owner's lock. `claim_unswept` is an instance of it.

  The inductive invariant is `TypeOK`, `Handshake`, `MutualExclusion`, `WorkIsLocked` and
  `NoSweep` (no main loop is sweeping, and one that releases a lock does so in a shutdown, for an item it
  has inherited). The two properties need each other. A claim succeeds only where no lock ref is, so by
  `WorkIsLocked` nobody owned the item, so exclusion is kept; a lock ref is deleted only by the
  owner of the item, or by the shutdown that inherited it, so by exclusion no other owner loses its lock. The
  proof has one lemma for each step that makes, gives up or passes on an owner (claim, last
  deletion, shutdown, crash) and one for all steps that only move an owner along.

* **LocksStay**: the half of it that is about locks, `Spec => []WorkIsLocked`.
* **LockExcludes** (`WorkLock`): `Spec => []OneHolder`, for every set of machines and items: the rules of the abstract
  lock suffice for exclusion.
* **ClaimsImplementLock** (`ClaimLockProofs`): `Spec => ImplementsWorkLock`, under the assumptions of ClaimsExclude. A step of TaskClaim
  is either a claim, or it makes no new holder (`Shrinks`, from the lemmas of ClaimsExclude). Of the latter,
  those that leave the lock refs alone map to `Abandon` or a stutter. A deletion maps to `Release`; here the invariant is needed: the one who
  deletes is the only holder, so exactly one pair leaves `Held`. A claim maps to `Win`, to
  `WinUnknown` when its answer was lost, or to a stutter.

* **OneContainerPerItem** (`TaskClaimProofs`): `Spec => []OneContainer` for every kind, swept or not, with any number of slots,
  stops and failing calls, under three assumptions: one orchestrator, containers end by their timeout
  (`~ Hangs`: nothing kills the container otherwise), and `AddLabel` does not fail (`Tick` only logs its error). The lock is
  not in the argument, since a sweeper may take it from a dispatch. It is the label: `LabelKept` says
  that an item somebody is busy with carries the lock label, that no two labelled dispatches share an item, and
  that none shares it with an orphan; `ListIsFree` says that nobody is busy with what is on the list of the loop, as
  `listCandidates` leaves labelled items out, and that a shutdown finds no dispatch and no orphan.

### Reviews

* **ReviewTypeCorrect** (`ReviewLoopProofs`): `Spec => []TypeOK`, for any number of orchestrators, slots, heads, reviews,
  crashes and failures.
* **ReviewsAnsweredOnce**: `SafeLabels => (Spec => []AnsweredOnce)`, where `SafeLabels` is one orchestrator and `AddLabel` calls that do not
  fail; any other call may, at any time, the sweeper may take any lock, and containers may outlast timeouts and
  crashes. As in OneContainerPerItem the lock is not in the argument. The inductive invariant
  (`Inv` and `LockInv`) says: `SlotOK` (what is left of a cleanup is the end of its sequence); `LabelKept` and `LockedOnce` (a
  dispatch carries the lock label of its kind until its cleanup removes it, alone); `Unanswered` (the reviews
  an addresser was given have no marker). Markers are written before the label goes, and read under the label. `AloneAtWork` says that
  no addresser's container runs beside one that was left behind, because docker starts no second one of its name.
* **ReviewedIsNotRequeued**: `SafeCrew => (Spec => ReviewedHeadNotRequeued)`, an action property. While a reviewer has
  a head and no marker for it, `ReviewQueued` (with one reviewer slot) keeps the queue label on, or `ReviewLocked` (when
  `AddLabel` does not fail) the lock label; so the detector's copy, in `FlipOK`, shows one of them unless the marker
  was there before. `SafeCrew` is one orchestrator and either of the two. The second half is needed: with two reviewer slots and one failing `AddLabel`, a second reviewer claims from a list
  made while the first was at work, and has neither label on. TLC confirms it.

### Merges

* **MergeTypeCorrect** (`MergeLoopProofs`): `Spec => []TypeOK`.
* **NobodyDropsSilently**: `Spec => NoSilentDrop` if `AddLabel` does not fail. The code ignores its error when
  it escalates, and takes the queue label off all the same. The invariant says that a merger about to unqueue has merged or blocked
  the pull request (`MergerBlocked`), and that in what is left of a resolver's cleanup the block comes
  before the unqueue, or has taken place (`ResolverBlocked`).

### Pools and quarantine

* **PoolTypeCorrect** (`WorkPoolProofs`): `Spec => []TypeOK`.
* **OneDispatchByRef**: `Spec => [] OneDispatch(Kinds \ Outlive)`. No two dispatches with a worktree or a container have
  the same task, if its kind is not swept or ends its dispatches before the sweeper may take their claims; also when the
  lock label failed or the list is old. `LockOK` says that a dispatch which has not released has the ref, and has it alone.
* **OneDispatchByLabel**: `Spec => [] OneDispatch(Kinds)` if the calls that put lock labels on do not fail. This is the case of the default
  configuration, in which the sweeper takes the claims of implementers and addressers at work. `LabelOK` says that such a task
  carries the label, that nobody shares it, and that it is not in the list of the loop. One of the two
  assumptions is needed: with `Outlive = {"implementer"}` and failing lock label calls TLC finds two dispatches.
* **RetriesBounded**: `Spec => []BoundedRetries`, with no assumption: any schedulers, semaphores, number of
  slots, threshold, tasks that share a number, failing calls, claims taken by the sweeper. Types are not enough; the invariant counts. With `n` slots, of
  which `l` wait with their label call, the dispatches since the last help are at most `Sum(n, l) / 2`
  (`l` times the threshold, and the failures that were lost while the counter started anew: `n - 1`, then `n - 2`, ...), plus the
  failures counted now, plus those under way, plus one that was picked before that help. A failure turns one under way into one counted or
  lost; the failure that reaches the threshold turns a threshold's worth of counts into one more
  waiting label (`SumGrows`); once the label is on, at most one more dispatch comes from the old list.
  `CapIsBound` relates the last value to `RetryBound`.

### Reset

* **ResetTypeCorrect** (`CrewResetProofs`): `SystemSpec => [](TypeOK /\ ResetOK)`: crew and reset are well typed together, and the crew is down
  while reset works. The types of `TaskClaimProofs` carry over, as each step of the crew is a step of TaskClaim.
* **ResetDropsAndRequeues**: `SystemSpec => []ResetRequeues`, for one orchestrator, on the machine reset runs on (`OneHost`), and
  label calls that do not fail (the code ignores their errors after the refs have gone). The invariant says of each
  phase what the plan covers: the refs there are, but for the late ones (`RefsCovered`), the tags
  (`TagsCovered`), the containers (`ContainersCovered`), and for each item that is owed a place that it is queued, in the plan, or still
  has a mark by which the listings to come will find it (`ItemsCovered`). When a phase is over what it covered is gone, and a
  run that aborts leaves a mark on every item that it has not queued.

### What the proofs found

* The arms of `Cleanup` in ReviewLoop overlapped, so that CASE could have chosen either; they are disjoint now.
* `ReviewedHeadNotRequeued` had been claimed for one orchestrator; it needs `SafeCrew`.
* `AnsweredOnce` and `OneDispatch` had been proved from the lock, with a sweeper that leaves live locks alone. The sweeper of
  the code takes them; the proofs go by the lock label since, and need `AddLabel` to land, or in WorkPool
  dispatches that end before their claims are old.
* `BoundedRetries` counts anew after a failed release in the addresser's guard: the dispatch ends without success and
  without failure, and the quarantine does not count it.
* CrewReset had the done label put on in the step that takes the queue label off. With the two calls apart, `ResetRequeues`
  fails for an item that only its lock ref tells of when a run of reset fails after it deleted the ref: this is `lost`.
* `Enqueue` of WorkPool deleted the ref of a claim the loop had just won, as if people deleted a branch in that instant; the
  count of RetriesBounded was not inductive with it.

### What is only model-checked

* Liveness, which is out of the prover's reach as ENABLED is: `QueuedTaskGetsSlot`, `BrokenTaskIsQuarantined`,
  `HeadIsReviewed`, `ReviewIsAnswered`, `NoSilentStall`, `AbandonedLockReaped`, `CandidateIsTaken`, `ResetUnsticks`.
* The runs of section 4: each shows that its property does not hold.
* For swept kinds exclusion of claims does not hold (reclaiming live work is what the default configuration
  allows), and there is no theorem about it; what holds is OneContainerPerItem and OneDispatchByLabel. With two orchestrators `OneContainer` does not hold for them either.

## 6. Not modelled, and what is left

Left to model or to prove, in this order:

1. Pure algorithms against reference definitions: `latestReviewVerdict`, `snapshotUnaddressedReviews`,
   classification of check runs, `OldestTagAge`.
2. The claims of ReviewLoop and WorkPool as instances of WorkLock.
3. Two orchestrators on one host; the whole path of an issue from implementer to merge.

Not modelled, with the reason:

* status, init, configuration, output, sandbox: they read, print or set up and have no state of the protocol.
  Personas and images: the agent is external, and may post, push or open a pull request at any time.
* Pagination of the GitHub client, its command lines and its parsing; the first page is the whole list.
* Comments, and the environment and mounts of containers: no decision of the code depends on them.
* reset beside a running orchestrator: it takes live locks, and the documents ask to stop the crew first.
* A `docker ps` that fails at shutdown, other than as a `Crash`; the 30 s limit of the shutdown.
* `Scheduler.Run`, which nothing calls, and `github/fake.go`, which only the tests use.

Recursive operators stay out of every module that is proved about.
