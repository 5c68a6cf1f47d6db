----------------------------- MODULE ReviewLoop -----------------------------
(***************************************************************************)
(* The continuous loop around one pull request of the crew: the reviewer   *)
(* reviews a head, the detector queues addressing of what reviews ask for  *)
(* and a new review of every new head, and the addresser answers reviews   *)
(* with commits.  The parts talk through labels and marker refs on GitHub  *)
(* only; every call is one step, and the calls of detectors, ticks and     *)
(* dispatches of several orchestrators interleave.                         *)
(*                                                                         *)
(* A claim is one ref here: TaskClaim models how it is taken, tagged,      *)
(* retried and swept.                                                      *)
(***************************************************************************)
EXTENDS Integers, FiniteSets, Sequences

CONSTANTS
    Orchestrators,  \* processes running `cc-crew up --continuous'
    Reviewers,      \* reviewer slots
    Addressers,     \* implementer slots, which the addresser uses
    Home,           \* Home[s]: the orchestrator of slot s
    MaxCycles,      \* Options.MaxCycles, 0 for no cap
    MaxHead,        \* bound on the heads of the pull request
    MaxReviews,     \* bound on its reviews
    MaxStops,       \* bound on crashes
    PeoplePost,     \* the kinds of review people post
    PeopleAsk,      \* whether people put the review label on, any number of times
    Hangs,          \* whether a container may outlast the timeout of its dispatch
    MayFail         \* calls that may report an error having done nothing

Slots == Reviewers \cup Addressers
\* "prepare" stands for the worktree and the home directory of a container.
Calls == {"read", "createRef", "deleteRef", "addLabel", "removeLabel", "prepare"}

ReviewStates == {"APPROVED", "CHANGES_REQUESTED", "COMMENTED"}

ASSUME SlotsAssumption ==
    Reviewers \cap Addressers = {} /\ Home \in [Slots -> Orchestrators]
ASSUME BoundsAssumption ==
    /\ MaxCycles \in Nat /\ MaxHead \in Nat \ {0}
    /\ MaxReviews \in Nat /\ MaxStops \in Nat
ASSUME OutsideAssumption ==
    /\ MayFail \subseteq Calls /\ PeoplePost \subseteq ReviewStates
    /\ PeopleAsk \in BOOLEAN /\ Hangs \in BOOLEAN

VARIABLES
    head,        \* head commit of the pull request; every push makes the next
    labels,      \* its labels, without the prefix `claude-'
    reviews,     \* its reviews, oldest first; the index is the review ID
    addressed,   \* reviews with a marker ref cc-crew/addressed
    rereviewed,  \* heads with a marker ref cc-crew/rereviewed
    locks,       \* kinds whose lock ref exists for this pull request
    loop,        \* loop[o]: control state of the main loop of orchestrator o
    slot,        \* slot[s]: control state of the dispatch goroutine in slot s
    orphans,     \* orphans[o]: containers on the host of o that no dispatch waits for
    stops        \* crashes so far

vars == <<head, labels, reviews, addressed, rereviewed, locks, loop, slot, orphans, stops>>
pr == <<head, reviews>>
markers == <<addressed, rereviewed>>
hosts == <<orphans, stops>>

-----------------------------------------------------------------------------
Kinds == {"reviewer", "addresser"}
KindOf(s) == IF s \in Reviewers THEN "reviewer" ELSE "addresser"

QueueLabel(kind) == IF kind = "reviewer" THEN "review" ELSE "address"
LockLabel(kind)  == IF kind = "reviewer" THEN "reviewing" ELSE "addressing"
DoneLabel(kind)  == IF kind = "reviewer" THEN "reviewed" ELSE "addressed"
Labels == {"merge"} \cup {QueueLabel(k) : k \in Kinds}
                    \cup {LockLabel(k) : k \in Kinds} \cup {DoneLabel(k) : k \in Kinds}

Review == [state : ReviewStates, by : {"crew", "human"}]

Heads == 1 .. MaxHead
IDs == 1 .. MaxReviews

\* triggerStates: an approval asks for nothing.
Triggers == {id \in DOMAIN reviews : reviews[id].state # "APPROVED"}
Unaddressed == Triggers \ addressed
CapReached == MaxCycles > 0 /\ Cardinality(addressed) >= MaxCycles

Answers(call) == {"ok"} \cup (IF call \in MayFail THEN {"error"} ELSE {})

-----------------------------------------------------------------------------
(* What a dispatch has to do when its outcome is known, in order.          *)

\* (variant) The addresser releases its claim and drops its labels before the markers.
MarkersLast(kind, exit) ==
    CASE exit = "guard" -> <<"release", "unlock", "dequeue">>
      [] exit = "fail"  -> <<"unlock", "release">>
      [] exit = "ok" /\ kind = "reviewer" ->
            <<"mark", "verdict", "unlock", "dequeue", "done", "flag", "unflag", "release">>
      [] exit = "ok" /\ kind = "addresser" ->
            <<"unlock", "dequeue", "done", "release", "sha", "mark">>

\* (variant) The reviewer drops its labels before it writes its marker.
LabelsFirst(kind, exit) ==
    CASE exit = "guard" -> <<"release", "unlock", "dequeue">>
      [] exit = "fail"  -> <<"unlock", "release">>
      [] exit = "ok" /\ kind = "reviewer" ->
            <<"verdict", "unlock", "dequeue", "done", "flag", "unflag", "mark", "release">>
      [] exit = "ok" /\ kind = "addresser" ->
            <<"sha", "mark", "unlock", "dequeue", "done", "release">>

Cleanup(kind, exit) ==
    CASE exit = "guard" -> <<"release", "unlock", "dequeue">>
      [] exit = "fail"  -> <<"unlock", "release">>
      [] exit = "ok" /\ kind = "reviewer" ->
            <<"mark", "verdict", "unlock", "dequeue", "done", "flag", "unflag", "release">>
      [] exit = "ok" /\ kind = "addresser" ->
            <<"sha", "mark", "unlock", "dequeue", "done", "release">>

-----------------------------------------------------------------------------
(* State space.                                                            *)

SlotSteps == {"free", "claimed", "prep", "seen", "run", "clean"}
LoopSteps == {"sweep", "detect", "flip", "unreview", "requeue", "cycles", "unaddressed",
              "address", "tick", "claim", "mark", "down"}
CleanSteps == {"mark", "sha", "verdict", "unlock", "dequeue", "done", "flag", "unflag",
               "release"}

FreeSlot == [at |-> "free", sha |-> 0, ids |-> {}, unmarked |-> {}, posted |-> FALSE,
             verdict |-> "", exit |-> "none", todo |-> << >>]
LoopAt(step, kind) == [at |-> step, kind |-> kind, labels |-> {}, head |-> 0, seen |-> {}]

SlotStates == [at : SlotSteps, sha : Heads \cup {0}, ids : SUBSET IDs, unmarked : SUBSET IDs,
               posted : BOOLEAN, verdict : ReviewStates \cup {""},
               exit : {"none", "ok", "fail", "guard"}, todo : Seq(CleanSteps)]
LoopStates == [at : LoopSteps, kind : Kinds, labels : SUBSET Labels, head : Heads \cup {0},
               seen : SUBSET IDs]
Containers == [kind : Kinds, ids : SUBSET IDs, posted : BOOLEAN]

TypeOK ==
    /\ head \in Heads /\ labels \subseteq Labels
    /\ reviews \in Seq(Review) /\ Len(reviews) <= MaxReviews
    /\ addressed \subseteq IDs /\ rereviewed \subseteq Heads /\ locks \subseteq Kinds
    /\ loop \in [Orchestrators -> LoopStates] /\ slot \in [Slots -> SlotStates]
    /\ \A s \in Slots : slot[s].at = "clean" <=> slot[s].todo # << >>
    /\ orphans \in [Orchestrators -> SUBSET Containers] /\ stops \in 0 .. MaxStops

\* The implementer has opened the pull request, and auto-review has labelled it.
Init ==
    /\ head = 1 /\ labels = {"review"} /\ reviews = << >>
    /\ addressed = {} /\ rereviewed = {} /\ locks = {}
    /\ loop = [o \in Orchestrators |-> LoopAt("sweep", "reviewer")]
    /\ slot = [s \in Slots |-> FreeSlot]
    /\ orphans = [o \in Orchestrators |-> {}] /\ stops = 0

Label(call, answer, label) ==
    labels' = IF answer = "error" THEN labels
              ELSE IF call = "addLabel" THEN labels \cup {label} ELSE labels \ {label}

-----------------------------------------------------------------------------
(* The main loop: sweep and detect.  A failed call ends the detection.     *)

Continue(o, next) == loop' = [loop EXCEPT ![o] = next]
Step(o, step) == loop' = [loop EXCEPT ![o].at = step]
ToTick(o) == Continue(o, LoopAt("tick", "reviewer"))

\* Sweeper.IsDone: any review of the reviewer persona will do, of any head.
IsDone(kind) == kind = "reviewer" /\ \E id \in DOMAIN reviews : reviews[id].by = "crew"

\* The sweeper goes by the age of a lock alone: it takes that of a live dispatch as well,
\* which may last longer than a lock may grow old.
SweepLock(o, kind) ==
    /\ loop[o].at = "sweep"
    /\ kind \in locks /\ ~ IsDone(kind)
    /\ locks' = locks \ {kind}
    /\ UNCHANGED <<pr, labels, markers, loop, slot, hosts>>

SweepEnd(o) ==
    /\ loop[o].at = "sweep"
    /\ Step(o, "detect")
    /\ UNCHANGED <<pr, labels, markers, locks, slot, hosts>>

Detect(o) ==
    /\ loop[o].at = "detect"
    /\ \E answer \in Answers("read") :
         IF answer = "error" THEN ToTick(o)
         ELSE Continue(o, [LoopAt("flip", "reviewer") EXCEPT !.labels = labels, !.head = head])
    /\ UNCHANGED <<pr, labels, markers, locks, slot, hosts>>

\* On to maybeLabelAddress, which needs less of what Detect saw.
ToAddress(o) ==
    Continue(o, [loop[o] EXCEPT !.at = "cycles", !.head = 0,
                                !.labels = @ \cap {"address", "addressing"}])

\* maybeFlipToReview looks at the labels Detect saw and at the markers of now.
MaybeFlip(o) ==
    /\ loop[o].at = "flip"
    /\ IF "reviewed" \in loop[o].labels /\ loop[o].labels \cap {"review", "reviewing"} = {}
       THEN \E answer \in Answers("read") :
              IF answer = "error" THEN ToTick(o)
              ELSE IF loop[o].head \in rereviewed THEN ToAddress(o) ELSE Step(o, "unreview")
       ELSE ToAddress(o)
    /\ UNCHANGED <<pr, labels, markers, locks, slot, hosts>>

Unreview(o) ==
    /\ loop[o].at = "unreview"
    /\ \E answer \in Answers("removeLabel") :
         /\ Label("removeLabel", answer, "reviewed")
         /\ IF answer = "error" THEN ToTick(o) ELSE Step(o, "requeue")
    /\ UNCHANGED <<pr, markers, locks, slot, hosts>>

Requeue(o) ==
    /\ loop[o].at = "requeue"
    /\ \E answer \in Answers("addLabel") :
         /\ Label("addLabel", answer, "review")
         /\ IF answer = "error" THEN ToTick(o) ELSE ToAddress(o)
    /\ UNCHANGED <<pr, markers, locks, slot, hosts>>

\* maybeLabelAddress: addressedReviewIDs and the cap on cycles.
CountCycles(o) ==
    /\ loop[o].at = "cycles"
    /\ IF loop[o].labels \cap {"address", "addressing"} = {}
       THEN \E answer \in Answers("read") :
              IF answer = "error" \/ CapReached
              THEN ToTick(o)
              ELSE Continue(o, [loop[o] EXCEPT !.at = "unaddressed", !.seen = addressed])
       ELSE ToTick(o)
    /\ UNCHANGED <<pr, labels, markers, locks, slot, hosts>>

LookForUnaddressed(o) ==
    /\ loop[o].at = "unaddressed"
    /\ \E answer \in Answers("read") :
         IF answer = "error" \/ Triggers \subseteq loop[o].seen THEN ToTick(o)
         ELSE Step(o, "address")
    /\ UNCHANGED <<pr, labels, markers, locks, slot, hosts>>

LabelAddress(o) ==
    /\ loop[o].at = "address"
    /\ \E answer \in Answers("addLabel") : Label("addLabel", answer, "address")
    /\ ToTick(o)
    /\ UNCHANGED <<pr, markers, locks, slot, hosts>>

-----------------------------------------------------------------------------
(* The main loop: the ticks of the reviewer and of the addresser.          *)

TickNext(o) ==
    Continue(o, IF loop[o].kind = "reviewer" THEN LoopAt("tick", "addresser")
                                             ELSE LoopAt("sweep", "reviewer"))

Free(o, kind) == {s \in Slots : Home[s] = o /\ KindOf(s) = kind /\ slot[s].at = "free"}

\* listCandidates and the semaphore.
Tick(o) ==
    /\ loop[o].at = "tick"
    /\ LET kind == loop[o].kind
       IN  \E answer \in Answers("read") :
             IF /\ answer = "ok"
                /\ QueueLabel(kind) \in labels /\ LockLabel(kind) \notin labels
                /\ Free(o, kind) # {}
             THEN Step(o, "claim")
             ELSE TickNext(o)
    /\ UNCHANGED <<pr, labels, markers, locks, slot, hosts>>

\* TryClaim.  When the tag cannot be created after the lock was, the lock stays behind.
Claim(o) ==
    /\ loop[o].at = "claim"
    /\ LET kind == loop[o].kind
       IN  \/ /\ kind \notin locks
              /\ locks' = locks \cup {kind}
              /\ \E s \in Free(o, kind) : slot' = [slot EXCEPT ![s].at = "claimed"]
              /\ Step(o, "mark")
           \/ /\ kind \notin locks
              /\ \/ "createRef" \in MayFail /\ locks' \in {locks, locks \cup {kind}}
                 \/ "read" \in MayFail /\ UNCHANGED locks
              /\ TickNext(o)
              /\ UNCHANGED slot
           \/ /\ kind \in locks
              /\ TickNext(o)
              /\ UNCHANGED <<locks, slot>>
    /\ UNCHANGED <<pr, labels, markers, hosts>>

\* The lock label is best effort.
MarkAndDispatch(o) ==
    /\ loop[o].at = "mark"
    /\ \E answer \in Answers("addLabel") : Label("addLabel", answer, LockLabel(loop[o].kind))
    /\ \E s \in Slots :
         /\ Home[s] = o /\ KindOf(s) = loop[o].kind /\ slot[s].at = "claimed"
         /\ slot' = [slot EXCEPT ![s].at = "prep"]
    /\ TickNext(o)
    /\ UNCHANGED <<pr, markers, locks, hosts>>

-----------------------------------------------------------------------------
(* A dispatch up to the end of its container.                              *)

Conclude(s, exit) ==
    slot' = [slot EXCEPT ![s].at = "clean", ![s].exit = exit, ![s].posted = FALSE,
                         ![s].todo = Cleanup(KindOf(s), exit)]

\* The name of a container is made of its kind and pull request; docker starts no second
\* one of a name, and the dispatch fails.
NameTaken(s) ==
    \/ \E r \in Slots : Home[r] = Home[s] /\ KindOf(r) = KindOf(s) /\ slot[r].at = "run"
    \/ \E c \in orphans[Home[s]] : c.kind = KindOf(s)

\* GetPR; the addresser then lists the reviews and waits for the markers.
Prepare(s) ==
    /\ slot[s].at = "prep"
    /\ IF KindOf(s) = "addresser"
       THEN slot' = [slot EXCEPT ![s].at = "seen", ![s].ids = Triggers]
       ELSE IF NameTaken(s) THEN Conclude(s, "fail")
       ELSE slot' = [slot EXCEPT ![s].at = "run", ![s].sha = head]
    /\ UNCHANGED <<pr, labels, markers, locks, loop, hosts>>

\* snapshotUnaddressedReviews, the guard against an empty snapshot, and the container.
Snapshot(s) ==
    /\ slot[s].at = "seen"
    /\ IF slot[s].ids \subseteq addressed THEN Conclude(s, "guard")
       ELSE IF NameTaken(s) THEN Conclude(s, "fail")
       ELSE slot' = [slot EXCEPT ![s].at = "run", ![s].ids = @ \ addressed]
    /\ UNCHANGED <<pr, labels, markers, locks, loop, hosts>>

\* A step before the container fails, or the container does.
Fail(s) ==
    /\ \/ slot[s].at \in {"prep", "seen"} /\ MayFail \cap {"read", "prepare"} # {}
       \/ slot[s].at = "run"
    /\ Conclude(s, "fail")
    /\ UNCHANGED <<pr, labels, markers, locks, loop, hosts>>

Succeed(s) ==
    /\ slot[s].at = "run"
    /\ Conclude(s, "ok")
    /\ UNCHANGED <<pr, labels, markers, locks, loop, hosts>>

Container(s) == [kind |-> KindOf(s), ids |-> slot[s].ids, posted |-> slot[s].posted]
LeaveBehind(o, left) == orphans' = [orphans EXCEPT ![o] = @ \cup left]

\* The context of Run is over: the `docker run' client is killed, its container is not.
TimeOut(s) ==
    /\ Hangs /\ slot[s].at = "run"
    /\ Conclude(s, "fail")
    /\ LeaveBehind(Home[s], {Container(s)})
    /\ UNCHANGED <<pr, labels, markers, locks, loop, stops>>

\* The reviewer's container posts at most one review.
Post(s, state) ==
    /\ slot[s].at = "run" /\ KindOf(s) = "reviewer" /\ ~ slot[s].posted
    /\ Len(reviews) < MaxReviews
    /\ reviews' = Append(reviews, [state |-> state, by |-> "crew"])
    /\ slot' = [slot EXCEPT ![s].posted = TRUE]
    /\ UNCHANGED <<head, labels, markers, locks, loop, hosts>>

NewHead == head < MaxHead /\ head' = head + 1

\* The addresser's container pushes commits.
Push(s) ==
    /\ slot[s].at = "run" /\ KindOf(s) = "addresser"
    /\ NewHead
    /\ UNCHANGED <<reviews, labels, markers, locks, loop, slot, hosts>>

-----------------------------------------------------------------------------
(* The cleanup of a dispatch.                                              *)

At(s, step) == slot[s].at = "clean" /\ Head(slot[s].todo) = step

\* (variant) The slot is never given back.
RestKeepsSlot(s) == [slot[s] EXCEPT !.todo = Tail(@)]

\* The slot after its current step, and when there is nothing left to do.
Rest(s) ==
    IF Len(slot[s].todo) = 1 THEN FreeSlot ELSE [slot[s] EXCEPT !.todo = Tail(@)]
Done(s) == slot' = [slot EXCEPT ![s] = Rest(s)]

\* (variant) The head of now is marked.
CurrentHead(s) == head

\* The reviewer marks the head it was dispatched for.
MarkedHead(s) == slot[s].sha

\* (variant) The reviews of now are marked.
CurrentReviews(s) == Unaddressed

\* The addresser marks the reviews it was dispatched for.
MarkedReviews(s) == slot[s].ids

\* createRefWithRetry, whose final error is ignored.
MarkHead(s) ==
    /\ At(s, "mark") /\ KindOf(s) = "reviewer"
    /\ \E answer \in Answers("createRef") :
         rereviewed' = IF answer = "ok" THEN rereviewed \cup {MarkedHead(s)} ELSE rereviewed
    /\ Done(s)
    /\ UNCHANGED <<pr, labels, addressed, locks, loop, hosts>>

\* GetPR for the commit the markers point at.  Without it no marker can be created.
AskHead(s) ==
    /\ At(s, "sha")
    /\ \E answer \in Answers("read") :
         slot' = [slot EXCEPT ![s] = [Rest(s) EXCEPT
                     !.unmarked = IF answer = "ok" THEN MarkedReviews(s) ELSE {}]]
    /\ UNCHANGED <<pr, labels, markers, locks, loop, hosts>>

MarkReview(s) ==
    /\ At(s, "mark") /\ KindOf(s) = "addresser"
    /\ \E id \in slot[s].unmarked, answer \in Answers("createRef") :
         /\ addressed' = IF answer = "ok" THEN addressed \cup {id} ELSE addressed
         /\ slot' = [slot EXCEPT ![s].unmarked = @ \ {id}]
    /\ UNCHANGED <<pr, labels, rereviewed, locks, loop, hosts>>

AllMarked(s) ==
    /\ At(s, "mark") /\ KindOf(s) = "addresser" /\ slot[s].unmarked = {}
    /\ Done(s)
    /\ UNCHANGED <<pr, labels, markers, locks, loop, hosts>>

\* latestReviewVerdict: the latest review of anybody that is not a comment.
Verdicts == {id \in DOMAIN reviews : reviews[id].state # "COMMENTED"}
LatestVerdict ==
    IF Verdicts = {} THEN ""
    ELSE reviews[CHOOSE id \in Verdicts : \A other \in Verdicts : other <= id].state

AskVerdict(s) ==
    /\ At(s, "verdict")
    /\ \E answer \in Answers("read") :
         slot' = [slot EXCEPT ![s] = [Rest(s) EXCEPT
                     !.verdict = IF answer = "ok" THEN LatestVerdict ELSE ""]]
    /\ UNCHANGED <<pr, labels, markers, locks, loop, hosts>>

Unlock(s) ==
    /\ At(s, "unlock")
    /\ \E answer \in Answers("removeLabel") : Label("removeLabel", answer, LockLabel(KindOf(s)))
    /\ Done(s)
    /\ UNCHANGED <<pr, markers, locks, loop, hosts>>

Dequeue(s) ==
    /\ At(s, "dequeue")
    /\ \E answer \in Answers("removeLabel") : Label("removeLabel", answer, QueueLabel(KindOf(s)))
    /\ Done(s)
    /\ UNCHANGED <<pr, markers, locks, loop, hosts>>

AddDone(s) ==
    /\ At(s, "done")
    /\ \E answer \in Answers("addLabel") : Label("addLabel", answer, DoneLabel(KindOf(s)))
    /\ Done(s)
    /\ UNCHANGED <<pr, markers, locks, loop, hosts>>

\* An approval is for the merger, a request for changes is for the addresser.
Flag(s) ==
    /\ At(s, "flag")
    /\ \E answer \in Answers("addLabel") :
         CASE slot[s].verdict = "APPROVED"          -> Label("addLabel", answer, "merge")
           [] slot[s].verdict = "CHANGES_REQUESTED" -> Label("addLabel", answer, "address")
           [] OTHER                                 -> UNCHANGED labels
    /\ Done(s)
    /\ UNCHANGED <<pr, markers, locks, loop, hosts>>

Unflag(s) ==
    /\ At(s, "unflag")
    /\ \E answer \in Answers("removeLabel") :
         CASE slot[s].verdict = "APPROVED"          -> Label("removeLabel", answer, "address")
           [] slot[s].verdict = "CHANGES_REQUESTED" -> Label("removeLabel", answer, "merge")
           [] OTHER                                 -> UNCHANGED labels
    /\ Done(s)
    /\ UNCHANGED <<pr, markers, locks, loop, hosts>>

\* releaseWithRetry.  Only the guard looks at its outcome.
Release(s) ==
    /\ At(s, "release")
    /\ \E answer \in Answers("deleteRef") :
         /\ locks' = IF answer = "ok" THEN locks \ {KindOf(s)} ELSE locks
         /\ IF answer = "error" /\ slot[s].exit = "guard"
            THEN slot' = [slot EXCEPT ![s] = FreeSlot]
            ELSE Done(s)
    /\ UNCHANGED <<pr, labels, markers, loop, hosts>>

-----------------------------------------------------------------------------
(* Crashes, the containers they leave behind, and people.                  *)

\* The containers of a process that dies go on.
Crash(o) ==
    /\ loop[o].at # "down" /\ stops < MaxStops
    /\ stops' = stops + 1
    /\ Continue(o, LoopAt("down", "reviewer"))
    /\ slot' = [s \in Slots |-> IF Home[s] = o THEN FreeSlot ELSE slot[s]]
    /\ LeaveBehind(o, {Container(s) : s \in {r \in Slots : Home[r] = o /\ slot[r].at = "run"}})
    /\ UNCHANGED <<pr, labels, markers, locks>>

Restart(o) ==
    /\ loop[o].at = "down"
    /\ Continue(o, LoopAt("sweep", "reviewer"))
    /\ UNCHANGED <<pr, labels, markers, locks, slot, hosts>>

OrphanPosts(o, c, state) ==
    /\ c \in orphans[o] /\ c.kind = "reviewer" /\ ~ c.posted
    /\ Len(reviews) < MaxReviews
    /\ reviews' = Append(reviews, [state |-> state, by |-> "crew"])
    /\ orphans' = [orphans EXCEPT ![o] = (@ \ {c}) \cup {[c EXCEPT !.posted = TRUE]}]
    /\ UNCHANGED <<head, labels, markers, locks, loop, slot, stops>>

OrphanEnds(o, c) ==
    /\ c \in orphans[o]
    /\ orphans' = [orphans EXCEPT ![o] = @ \ {c}]
    /\ UNCHANGED <<pr, labels, markers, locks, loop, slot, stops>>

HumanReview(state) ==
    /\ Len(reviews) < MaxReviews
    /\ reviews' = Append(reviews, [state |-> state, by |-> "human"])
    /\ UNCHANGED <<head, labels, markers, locks, loop, slot, hosts>>

\* A person pushes, or an addresser's container that was left behind.
HumanPush ==
    /\ NewHead
    /\ UNCHANGED <<reviews, labels, markers, locks, loop, slot, hosts>>

\* Somebody asks for another review, when none is queued or under way.
AskForReview ==
    /\ PeopleAsk /\ labels \cap {"review", "reviewing"} = {}
    /\ labels' = labels \cup {"review"}
    /\ UNCHANGED <<pr, markers, locks, loop, slot, hosts>>

LoopStep(o) ==
    \/ SweepEnd(o) \/ Detect(o) \/ MaybeFlip(o) \/ Unreview(o) \/ Requeue(o)
    \/ CountCycles(o) \/ LookForUnaddressed(o) \/ LabelAddress(o)
    \/ Tick(o) \/ Claim(o) \/ MarkAndDispatch(o)

SlotStep(s) ==
    \/ Prepare(s) \/ Snapshot(s) \/ Fail(s) \/ Succeed(s) \/ TimeOut(s)
    \/ MarkHead(s) \/ AskHead(s) \/ MarkReview(s) \/ AllMarked(s) \/ AskVerdict(s)
    \/ Unlock(s) \/ Dequeue(s) \/ AddDone(s) \/ Flag(s) \/ Unflag(s) \/ Release(s)

Next ==
    \/ \E o \in Orchestrators :
         LoopStep(o) \/ Crash(o) \/ Restart(o) \/ \E kind \in Kinds : SweepLock(o, kind)
    \/ \E s \in Slots : SlotStep(s) \/ Push(s) \/ \E state \in ReviewStates : Post(s, state)
    \/ \E o \in Orchestrators : \E c \in orphans[o] :
         OrphanEnds(o, c) \/ \E state \in ReviewStates : OrphanPosts(o, c, state)
    \/ \E state \in PeoplePost : HumanReview(state)
    \/ HumanPush \/ AskForReview

Spec == Init /\ [][Next]_vars

\* The loop and the dispatches go on, containers end or time out and end then, and a
\* crashed orchestrator is started again.  Containers need not post or push anything.
Fairness ==
    /\ \A o \in Orchestrators :
         /\ WF_vars(LoopStep(o)) /\ WF_vars(Restart(o))
         /\ \A kind \in Kinds : WF_vars(\E c \in orphans[o] : c.kind = kind /\ OrphanEnds(o, c))
    /\ \A s \in Slots : WF_vars(SlotStep(s))

FairSpec == Spec /\ Fairness

-----------------------------------------------------------------------------
(* Correctness.                                                            *)

Answering(s) == s \in Addressers /\ slot[s].at = "run"

\* A review that was answered is not answered again: no container of a dispatch works on a
\* review that has its marker, and no two containers work on the same review, those
\* included that outlived their dispatch, also when the sweeper has taken a live lock
\* (successCleanupAddresser: markers before labels and lock).
AnsweredOnce ==
    /\ \A s \in Addressers : Answering(s) => slot[s].ids \cap addressed = {}
    /\ \A r, s \in Addressers :
         Answering(r) /\ Answering(s) /\ slot[r].ids \cap slot[s].ids # {} => r = s
    /\ \A s \in Addressers, o \in Orchestrators : \A c \in orphans[o] :
         Answering(s) /\ c.kind = "addresser" => slot[s].ids \cap c.ids = {}

\* The detector does not queue a head for review that was reviewed
\* (successCleanupReviewer: the marker before labels and lock).
ReviewedHeadNotRequeued ==
    [][\A o \in Orchestrators : Requeue(o) => loop[o].head \notin rereviewed]_vars

\* The crew stops answering reviews of a pull request at the cap.
CapStopsAddressing ==
    [][\A s \in Addressers : Snapshot(s) /\ slot'[s].at = "run" => ~ CapReached]_vars

\* Every head that stays is given to the reviewer, also one pushed during a review.
HeadIsReviewed ==
    \A h \in Heads :
        head = h /\ h \notin rereviewed
        ~> head # h \/ \E s \in Reviewers : slot[s].sha = h

\* Every review that asks for something is given to an addresser, also one posted
\* while an addresser works, or the cap is reached.
ReviewIsAnswered ==
    \A id \in IDs :
        id \in Unaddressed
        ~> CapReached \/ \E s \in Addressers : slot[s].at \in {"run", "clean"} /\ id \in slot[s].ids

=============================================================================
