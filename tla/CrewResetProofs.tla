--------------------------- MODULE CrewResetProofs ---------------------------
(***************************************************************************)
(* Proofs about CrewReset: the types of crew and reset together, for any   *)
(* number of orchestrators, and that a run of reset that succeeds has      *)
(* dropped and queued what the crew had left, wherever the crew stopped    *)
(* and however many runs failed before.                                    *)
(***************************************************************************)
EXTENDS CrewReset, TaskClaimProofs

\* The orchestrator makes no call of its own any more: it is down, or its shutdown is
\* releasing what it had.
Stopped(o) == loop[o].at = "down" \/ loop[o].why = "stop"

\* No dispatch outlives its orchestrator.
Halted == \A s \in Slots : Stopped(Home[s]) => slot[s].at = "free"

AllDown == \A o \in Orchestrators : loop[o].at = "down"

\* How far a run of reset has come.
Execution  == {"open", "relabel", "undone", "requeue", "clean"}
AfterMarks == {"ps", "kill", "refs", "open", "relabel", "undone", "requeue"}

\* The crew is down while reset works, and as long as anything is owed.
CrewIsDown == reset.at # "idle" \/ owed # {} => AllDown

\* The plan covers the refs and containers there are, but for the late branches; what it
\* has covered is gone when its phase is over.
RefsCovered ==
    /\ reset.at \in {"tags", "lockLabel", "doneLabel", "ps", "kill", "refs"}
         => lockRefs \subseteq reset.locks \cup late
    /\ reset.at \in Execution => lockRefs \subseteq late

TagsCovered ==
    /\ reset.at \in {"lockLabel", "doneLabel", "ps", "kill", "refs"}
         => \A i \in Items : \A age \in tags[i] : <<i, age>> \in reset.tags
    /\ reset.at \in Execution => \A i \in Items : tags[i] = {}

ContainersCovered ==
    /\ reset.at = "kill" => orphans[ResetHost] \subseteq reset.containers
    /\ reset.at \in {"refs"} \cup Execution => orphans[ResetHost] = {}

\* An item that is owed is queued, planned, or leaves a trace to plan it by.
ItemsCovered ==
    /\ reset.at \in {"locks", "tags", "lockLabel", "doneLabel", "ps", "kill"} => lost = {}
    /\ reset.at \in {"idle", "locks", "tags", "lockLabel", "doneLabel"} \cup (AfterMarks \ {"relabel", "undone", "requeue"})
         => owed \ lost \subseteq queueLabel \cup lockRefs \cup lockLabel \cup doneLabel
    /\ reset.at \in {"tags", "lockLabel"}
         => owed \subseteq queueLabel \cup reset.items \cup lockLabel \cup doneLabel
    /\ reset.at = "doneLabel"
         => lockLabel \subseteq reset.items /\ owed \subseteq queueLabel \cup reset.items \cup doneLabel
    /\ reset.at \in AfterMarks
         => lockLabel \subseteq reset.items /\ owed \subseteq queueLabel \cup reset.items
    /\ reset.at \in {"undone", "requeue"} => reset.item \notin lockLabel
    /\ reset.at = "clean" => lockLabel = {} /\ owed \subseteq queueLabel

-----------------------------------------------------------------------------
(* The crew: no dispatch outlives its orchestrator, and a crew that is     *)
(* down does nothing but let its containers work.                          *)

LEMMA OneLoopHalts ==
    ASSUME TypeOK, Halted, NEW o \in Orchestrators,
           \A p \in Orchestrators \ {o} : loop'[p] = loop[p],
           \A s \in Slots : Home[s] # o => slot'[s] = slot[s],
           Stopped(o)' => \A s \in Slots : Home[s] = o => slot'[s].at = "free"
    PROVE  Halted'
<1> SUFFICES ASSUME NEW s \in Slots, Stopped(Home[s])'
             PROVE  slot'[s].at = "free"
  BY DEF Halted
<1>1. Home[s] \in Orchestrators
  BY SetsAssumption
<1> QED BY <1>1 DEF Halted, Stopped

\* The loop goes on, at another step than "down" or for a shutdown that was under way.
GoesOn(o, l) == l.at = "down" \/ l.why = "stop" => loop[o].why = "stop"

LEMMA GoesOnHalted ==
    ASSUME TypeOK, Halted, NEW o \in Orchestrators, slot' = slot,
           NEW l, Continue(o, l), GoesOn(o, l)
    PROVE  Halted'
<1>1. loop'[o] = l /\ \A p \in Orchestrators \ {o} : loop'[p] = loop[p]
  BY DEF TypeOK, Continue
<1>2. Stopped(o)' => Stopped(o)
  BY <1>1 DEF Stopped, GoesOn
<1> QED BY <1>1, <1>2, OneLoopHalts DEF Halted

LEMMA GoesOnSteps ==
    ASSUME TypeOK, NEW o \in Orchestrators, NEW step \in LoopSteps \ {"down"}
    PROVE  /\ GoesOn(o, LoopAt(step)) /\ GoesOn(o, Skip(o, step))
           /\ \A todo : GoesOn(o, [LoopAt(step) EXCEPT !.todo = todo])
           /\ \A i : GoesOn(o, [loop[o] EXCEPT !.at = step, !.item = i])
           /\ \A ages : GoesOn(o, [loop[o] EXCEPT !.at = step, !.listed = ages])
           /\ GoesOn(o, [loop[o] EXCEPT !.at = step])
<1>1. /\ LoopAt(step).at = step /\ LoopAt(step).why = "work"
      /\ Skip(o, step).at = step /\ Skip(o, step).why = loop[o].why
      /\ \A todo : /\ [LoopAt(step) EXCEPT !.todo = todo].at = step
                   /\ [LoopAt(step) EXCEPT !.todo = todo].why = "work"
  BY DEF LoopAt, Skip
<1>2. loop[o] \in LoopStates
  BY DEF TypeOK
<1>3. /\ \A i : /\ [loop[o] EXCEPT !.at = step, !.item = i].at = step
                /\ [loop[o] EXCEPT !.at = step, !.item = i].why = loop[o].why
      /\ \A ages : /\ [loop[o] EXCEPT !.at = step, !.listed = ages].at = step
                   /\ [loop[o] EXCEPT !.at = step, !.listed = ages].why = loop[o].why
      /\ [loop[o] EXCEPT !.at = step].at = step
      /\ [loop[o] EXCEPT !.at = step].why = loop[o].why
  BY <1>2 DEF LoopStates
<1> QED BY <1>1, <1>3 DEF GoesOn

LEMMA SweepHalted ==
    ASSUME TypeOK, Halted, NEW o \in Orchestrators,
           Sweep(o) \/ SweepEnd(o) \/ SweepLock(o) \/ Retag(o) \/ AskDone(o)
    PROVE  Halted'
<1>1. slot' = slot
  BY DEF Sweep, SweepEnd, SweepLock, Retag, AskDone
<1>2. ASSUME NEW l, Continue(o, l), GoesOn(o, l) PROVE Halted'
  BY <1>1, <1>2, GoesOnHalted
<1>3. {"age", "tick", "retag", "isDone", "relList"} \subseteq LoopSteps \ {"down"}
  BY DEF LoopSteps
<1>4. CASE Sweep(o) \/ SweepEnd(o)
  BY <1>2, <1>3, <1>4, GoesOnSteps DEF Sweep, SweepEnd
<1>5. CASE SweepLock(o)
  <2>1. PICK i \in loop[o].todo :
          \/ Continue(o, LoopAt("tick"))
          \/ Continue(o, [LoopAt("age") EXCEPT !.todo = loop[o].todo \ {i}])
          \/ \E step \in {"retag", "isDone"} :
               Continue(o, [loop[o] EXCEPT !.at = step, !.item = i])
    BY <1>5 DEF SweepLock, Stale
  <2> QED BY <1>2, <1>3, <2>1, GoesOnSteps
<1>6. CASE Retag(o) \/ AskDone(o)
  BY <1>2, <1>3, <1>6, GoesOnSteps DEF Retag, AskDone
<1> QED BY <1>4, <1>5, <1>6

LEMMA LoopReleaseHalted ==
    ASSUME TypeOK, Handshake, Halted, NEW o \in Orchestrators,
           \/ LoopListTags(o) \/ LoopDeleteTag(o) \/ LoopDeleteLock(o)
           \/ StopTask(o) \/ StopEnd(o) \/ Restart(o)
    PROVE  Halted'
<1>1. slot' = slot
  BY DEF LoopListTags, LoopDeleteTag, LoopDeleteLock, StopTask, StopEnd, Restart
<1>2. ASSUME NEW l, Continue(o, l), GoesOn(o, l) PROVE Halted'
  BY <1>1, <1>2, GoesOnHalted
<1>3. {"age", "tick", "stop", "relList", "relRefs", "sweep"} \subseteq LoopSteps \ {"down"}
  BY DEF LoopSteps
<1>4. ASSUME NEW released \in BOOLEAN, Continue(o, AfterRelease(o, released))
      PROVE  Halted'
  BY <1>2, <1>3, <1>4, GoesOnSteps DEF AfterRelease
<1>5. CASE LoopListTags(o)
  BY <1>2, <1>3, <1>4, <1>5, GoesOnSteps DEF LoopListTags
<1>6. CASE LoopDeleteTag(o)
  <2>1. PICK age \in loop[o].listed :
          \/ Continue(o, [loop[o] EXCEPT !.listed = @ \ {age}])
          \/ Continue(o, AfterRelease(o, FALSE))
    BY <1>6 DEF LoopDeleteTag
  <2>2. [loop[o] EXCEPT !.listed = @ \ {age}]
          = [loop[o] EXCEPT !.at = "relRefs", !.listed = loop[o].listed \ {age}]
    BY <1>6 DEF LoopDeleteTag, TypeOK, LoopStates
  <2> QED BY <1>2, <1>3, <1>4, <2>1, <2>2, GoesOnSteps
<1>7. CASE LoopDeleteLock(o)
  BY <1>4, <1>7 DEF LoopDeleteLock
<1>8. CASE StopTask(o) \/ Restart(o)
  BY <1>2, <1>3, <1>8, GoesOnSteps DEF StopTask, Restart, LoopStart
<1>9. CASE StopEnd(o)
  <2>1. loop[o].why = "stop"
    BY <1>9 DEF StopEnd, Handshake, LoopOK
  <2> QED BY <1>2, <1>9, <2>1 DEF StopEnd, GoesOn
<1> QED BY <1>5, <1>6, <1>7, <1>8, <1>9

\* The steps of a tick: the loop stays in the tick, which is no part of a shutdown.
LEMMA TickHalted ==
    ASSUME TypeOK, Handshake, Halted, NEW o \in Orchestrators,
           Tick(o) \/ TickEnd(o) \/ Pick(o) \/ Claim(o) \/ ClaimTag(o) \/ MarkAndDispatch(o)
    PROVE  Halted'
<1>1. loop[o].why = "work"
  <2>1. loop[o].at \in {"tick", "pick", "claim", "tag", "mark"}
    BY DEF Tick, TickEnd, Pick, Claim, ClaimTag, MarkAndDispatch
  <2>2. loop[o].why # "stop"
    BY <2>1 DEF Handshake, LoopOK
  <2> QED BY <2>2 DEF TypeOK, LoopStates
<1>2. \A p \in Orchestrators \ {o} : loop'[p] = loop[p]
  <2>1. \E l : Continue(o, l)
    BY DEF Tick, TickEnd, Pick, Claim, ClaimTag, MarkAndDispatch
  <2> QED BY <2>1 DEF Continue, TypeOK
<1>3. \A s \in Slots : Home[s] # o => slot'[s] = slot[s]
  <2>1. CASE Tick(o) \/ TickEnd(o)
    BY <2>1 DEF Tick, TickEnd
  <2>2. CASE Pick(o)
    BY <2>2 DEF Pick, Free, TypeOK
  <2>3. CASE Claim(o) \/ ClaimTag(o) \/ MarkAndDispatch(o)
    <3>1. Home[loop[o].slot] = o
      BY <2>3 DEF Claim, ClaimTag, MarkAndDispatch, Handshake, LoopOK
    <3>2. \/ slot' = slot
          \/ \E t : slot' = [slot EXCEPT ![loop[o].slot] = t]
      BY <2>3 DEF Claim, ClaimTag, MarkAndDispatch, GiveUpSlot
    <3> QED BY <3>1, <3>2 DEF TypeOK
  <2> QED BY <2>1, <2>2, <2>3
<1>4. ~ Stopped(o)'
  <2>1. LoopStart \in LoopSteps \ {"down"} /\ "pick" \in LoopSteps
    BY DEF LoopStart, LoopSteps
  <2>2. CASE Continue(o, LoopAt(LoopStart)) \/ Continue(o, Skip(o, "pick"))
    BY <1>1, <2>1, <2>2, ResetMoves, SkipMoves DEF Stopped
  <2>3. CASE Continue(o, [LoopAt("pick") EXCEPT !.todo = Candidates])
    <3>1. loop'[o] = [LoopAt("pick") EXCEPT !.todo = Candidates]
      BY <2>3 DEF TypeOK, Continue
    <3> QED BY <3>1 DEF LoopAt, Stopped
  <2>4. CASE \E i, s : Continue(o, [loop[o] EXCEPT !.at = "claim", !.item = i, !.slot = s])
    BY <1>1, <2>4 DEF TypeOK, LoopStates, Continue, Stopped
  <2>5. CASE \E step \in {"tag", "mark"} : Continue(o, [loop[o] EXCEPT !.at = step])
    BY <1>1, <2>5 DEF TypeOK, LoopStates, Continue, Stopped
  <2> QED BY <2>2, <2>3, <2>4, <2>5 DEF Tick, TickEnd, Pick, Claim, ClaimTag, MarkAndDispatch
<1> QED BY <1>2, <1>3, <1>4, OneLoopHalts

LEMMA ProcessEndsHalted ==
    ASSUME TypeOK, Halted, NEW o \in Orchestrators, Shutdown(o) \/ Crash(o)
    PROVE  Halted'
<1>1. \A p \in Orchestrators \ {o} : loop'[p] = loop[p]
  BY DEF Shutdown, Crash, Continue, TypeOK
<1>2. \A s \in Slots : slot'[s] = IF Home[s] = o THEN FreeSlot ELSE slot[s]
  BY DEF Shutdown, Crash, HaltSlots
<1> QED BY <1>1, <1>2, OneLoopHalts, FreeIsUnmarked

\* A step of a dispatch takes no slot that was free.
LEMMA SlotStepHalted ==
    ASSUME TypeOK, Halted, NEW s \in Slots, SlotStep(s)
    PROVE  Halted' /\ slot[s].at # "free"
<1>1. loop' = loop /\ slot[s].at # "free"
  BY DEF SlotStep, Launch, End, TimeOut, Unmark, Dequeue, ListTags, DeleteTag, DeleteLock, KeepLock
<1>2. \A r \in Slots \ {s} : slot'[r] = slot[r]
  BY DEF SlotStep, Launch, End, TimeOut, Unmark, Dequeue, ListTags, DeleteTag, DeleteLock,
         KeepLock, Do, Go, RetryRelease, TypeOK
<1> QED BY <1>1, <1>2 DEF Halted, Stopped

\* Nothing moves loops and slots but their own steps; time only lets their lists age.
LEMMA OutsideKeepsStates ==
    ASSUME TypeOK,
           \/ Clock \/ UNCHANGED vars
           \/ \E i \in Items :
                \/ Requeue(i) \/ ClosePR(i)
                \/ \E o \in Orchestrators : Produce(o, i) \/ OrphanEnds(o, i)
    PROVE  /\ \A s \in Slots : slot'[s].at = slot[s].at
           /\ \A o \in Orchestrators : loop'[o].at = loop[o].at /\ loop'[o].why = loop[o].why
<1>1. CASE Clock
  <2>1. ASSUME NEW s \in Slots PROVE slot'[s].at = slot[s].at
    <3> DEFINE ran == IF slot[s].at \in Dispatched THEN slot[s].ran + 1 ELSE slot[s].ran
    <3>1. slot[s] \in SlotStates
      BY DEF TypeOK
    <3>2. slot'[s] = [slot[s] EXCEPT !.listed = Older(slot[s].listed), !.ran = ran]
      BY <1>1, <3>1 DEF Clock, SlotStates
    <3> QED BY <3>1, <3>2 DEF SlotStates
  <2>2. ASSUME NEW o \in Orchestrators
        PROVE  loop'[o].at = loop[o].at /\ loop'[o].why = loop[o].why
    <3>1. loop[o] \in LoopStates
      BY DEF TypeOK
    <3>2. loop'[o] = [loop[o] EXCEPT !.listed = Older(loop[o].listed)]
      BY <1>1 DEF Clock
    <3> QED BY <3>1, <3>2 DEF LoopStates
  <2> QED BY <2>1, <2>2
<1>2. CASE ~ Clock
  BY <1>2 DEF vars, Requeue, ClosePR, Produce, OrphanEnds
<1> QED BY <1>1, <1>2

LEMMA StepHalted ==
    ASSUME TypeOK, Handshake, Halted, [Next]_vars
    PROVE  Halted'
<1>1. ASSUME NEW o \in Orchestrators, LoopStep(o) PROVE Halted'
  BY <1>1, SweepHalted, LoopReleaseHalted, TickHalted DEF LoopStep
<1>2. ASSUME NEW o \in Orchestrators, Shutdown(o) \/ Crash(o) \/ Restart(o) PROVE Halted'
  BY <1>2, ProcessEndsHalted, LoopReleaseHalted
<1>3. ASSUME NEW s \in Slots, SlotStep(s) PROVE Halted'
  BY <1>3, SlotStepHalted
<1>4. CASE \/ Clock \/ UNCHANGED vars
           \/ \E i \in Items :
                \/ Requeue(i) \/ ClosePR(i)
                \/ \E o \in Orchestrators : Produce(o, i) \/ OrphanEnds(o, i)
  <2>1. \A s \in Slots : Home[s] \in Orchestrators
    BY SetsAssumption
  <2> QED BY <1>4, <2>1, OutsideKeepsStates DEF Halted, Stopped
<1>5. CASE UNCHANGED vars
  BY <1>4, <1>5
<1>6. CASE Next
  BY <1>1, <1>2, <1>3, <1>4, <1>6 DEF Next
<1> QED BY <1>5, <1>6

-----------------------------------------------------------------------------
(* The plan of a run, step by step.                                        *)

PhaseSet == {"locks", "tags", "lockLabel", "doneLabel", "ps", "kill", "refs", "open", "relabel"}

LEMMA PhasesNamed ==
    /\ DOMAIN Phases = 1 .. 9 /\ Len(Phases) = 9
    /\ Phases[1] = "locks" /\ Phases[2] = "tags" /\ Phases[3] = "lockLabel"
    /\ Phases[4] = "doneLabel" /\ Phases[5] = "ps" /\ Phases[6] = "kill"
    /\ Phases[7] = "refs" /\ Phases[8] = "open" /\ Phases[9] = "relabel"
BY DEF Phases

LEMMA PhasesCounted ==
    /\ {Phases[n] : n \in DOMAIN Phases} = PhaseSet
    /\ \A m, n \in DOMAIN Phases : Phases[m] = Phases[n] => m = n
<1>1. \A n \in 1 .. 9 : n \in {1, 2, 3, 4, 5, 6, 7, 8, 9}
  OBVIOUS
<1> QED BY <1>1, PhasesNamed DEF PhaseSet

LEMMA PhaseFollows ==
    ASSUME NEW n \in 1 .. 9
    PROVE  NextPhase(Phases[n]) = IF n = 9 THEN "clean" ELSE Phases[n + 1]
<1> DEFINE m == CHOOSE m \in DOMAIN Phases : Phases[m] = Phases[n]
<1>1. m \in DOMAIN Phases /\ Phases[m] = Phases[n]
  BY PhasesNamed
<1>2. m = n
  BY <1>1, PhasesNamed, PhasesCounted
<1> HIDE DEF m
<1>3. NextPhase(Phases[n]) = IF m = Len(Phases) THEN "clean" ELSE Phases[m + 1]
  BY DEF NextPhase, m
<1> QED BY <1>2, <1>3, PhasesNamed

LEMMA NextPhases ==
    /\ NextPhase("locks") = "tags" /\ NextPhase("tags") = "lockLabel"
    /\ NextPhase("lockLabel") = "doneLabel" /\ NextPhase("doneLabel") = "ps"
    /\ NextPhase("ps") = "kill" /\ NextPhase("kill") = "refs"
    /\ NextPhase("refs") = "open" /\ NextPhase("open") = "relabel"
    /\ NextPhase("relabel") = "clean"
<1>1. \A n \in 1 .. 9 : NextPhase(Phases[n]) = IF n = 9 THEN "clean" ELSE Phases[n + 1]
  BY PhaseFollows
<1> QED BY <1>1, PhasesNamed

PlanAfter(at, items, locks, tagRefs, containers, item) ==
    reset' = [at |-> at, items |-> items, locks |-> locks, tags |-> tagRefs,
              containers |-> containers, item |-> item]

LEMMA PlanIsRecord ==
    ASSUME ResetOK
    PROVE  reset = [at |-> reset.at, items |-> reset.items, locks |-> reset.locks,
                    tags |-> reset.tags, containers |-> reset.containers, item |-> reset.item]
BY DEF ResetOK

LEMMA NoPlanIsRecord ==
    ASSUME NEW at, reset' = NoPlan(at)
    PROVE  PlanAfter(at, {}, {}, {}, {}, None)
BY DEF NoPlan, PlanAfter

\* What each listing call adds to the plan.
LEMMA ListingPlans ==
    ASSUME ResetOK
    PROVE
      /\ ListLocks => Abort \/ PlanAfter("tags", lockRefs, lockRefs, reset.tags,
                                         reset.containers, reset.item)
      /\ ListTagRefs => Abort \/ PlanAfter("lockLabel", reset.items, reset.locks,
                                           UNION {{i} \X tags[i] : i \in Items},
                                           reset.containers, reset.item)
      /\ ListMarked => Abort \/ PlanAfter("doneLabel", reset.items \cup lockLabel, reset.locks,
                                          reset.tags, reset.containers, reset.item)
      /\ ListDone => Abort \/ PlanAfter("ps", reset.items \cup doneLabel, reset.locks, reset.tags,
                                        reset.containers, reset.item)
      /\ ListContainers => Abort \/ PlanAfter("kill", reset.items, reset.locks, reset.tags,
                                              Containers(ResetHost), reset.item)
      /\ ListOpen => Abort \/ PlanAfter("relabel", reset.items, reset.locks, reset.tags,
                                        reset.containers, reset.item)
BY PlanIsRecord, NextPhases
DEF ListLocks, ListTagRefs, ListMarked, ListDone, ListContainers, ListOpen, Listing, PlanAfter

\* What each call of Execute takes off the plan.
LEMMA ExecutionPlans ==
    ASSUME ResetOK, NEW i, NEW age
    PROVE
      /\ Proceed => \E at \in {"refs", "open", "clean"} :
           /\ at = NextPhase(reset.at)
           /\ PlanAfter(at, reset.items, reset.locks, reset.tags, reset.containers, reset.item)
      /\ KillContainer(i) =>
           \/ Abort /\ orphans' = orphans
           \/ /\ PlanAfter("kill", reset.items, reset.locks, reset.tags,
                           reset.containers \ {i}, reset.item)
              /\ orphans' = [orphans EXCEPT ![ResetHost] = @ \ {i}]
              /\ aborts' = aborts
      /\ DeleteLockRef(i) =>
           \/ Abort /\ UNCHANGED <<lockRefs, finished, lost>>
           \/ /\ PlanAfter("refs", reset.items, reset.locks \ {i}, reset.tags,
                           reset.containers, reset.item)
              /\ DropLock(i) /\ lost' = lost \cup (KnownByLock \cap {i})
              /\ aborts' = aborts
      /\ DeleteTagRef(i, age) =>
           \/ Abort /\ tags' = tags
           \/ /\ PlanAfter("refs", reset.items, reset.locks, reset.tags \ {<<i, age>>},
                           reset.containers, reset.item)
              /\ DropTag(i, age) /\ aborts' = aborts
      /\ RemoveLockLabel(i) => PlanAfter("undone", reset.items, reset.locks, reset.tags,
                                         reset.containers, i)
      /\ RemoveDoneLabel => PlanAfter("requeue", reset.items, reset.locks, reset.tags,
                                      reset.containers, reset.item)
      /\ AddQueueLabel => PlanAfter("relabel", reset.items \ {reset.item}, reset.locks,
                                    reset.tags, reset.containers, None)
<1>1. Proceed => reset' = [reset EXCEPT !.at = NextPhase(@)]
                 /\ NextPhase(reset.at) \in {"refs", "open", "clean"}
  BY NextPhases DEF Proceed
<1> QED BY <1>1, PlanIsRecord
    DEF KillContainer, DeleteLockRef, DeleteTagRef, RemoveLockLabel, RemoveDoneLabel,
        AddQueueLabel, PlanAfter

-----------------------------------------------------------------------------
(* Every reachable state of crew and reset is well typed, and the crew is  *)
(* down while reset works.                                                 *)

\* When the items are relabelled the refs of the plan are deleted, and half-way through
\* an item there is one.
Settled ==
    /\ reset.at \in Execution => reset.locks = {}
    /\ reset.at \in {"undone", "requeue"} => reset.item \in Items

Typed == TypeOK /\ Handshake /\ Halted /\ CrewIsDown /\ ResetOK /\ Settled

Modes == {"idle", "clean", "undone", "requeue"} \cup PhaseSet

LEMMA PlanTyped ==
    ASSUME NEW at \in Modes, NEW items \in SUBSET Items, NEW locks \in SUBSET items,
           NEW tagRefs \in SUBSET (Items \X Ages), NEW containers \in SUBSET Items,
           NEW item \in Items \cup {None},
           PlanAfter(at, items, locks, tagRefs, containers, item),
           doneLabel' \subseteq Items, owed' \subseteq Items, lost' \subseteq Items,
           late' \subseteq Items, aborts' \in 0 .. MaxAborts, CrewIsDown',
           at \in Execution => locks = {}, at \in {"undone", "requeue"} => item \in Items
    PROVE  ResetOK' /\ Settled'
<1>1. /\ reset'.at = at /\ reset'.items = items /\ reset'.locks = locks /\ reset'.item = item
      /\ reset' \in [at : Modes, items : SUBSET Items, locks : SUBSET Items,
                     tags : SUBSET (Items \X Ages), containers : SUBSET Items,
                     item : Items \cup {None}]
  BY DEF PlanAfter
<1>2. Modes = {"idle", "clean", "undone", "requeue"} \cup {Phases[n] : n \in DOMAIN Phases}
  BY PhasesCounted DEF Modes
<1>3. {Phases[n] : n \in DOMAIN Phases}' = {Phases[n] : n \in DOMAIN Phases}
  BY DEF Phases
<1> QED BY <1>1, <1>2, <1>3 DEF ResetOK, Settled, CrewIsDown, AllDown

\* Nothing of the crew but GitHub and the left-over containers changes.
LEMMA SameCrew ==
    ASSUME TypeOK, Handshake, Halted, GithubOK', loop' = loop, slot' = slot
    PROVE  TypeOK' /\ Handshake' /\ Halted'
BY DEF TypeOK, GithubOK, Handshake, LoopOK, SlotOK, Halted, Stopped

LEMMA AbortTyped ==
    ASSUME Typed, Abort, TypeOK', Handshake', Halted', loop' = loop,
           UNCHANGED <<doneLabel, owed, late>>, lost' \subseteq Items
    PROVE  Typed'
<1>1. PlanAfter("idle", {}, {}, {}, {}, None)
  BY NoPlanIsRecord DEF Abort
<1>2. CrewIsDown'
  BY <1>1 DEF Abort, Typed, CrewIsDown, AllDown, PlanAfter, ResetOK
<1>3. aborts' \in 0 .. MaxAborts
  BY ResetAssumption DEF Abort, Typed, ResetOK
<1> QED BY <1>1, <1>2, <1>3, PlanTyped DEF Typed, Modes, ResetOK, Execution

\* A crew that is down and not restarted: containers work and end, time passes, and
\* people work with GitHub.
LEMMA DownSteps ==
    ASSUME TypeOK, Halted, AllDown, Next, \A o \in Orchestrators : ~ Restart(o)
    PROVE  \/ Clock
           \/ \E i \in Items :
                \/ Requeue(i) \/ ClosePR(i)
                \/ \E o \in Orchestrators : Produce(o, i) \/ OrphanEnds(o, i)
<1>1. ASSUME NEW o \in Orchestrators PROVE ~ LoopStep(o)
  <2>1. loop[o].at = "down"
    BY DEF AllDown
  <2> QED BY <2>1 DEF LoopStep, Sweep, SweepEnd, SweepLock, Retag, AskDone, LoopListTags, LoopDeleteTag,
       LoopDeleteLock, Tick, TickEnd, Pick, Claim, ClaimTag, MarkAndDispatch, StopTask, StopEnd
<1>2. ASSUME NEW o \in Orchestrators PROVE ~ Shutdown(o) /\ ~ Crash(o)
  BY DEF AllDown, Shutdown, Crash
<1>3. ASSUME NEW s \in Slots PROVE ~ SlotStep(s)
  <2>1. slot[s].at = "free"
    BY SetsAssumption DEF Halted, Stopped, AllDown
  <2> QED BY <2>1, SlotStepHalted
<1> QED BY <1>1, <1>2, <1>3 DEF Next

LEMMA DownStays ==
    ASSUME TypeOK, Halted, AllDown, Next, \A o \in Orchestrators : ~ Restart(o)
    PROVE  AllDown'
BY DownSteps, OutsideKeepsStates DEF AllDown

LEMMA AgedPlan ==
    ASSUME ResetOK, CrewStep
    PROVE  \E tagRefs \in SUBSET (Items \X Ages) :
             /\ PlanAfter(reset.at, reset.items, reset.locks, tagRefs, reset.containers, reset.item)
             /\ ~ Clock => tagRefs = reset.tags
             /\ Clock => \A i \in Items, age \in Ages :
                           <<i, age>> \in reset.tags => {i} \X (Older({age}) \cap Ages) \subseteq tagRefs
<1>1. reset.tags \subseteq Items \X Ages
  BY DEF ResetOK
<1>2. CASE Clock
  <2> DEFINE tagRefs == {<<p[1], age>> : p \in reset.tags, age \in Ages}
                           \cap UNION {{p[1]} \X Older({p[2]}) : p \in reset.tags}
  <2>1. tagRefs \subseteq Items \X Ages
    BY <1>1
  <2>2. reset' = [reset EXCEPT !.tags = tagRefs]
    BY <1>2 DEF CrewStep, Aged
  <2>3. ASSUME NEW i \in Items, NEW age \in Ages, <<i, age>> \in reset.tags,
               NEW older \in Older({age}) \cap Ages
        PROVE  <<i, older>> \in tagRefs
    <3>1. <<i, age>>[1] = i /\ <<i, age>>[2] = age
      OBVIOUS
    <3>2. <<i, older>> \in {<<p[1], a>> : p \in reset.tags, a \in Ages}
      BY <2>3, <3>1
    <3>3. <<i, older>> \in {<<i, age>>[1]} \X Older({<<i, age>>[2]})
      BY <2>3, <3>1
    <3> QED BY <2>3, <3>2, <3>3
  <2> HIDE DEF tagRefs
  <2>4. PlanAfter(reset.at, reset.items, reset.locks, tagRefs, reset.containers, reset.item)
    BY <2>2, PlanIsRecord DEF PlanAfter
  <2> QED BY <1>2, <2>1, <2>3, <2>4
<1>3. CASE ~ Clock
  BY <1>1, <1>3, PlanIsRecord DEF CrewStep, PlanAfter
<1> QED BY <1>2, <1>3

LEMMA CrewStepTyped ==
    ASSUME Typed, CrewStep
    PROVE  Typed'
<1>1. TypeOK' /\ Handshake' /\ Halted'
  BY StepTyped, StepHalted DEF Typed, CrewStep
<1>2. doneLabel' \subseteq Items
  <2>1. \A s \in Slots : Finishes(s) => slot[s].item \in Items
    BY DEF Finishes, ListTags, Typed, Handshake, SlotOK, Dispatched, SlotSteps
  <2>2. doneLabel \subseteq Items
    BY DEF Typed, ResetOK
  <2> QED BY <2>1, <2>2 DEF CrewStep, DoneAfter
<1>3. owed' \subseteq owed /\ late' \subseteq Items /\ lost' = lost /\ aborts' = aborts
  BY <1>1 DEF CrewStep, Typed, ResetOK, TypeOK
<1>4. PICK tagRefs \in SUBSET (Items \X Ages) :
        PlanAfter(reset.at, reset.items, reset.locks, tagRefs, reset.containers, reset.item)
  BY AgedPlan DEF Typed
<1>5. CrewIsDown'
  <2>1. reset'.at = reset.at
    BY <1>4 DEF PlanAfter
  <2>2. AllDown => AllDown'
    BY DownStays DEF CrewStep, Typed
  <2> QED BY <1>3, <2>1, <2>2 DEF CrewIsDown, Typed
<1>6. reset.at \in Modes /\ reset.items \in SUBSET Items /\ reset.locks \in SUBSET reset.items
      /\ reset.containers \in SUBSET Items /\ reset.item \in Items \cup {None}
      /\ owed \subseteq Items /\ lost \subseteq Items /\ aborts \in 0 .. MaxAborts
  BY PhasesCounted DEF Typed, ResetOK, Modes
<1>7. /\ reset.at \in Execution => reset.locks = {}
      /\ reset.at \in {"undone", "requeue"} => reset.item \in Items
  BY DEF Typed, Settled
<1>8. ResetOK' /\ Settled'
  BY <1>2, <1>3, <1>4, <1>5, <1>6, <1>7, PlanTyped
<1> QED BY <1>1, <1>5, <1>8 DEF Typed

LEMMA RestartTyped ==
    ASSUME Typed, NEW o \in Orchestrators, RestartCrew(o)
    PROVE  Typed'
<1>1. Next
  BY DEF RestartCrew, Next
<1>2. TypeOK' /\ Handshake' /\ Halted'
  BY <1>1, StepTyped, StepHalted DEF Typed
<1>3. /\ PlanAfter("idle", {}, {}, {}, {}, None)
      /\ owed' = {} /\ lost' = {} /\ late' = {} /\ doneLabel' = doneLabel /\ aborts' = aborts
  BY NoPlanIsRecord DEF RestartCrew
<1>4. CrewIsDown'
  BY <1>3 DEF CrewIsDown, PlanAfter
<1>5. ResetOK' /\ Settled'
  BY <1>3, <1>4, PlanTyped DEF Typed, ResetOK, Modes, Execution
<1> QED BY <1>2, <1>4, <1>5 DEF Typed

\* The steps of Compute and the call that lists what is open change nothing but the plan.
LEMMA ListingTyped ==
    ASSUME Typed,
           StartReset \/ ListLocks \/ ListTagRefs \/ ListMarked \/ ListDone \/ ListContainers \/ ListOpen
    PROVE  Typed'
<1>1. UNCHANGED vars /\ doneLabel' = doneLabel
  BY DEF StartReset, ListLocks, ListTagRefs, ListMarked, ListDone, ListContainers, ListOpen, Listing
<1>2. TypeOK' /\ Handshake' /\ Halted'
  BY <1>1, StepTyped, StepHalted DEF Typed
<1>3. TypeOK /\ ResetOK /\ CrewIsDown /\ Settled /\ loop' = loop
  BY <1>1 DEF Typed, vars
<1>4. CASE StartReset
  <2>1. PlanAfter("locks", {}, {}, {}, {}, None)
    BY <1>4, NoPlanIsRecord, PhasesNamed DEF StartReset
  <2>2. AllDown
    BY <1>4 DEF StartReset, AllDown
  <2>3. CrewIsDown'
    BY <1>3, <2>2 DEF CrewIsDown, AllDown
  <2>4. owed' \subseteq Items /\ lost' = {} /\ late' = {} /\ aborts' \in 0 .. MaxAborts
    BY <1>3, <1>4 DEF StartReset, ResetOK, TypeOK
  <2>5. "locks" \in Modes /\ "locks" \notin Execution /\ doneLabel' \subseteq Items
    BY <1>1, <1>3 DEF Modes, PhaseSet, Execution, ResetOK
  <2>6. ResetOK' /\ Settled'
    BY <2>1, <2>3, <2>4, <2>5, PlanTyped
  <2> QED BY <1>2, <2>3, <2>6 DEF Typed
<1>5. CASE ~ StartReset /\ Abort
  <2>1. UNCHANGED <<doneLabel, owed, lost, late>>
    BY <1>5 DEF ListLocks, ListTagRefs, ListMarked, ListDone, ListContainers, ListOpen, Listing
  <2> QED BY <1>2, <1>3, <1>5, <2>1, AbortTyped DEF ResetOK
<1>6. CASE ~ StartReset /\ ~ Abort
  <2>1. UNCHANGED <<doneLabel, owed, lost, late, aborts>> /\ reset.at \in PhaseSet
    BY <1>6 DEF ListLocks, ListTagRefs, ListMarked, ListDone, ListContainers, ListOpen, Listing, PhaseSet
  <2>2. CrewIsDown'
    BY <1>3, <2>1 DEF CrewIsDown, AllDown, PhaseSet
  <2>3. /\ lockRefs \subseteq Items /\ lockLabel \subseteq Items /\ doneLabel \subseteq Items
        /\ UNION {{i} \X tags[i] : i \in Items} \subseteq Items \X Ages
        /\ Containers(ResetHost) \subseteq Items
    BY <1>3, ContainersTyped, ResetAssumption DEF Typed, TypeOK, ResetOK
  <2>4. /\ reset.items \subseteq Items /\ reset.locks \subseteq reset.items
        /\ reset.tags \subseteq Items \X Ages /\ reset.containers \subseteq Items
        /\ reset.item \in Items \cup {None}
        /\ owed \subseteq Items /\ lost \subseteq Items /\ late \subseteq Items /\ aborts \in 0 .. MaxAborts
    BY <1>3 DEF ResetOK
  <2>5. ListOpen => reset.locks = {}
    BY <1>3 DEF ListOpen, Listing, Settled, Execution
  <2>6. /\ {"tags", "lockLabel", "doneLabel", "ps", "kill", "relabel"} \subseteq Modes
        /\ \A at \in {"tags", "lockLabel", "doneLabel", "ps", "kill"} : at \notin Execution
    BY DEF Modes, PhaseSet, Execution
  <2> DEFINE Planned(at, items, locks, tagRefs, containers, item) ==
        /\ PlanAfter(at, items, locks, tagRefs, containers, item)
        /\ at \in Modes /\ items \subseteq Items /\ locks \subseteq items
        /\ tagRefs \subseteq Items \X Ages /\ containers \subseteq Items
        /\ item \in Items \cup {None} /\ (at \in Execution => locks = {})
        /\ (at \in {"undone", "requeue"} => item \in Items)
  <2>7. \E at, items, locks, tagRefs, containers, item :
          Planned(at, items, locks, tagRefs, containers, item)
    <3>1. CASE ListLocks
      <4>1. Planned("tags", lockRefs, lockRefs, reset.tags, reset.containers, reset.item)
        BY <1>3, <1>6, <2>3, <2>4, <2>6, <3>1, ListingPlans
      <4> QED BY <4>1
    <3>2. CASE ListTagRefs
      <4>1. Planned("lockLabel", reset.items, reset.locks, UNION {{i} \X tags[i] : i \in Items},
                    reset.containers, reset.item)
        BY <1>3, <1>6, <2>3, <2>4, <2>6, <3>2, ListingPlans
      <4> QED BY <4>1
    <3>3. CASE ListMarked
      <4>1. Planned("doneLabel", reset.items \cup lockLabel, reset.locks, reset.tags,
                    reset.containers, reset.item)
        BY <1>3, <1>6, <2>3, <2>4, <2>6, <3>3, ListingPlans
      <4> QED BY <4>1
    <3>4. CASE ListDone
      <4>1. Planned("ps", reset.items \cup doneLabel, reset.locks, reset.tags,
                    reset.containers, reset.item)
        BY <1>3, <1>6, <2>3, <2>4, <2>6, <3>4, ListingPlans
      <4> QED BY <4>1
    <3>5. CASE ListContainers
      <4>1. Planned("kill", reset.items, reset.locks, reset.tags, Containers(ResetHost), reset.item)
        BY <1>3, <1>6, <2>3, <2>4, <2>6, <3>5, ListingPlans
      <4> QED BY <4>1
    <3>6. CASE ListOpen
      <4>1. Planned("relabel", reset.items, reset.locks, reset.tags, reset.containers, reset.item)
        BY <1>3, <1>6, <2>3, <2>4, <2>5, <2>6, <3>6, ListingPlans
      <4> QED BY <4>1
    <3> QED BY <1>6, <3>1, <3>2, <3>3, <3>4, <3>5, <3>6
  <2>8. ResetOK' /\ Settled'
    BY <2>1, <2>2, <2>3, <2>4, <2>7, PlanTyped
  <2> QED BY <1>2, <2>2, <2>8 DEF Typed
<1> QED BY <1>4, <1>5, <1>6

LEMMA ExecutionTyped ==
    ASSUME Typed, NEW i, NEW age,
           \/ Proceed \/ KillContainer(i) \/ DeleteLockRef(i) \/ DeleteTagRef(i, age)
           \/ RemoveLockLabel(i) \/ RemoveDoneLabel \/ AddQueueLabel
    PROVE  Typed'
<1>1. loop' = loop /\ slot' = slot /\ owed' = owed /\ late' = late
  BY DEF Proceed, KillContainer, DeleteLockRef, DeleteTagRef, RemoveLockLabel, RemoveDoneLabel,
         AddQueueLabel, vars
<1>2. TypeOK /\ Handshake /\ Halted /\ CrewIsDown /\ ResetOK /\ Settled
  BY DEF Typed
<1>3. GithubOK'
  <2>1. GithubOK
    BY <1>2 DEF GithubOK, TypeOK
  <2>2. CASE Proceed \/ RemoveDoneLabel
    BY <2>1, <2>2 DEF Proceed, RemoveDoneLabel, vars, GithubOK
  <2>3. CASE KillContainer(i)
    BY <2>1, <2>3 DEF KillContainer, github, GithubOK
  <2>4. CASE DeleteLockRef(i)
    BY <2>1, <2>4 DEF DeleteLockRef, DropLock, GithubOK
  <2>5. CASE DeleteTagRef(i, age)
    BY <2>1, <2>5 DEF DeleteTagRef, DropTag, GithubOK
  <2>6. CASE RemoveLockLabel(i)
    BY <2>1, <2>6 DEF RemoveLockLabel, GithubOK
  <2>7. CASE AddQueueLabel
    <3>1. queueLabel' \subseteq Items
      BY <2>1, <2>7, <1>2 DEF AddQueueLabel, GithubOK, Settled
    <3> QED BY <2>1, <2>7, <3>1 DEF AddQueueLabel, GithubOK
  <2> QED BY <2>2, <2>3, <2>4, <2>5, <2>6, <2>7
<1>4. TypeOK' /\ Handshake' /\ Halted'
  BY <1>1, <1>2, <1>3, SameCrew
<1>5. /\ doneLabel' \subseteq Items /\ lost' \subseteq Items
      /\ owed \subseteq Items /\ late \subseteq Items
  <2>1. doneLabel \subseteq Items /\ lost \subseteq Items /\ owed \subseteq Items /\ late \subseteq Items
    BY <1>2 DEF ResetOK
  <2>2. CASE DeleteLockRef(i)
    BY <1>2, <2>1, <2>2 DEF DeleteLockRef, KnownByLock, TypeOK
  <2>3. CASE ~ DeleteLockRef(i)
    BY <2>1, <2>3 DEF Proceed, KillContainer, DeleteTagRef, RemoveLockLabel, RemoveDoneLabel, AddQueueLabel
  <2> QED BY <2>2, <2>3
<1>6. CASE Abort
  <2>1. doneLabel' = doneLabel
    <3>1. aborts' # aborts
      BY <1>2, <1>6, ResetAssumption DEF Abort, ResetOK
    <3> QED BY <3>1 DEF Proceed, KillContainer, DeleteLockRef, DeleteTagRef, RemoveLockLabel,
                        RemoveDoneLabel, AddQueueLabel
  <2> QED BY <1>1, <1>4, <1>5, <1>6, <2>1, AbortTyped
<1>7. CASE ~ Abort
  <2>1. aborts' = aborts
    BY <1>7 DEF Proceed, KillContainer, DeleteLockRef, DeleteTagRef, RemoveLockLabel, RemoveDoneLabel,
                AddQueueLabel
  <2>2. CrewIsDown'
    <3>1. reset.at # "idle"
      BY DEF Proceed, KillContainer, DeleteLockRef, DeleteTagRef, RemoveLockLabel, RemoveDoneLabel,
             AddQueueLabel
    <3> QED BY <1>1, <1>2, <3>1 DEF CrewIsDown, AllDown
  <2>3. /\ reset.items \subseteq Items /\ reset.locks \subseteq reset.items
        /\ reset.tags \subseteq Items \X Ages /\ reset.containers \subseteq Items
        /\ reset.item \in Items \cup {None} /\ aborts \in 0 .. MaxAborts
    BY <1>2 DEF ResetOK
  <2>4. /\ {"refs", "open", "clean", "kill", "undone", "requeue", "relabel"} \subseteq Modes
        /\ \A at \in {"refs", "open", "clean"} : at \notin {"undone", "requeue"}
        /\ "refs" \notin Execution /\ "kill" \notin Execution
    BY DEF Modes, PhaseSet, Execution
  <2> DEFINE Planned(at, items, locks, tagRefs, containers, item) ==
        /\ PlanAfter(at, items, locks, tagRefs, containers, item)
        /\ at \in Modes /\ items \subseteq Items /\ locks \subseteq items
        /\ tagRefs \subseteq Items \X Ages /\ containers \subseteq Items
        /\ item \in Items \cup {None} /\ (at \in Execution => locks = {})
        /\ (at \in {"undone", "requeue"} => item \in Items)
  <2>5. \E at, items, locks, tagRefs, containers, item :
          Planned(at, items, locks, tagRefs, containers, item)
    <3>1. CASE Proceed
      <4>1. NextPhase(reset.at) \in Execution => reset.locks = {}
        BY <1>2, <3>1, NextPhases DEF Proceed, Settled, Execution
      <4>2. PICK at \in {"refs", "open", "clean"} :
              /\ at = NextPhase(reset.at)
              /\ PlanAfter(at, reset.items, reset.locks, reset.tags, reset.containers, reset.item)
        BY <1>2, <3>1, ExecutionPlans
      <4>3. Planned(at, reset.items, reset.locks, reset.tags, reset.containers, reset.item)
        BY <2>3, <2>4, <4>1, <4>2
      <4> QED BY <4>3
    <3>2. CASE KillContainer(i)
      <4>1. Planned("kill", reset.items, reset.locks, reset.tags, reset.containers \ {i}, reset.item)
        BY <1>2, <1>7, <2>3, <2>4, <3>2, ExecutionPlans
      <4> QED BY <4>1
    <3>3. CASE DeleteLockRef(i)
      <4>1. Planned("refs", reset.items, reset.locks \ {i}, reset.tags, reset.containers, reset.item)
        BY <1>2, <1>7, <2>3, <2>4, <3>3, ExecutionPlans
      <4> QED BY <4>1
    <3>4. CASE DeleteTagRef(i, age)
      <4>1. Planned("refs", reset.items, reset.locks, reset.tags \ {<<i, age>>}, reset.containers, reset.item)
        BY <1>2, <1>7, <2>3, <2>4, <3>4, ExecutionPlans
      <4> QED BY <4>1
    <3>5. reset.at \in Execution => reset.locks = {}
      BY <1>2 DEF Settled
    <3>6. CASE RemoveLockLabel(i)
      <4>1. reset.locks = {}
        BY <3>5, <3>6 DEF RemoveLockLabel, Execution
      <4>2. i \in Items
        BY <1>2, <3>6 DEF RemoveLockLabel, ResetOK
      <4>3. Planned("undone", reset.items, reset.locks, reset.tags, reset.containers, i)
        BY <1>2, <2>3, <2>4, <3>6, <4>1, <4>2, ExecutionPlans
      <4> QED BY <4>3
    <3>7. CASE RemoveDoneLabel
      <4>1. reset.locks = {}
        BY <3>5, <3>7 DEF RemoveDoneLabel, Execution
      <4>3. reset.item \in Items
        BY <1>2, <3>7 DEF RemoveDoneLabel, Settled
      <4>2. Planned("requeue", reset.items, reset.locks, reset.tags, reset.containers, reset.item)
        BY <1>2, <2>3, <2>4, <3>7, <4>1, <4>3, ExecutionPlans
      <4> QED BY <4>2
    <3>8. CASE AddQueueLabel
      <4>1. reset.locks = {}
        BY <3>5, <3>8 DEF AddQueueLabel, Execution
      <4>2. Planned("relabel", reset.items \ {reset.item}, reset.locks, reset.tags, reset.containers, None)
        BY <1>2, <2>3, <2>4, <3>8, <4>1, ExecutionPlans
      <4> QED BY <4>2
    <3> QED BY <3>1, <3>2, <3>3, <3>4, <3>6, <3>7, <3>8
  <2>6. ResetOK' /\ Settled'
    BY <1>1, <1>5, <2>1, <2>2, <2>3, <2>5, PlanTyped
  <2> QED BY <1>4, <2>2, <2>6 DEF Typed
<1> QED BY <1>6, <1>7

LEMMA SystemInitTyped == SystemInit => Typed
<1> SUFFICES ASSUME SystemInit PROVE Typed
  OBVIOUS
<1>1. TypeOK /\ Handshake
  BY InitTyped DEF SystemInit
<1>2. Halted
  <2>1. \A s \in Slots : slot[s] = FreeSlot
    BY DEF SystemInit, Init
  <2> QED BY <2>1, FreeIsUnmarked DEF Halted
<1>3. reset = NoPlan("idle") /\ owed = {}
  BY DEF SystemInit
<1>4. reset.at = "idle"
  BY <1>3 DEF NoPlan
<1>5. CrewIsDown /\ Settled
  BY <1>3, <1>4 DEF CrewIsDown, Settled, Execution
<1>6. ResetOK
  BY <1>3, ResetAssumption DEF SystemInit, ResetOK, NoPlan
<1> QED BY <1>1, <1>2, <1>5, <1>6 DEF Typed

LEMMA SystemStepTyped ==
    ASSUME Typed, [SystemNext]_systemVars
    PROVE  Typed'
<1>1. CASE UNCHANGED systemVars
  <2>1. UNCHANGED vars /\ UNCHANGED <<doneLabel, reset, aborts, owed, lost, late>>
    BY <1>1 DEF systemVars
  <2>2. TypeOK' /\ Handshake' /\ Halted'
    BY <2>1, StepTyped, StepHalted DEF Typed
  <2>3. loop' = loop
    BY <2>1 DEF vars
  <2>4. {Phases[n] : n \in DOMAIN Phases}' = {Phases[n] : n \in DOMAIN Phases}
    BY DEF Phases
  <2> QED BY <2>1, <2>2, <2>3, <2>4 DEF Typed, CrewIsDown, AllDown, ResetOK, Settled
<1>2. CASE ResetStep
  <2>1. CASE \E i \in Items, age \in Ages : DeleteTagRef(i, age)
    BY <2>1, ExecutionTyped
  <2>2. CASE \E i \in Items : KillContainer(i) \/ DeleteLockRef(i) \/ RemoveLockLabel(i)
    <3>1. ASSUME NEW i, NEW age, KillContainer(i) \/ DeleteLockRef(i) \/ RemoveLockLabel(i)
          PROVE  Typed'
      BY <3>1, ExecutionTyped
    <3> QED BY <2>2, <3>1
  <2>3. CASE Proceed \/ RemoveDoneLabel \/ AddQueueLabel
    <3>1. ASSUME NEW i, NEW age PROVE Typed'
      BY <2>3, ExecutionTyped
    <3> QED BY <2>3, <3>1
  <2> QED BY <1>2, <2>1, <2>2, <2>3, ListingTyped DEF ResetStep
<1> QED BY <1>1, <1>2, CrewStepTyped, RestartTyped DEF SystemNext

\* Crew and reset are well typed together, the plan of a run holds what its phase
\* allows, and while reset works every orchestrator is down.
THEOREM ResetTypeCorrect == SystemSpec => [](TypeOK /\ ResetOK)
<1>1. Typed => TypeOK /\ ResetOK
  BY DEF Typed
<1>2. Typed /\ [SystemNext]_systemVars => Typed'
  BY SystemStepTyped
<1> QED BY <1>1, <1>2, SystemInitTyped, PTL DEF SystemSpec

-----------------------------------------------------------------------------
(* What a run lists covers what there is, and nothing new comes up behind  *)
(* its back, but for the late branches.                                    *)

Covered == RefsCovered /\ TagsCovered /\ ContainersCovered /\ ItemsCovered

OneHost == \A o \in Orchestrators : o = ResetHost

LEMMA DownContainers ==
    ASSUME Halted, AllDown, NEW o \in Orchestrators
    PROVE  Containers(o) = orphans[o]
<1>1. \A s \in Slots : slot[s].at = "free"
  BY SetsAssumption DEF Halted, Stopped, AllDown
<1> QED BY <1>1 DEF Containers

\* What a crew that is down may change under a run of reset.
LEMMA DownChanges ==
    ASSUME OneHost, Typed, CrewStep, AllDown
    PROVE  /\ lockLabel' = lockLabel /\ doneLabel' = doneLabel /\ queueLabel \subseteq queueLabel'
           /\ orphans'[ResetHost] \subseteq orphans[ResetHost]
           /\ lockRefs' \subseteq lockRefs \cup orphans[ResetHost]
           /\ tags' = IF Clock THEN [i \in Items |-> Older(tags[i])] ELSE tags
<1>1. \/ Clock
      \/ \E i \in Items :
           \/ Requeue(i) \/ ClosePR(i)
           \/ \E o \in Orchestrators : Produce(o, i) \/ OrphanEnds(o, i)
  BY DownSteps DEF CrewStep, Typed
<1>2. \A s \in Slots : ~ Finishes(s)
  <2>1. \A s \in Slots : slot[s].at = "free"
    BY SetsAssumption DEF Typed, Halted, Stopped, AllDown
  <2> QED BY <2>1 DEF Finishes, ListTags
<1>3. doneLabel' = doneLabel
  BY <1>2 DEF CrewStep, DoneAfter
<1>4. lockLabel' = lockLabel /\ queueLabel \subseteq queueLabel'
      /\ tags' = IF Clock THEN [i \in Items |-> Older(tags[i])] ELSE tags
  <2>1. CASE Clock
    BY <2>1 DEF Clock
  <2>2. CASE ~ Clock
    BY <1>1, <2>2 DEF Requeue, ClosePR, Produce, OrphanEnds, github
  <2> QED BY <2>1, <2>2
<1>5. orphans'[ResetHost] \subseteq orphans[ResetHost]
  <2>1. CASE \E i \in Items, o \in Orchestrators : OrphanEnds(o, i)
    BY <2>1, ResetAssumption DEF OrphanEnds, Typed, TypeOK
  <2>2. CASE ~ \E i \in Items, o \in Orchestrators : OrphanEnds(o, i)
    BY <1>1, <2>2 DEF Clock, Requeue, ClosePR, Produce
  <2> QED BY <2>1, <2>2
<1>6. lockRefs' \subseteq lockRefs \cup orphans[ResetHost]
  <2>1. CASE \E i \in Items, o \in Orchestrators : Produce(o, i)
    <3>1. PICK i \in Items, o \in Orchestrators : Produce(o, i)
      BY <2>1
    <3>2. i \in orphans[ResetHost]
      BY <3>1, DownContainers DEF Produce, OneHost, Typed
    <3> QED BY <3>1, <3>2 DEF Produce
  <2>2. CASE ~ \E i \in Items, o \in Orchestrators : Produce(o, i)
    BY <1>1, <2>2 DEF Clock, Requeue, ClosePR, OrphanEnds, github
  <2> QED BY <2>1, <2>2
<1> QED BY <1>3, <1>4, <1>5, <1>6

LEMMA OlderElements ==
    ASSUME NEW ages \in SUBSET Ages, NEW older \in Older(ages)
    PROVE  \E age \in ages : older \in Older({age}) /\ older \in Ages
<1>1. older \in Ages
  BY OlderTyped
<1> QED BY <1>1 DEF Older

LEMMA AgedTagsCovered ==
    ASSUME Typed, TagsCovered, CrewStep,
           tags' = IF Clock THEN [i \in Items |-> Older(tags[i])] ELSE tags
    PROVE  TagsCovered'
<1>1. PICK tagRefs \in SUBSET (Items \X Ages) :
        /\ PlanAfter(reset.at, reset.items, reset.locks, tagRefs, reset.containers, reset.item)
        /\ ~ Clock => tagRefs = reset.tags
        /\ Clock => \A i \in Items, age \in Ages :
                      <<i, age>> \in reset.tags => {i} \X (Older({age}) \cap Ages) \subseteq tagRefs
  BY AgedPlan DEF Typed
<1>2. reset'.at = reset.at /\ reset'.tags = tagRefs
  BY <1>1 DEF PlanAfter
<1>3. CASE ~ Clock
  BY <1>1, <1>2, <1>3 DEF TagsCovered
<1>4. CASE Clock
  <2>1. \A i \in Items : tags'[i] = Older(tags[i]) /\ tags[i] \in SUBSET Ages
    BY <1>4 DEF Typed, TypeOK
  <2>2. ASSUME reset.at \in {"lockLabel", "doneLabel", "ps", "kill", "refs"},
               NEW i \in Items, NEW older \in tags'[i]
        PROVE  <<i, older>> \in tagRefs
    <3>1. PICK age \in tags[i] : older \in Older({age}) \cap Ages
      BY <2>1, OlderElements
    <3>2. <<i, age>> \in reset.tags /\ age \in Ages
      BY <2>1, <2>2 DEF TagsCovered
    <3>3. {i} \X (Older({age}) \cap Ages) \subseteq tagRefs
      BY <1>1, <1>4, <3>2
    <3> QED BY <3>1, <3>3
  <2>3. ASSUME reset.at \in Execution, NEW i \in Items PROVE tags'[i] = {}
    <3>1. tags[i] = {}
      BY <2>3 DEF TagsCovered
    <3> QED BY <2>1, <3>1 DEF Older
  <2> QED BY <1>2, <2>2, <2>3 DEF TagsCovered
<1> QED BY <1>3, <1>4

LEMMA CrewStepCovered ==
    ASSUME OneHost, Typed, Typed', Covered, CrewStep
    PROVE  Covered'
<1>1. /\ reset'.at = reset.at /\ reset'.items = reset.items /\ reset'.locks = reset.locks
      /\ reset'.containers = reset.containers /\ reset'.item = reset.item
  <2>1. PICK tagRefs \in SUBSET (Items \X Ages) :
          PlanAfter(reset.at, reset.items, reset.locks, tagRefs, reset.containers, reset.item)
    BY AgedPlan DEF Typed
  <2> QED BY <2>1 DEF PlanAfter
<1>2. /\ owed' = owed \ (KnownByLock \ lockRefs') /\ lost' = lost
      /\ late' = late \cup IF reset.at \in BeforeDeletion THEN lockRefs' \ lockRefs ELSE {}
  BY DEF CrewStep
<1>3. CASE reset.at = "idle" /\ owed = {}
  BY <1>1, <1>2, <1>3
  DEF Covered, RefsCovered, TagsCovered, ContainersCovered, ItemsCovered, Execution, AfterMarks
<1>4. CASE reset.at # "idle" \/ owed # {}
  <2>1. AllDown
    BY <1>4 DEF Typed, CrewIsDown
  <2>2. /\ lockLabel' = lockLabel /\ doneLabel' = doneLabel /\ queueLabel \subseteq queueLabel'
        /\ orphans'[ResetHost] \subseteq orphans[ResetHost]
        /\ lockRefs' \subseteq lockRefs \cup orphans[ResetHost]
        /\ tags' = IF Clock THEN [i \in Items |-> Older(tags[i])] ELSE tags
    BY <2>1, DownChanges
  <2>3. TagsCovered'
    BY <2>2, AgedTagsCovered DEF Covered
  <2>4. ContainersCovered'
    BY <1>1, <2>2 DEF Covered, ContainersCovered
  <2>5. RefsCovered'
    <3>1. CASE reset.at \in BeforeDeletion
      BY <1>1, <1>2, <3>1 DEF Covered, RefsCovered, BeforeDeletion, Execution
    <3>2. CASE reset.at \in {"refs"} \cup Execution
      BY <1>1, <1>2, <2>2, <3>2 DEF Covered, RefsCovered, ContainersCovered, BeforeDeletion, Execution
    <3>3. CASE reset.at \notin BeforeDeletion \cup {"refs"} \cup Execution
      BY <1>1, <3>3 DEF RefsCovered, BeforeDeletion, Execution
    <3> QED BY <3>1, <3>2, <3>3
  <2>6. ItemsCovered'
    BY <1>1, <1>2, <2>2 DEF Covered, ItemsCovered, KnownByLock, AfterMarks
  <2> QED BY <2>3, <2>4, <2>5, <2>6 DEF Covered
<1> QED BY <1>3, <1>4

LEMMA RestartCovered ==
    ASSUME NEW o \in Orchestrators, RestartCrew(o)
    PROVE  Covered'
<1>1. PlanAfter("idle", {}, {}, {}, {}, None) /\ owed' = {}
  BY NoPlanIsRecord DEF RestartCrew
<1> QED BY <1>1
    DEF PlanAfter, Covered, RefsCovered, TagsCovered, ContainersCovered, ItemsCovered,
        Execution, AfterMarks

\* What a failed run leaves is found by the next one, or given up as lost.
LEMMA AbortCovered ==
    ASSUME Covered, Abort, reset.at \in PhaseSet \ {"relabel"},
           UNCHANGED <<lockRefs, queueLabel, lockLabel, doneLabel, owed, lost>>
    PROVE  Covered'
<1>1. reset'.at = "idle"
  BY NoPlanIsRecord DEF Abort, PlanAfter
<1>2. owed \ lost \subseteq queueLabel \cup lockRefs \cup lockLabel \cup doneLabel
  BY DEF Covered, ItemsCovered, AfterMarks, PhaseSet
<1> QED BY <1>1, <1>2
    DEF Covered, RefsCovered, TagsCovered, ContainersCovered, ItemsCovered, Execution, AfterMarks

LEMMA StartCovered ==
    ASSUME Typed, Covered, StartReset
    PROVE  Covered'
<1>1. reset'.at = "locks"
  BY NoPlanIsRecord, PhasesNamed DEF StartReset, PlanAfter
<1>2. owed \ lost \subseteq queueLabel \cup lockRefs \cup lockLabel \cup doneLabel
  BY DEF StartReset, Covered, ItemsCovered
<1>3. /\ UNCHANGED <<lockRefs, queueLabel, lockLabel, doneLabel>>
      /\ lost' = {} /\ owed' = (owed \ lost) \cup lockRefs \cup lockLabel \cup doneLabel
  BY DEF StartReset, vars
<1> QED BY <1>1, <1>2, <1>3
    DEF Covered, RefsCovered, TagsCovered, ContainersCovered, ItemsCovered, Execution, AfterMarks

\* Compute, call by call: the plan covers one more part of what there is.
LEMMA ListingCovered ==
    ASSUME OneHost, Typed, Covered,
           ListLocks \/ ListTagRefs \/ ListMarked \/ ListDone \/ ListContainers \/ ListOpen
    PROVE  Covered'
<1>1. /\ UNCHANGED <<lockRefs, tags, queueLabel, lockLabel, orphans, doneLabel, owed, lost, late>>
      /\ reset.at \in PhaseSet \ {"relabel"}
  BY DEF ListLocks, ListTagRefs, ListMarked, ListDone, ListContainers, ListOpen, Listing, vars, PhaseSet
<1>2. CASE Abort
  BY <1>1, <1>2, AbortCovered
<1>3. ResetOK
  BY DEF Typed
<1>4. CASE ~ Abort /\ ListLocks
  <2>1. reset.at = "locks" /\ reset'.at = "tags" /\ reset'.locks = lockRefs /\ reset'.items = lockRefs
    BY <1>3, <1>4, ListingPlans DEF PlanAfter, ListLocks, Listing
  <2> QED BY <1>1, <2>1
      DEF Covered, RefsCovered, TagsCovered, ContainersCovered, ItemsCovered, Execution, AfterMarks
<1>5. CASE ~ Abort /\ ListTagRefs
  <2>1. /\ reset.at = "tags" /\ reset'.at = "lockLabel" /\ reset'.locks = reset.locks
        /\ reset'.items = reset.items /\ reset'.tags = UNION {{i} \X tags[i] : i \in Items}
    BY <1>3, <1>5, ListingPlans DEF PlanAfter, ListTagRefs, Listing
  <2>2. \A i \in Items : \A age \in tags[i] : <<i, age>> \in UNION {{j} \X tags[j] : j \in Items}
    OBVIOUS
  <2> QED BY <1>1, <2>1, <2>2
      DEF Covered, RefsCovered, TagsCovered, ContainersCovered, ItemsCovered, Execution, AfterMarks
<1>6. CASE ~ Abort /\ ListMarked
  <2>1. /\ reset.at = "lockLabel" /\ reset'.at = "doneLabel" /\ reset'.locks = reset.locks
        /\ reset'.items = reset.items \cup lockLabel /\ reset'.tags = reset.tags
    BY <1>3, <1>6, ListingPlans DEF PlanAfter, ListMarked, Listing
  <2> QED BY <1>1, <2>1
      DEF Covered, RefsCovered, TagsCovered, ContainersCovered, ItemsCovered, Execution, AfterMarks
<1>7. CASE ~ Abort /\ ListDone
  <2>1. /\ reset.at = "doneLabel" /\ reset'.at = "ps" /\ reset'.locks = reset.locks
        /\ reset'.items = reset.items \cup doneLabel /\ reset'.tags = reset.tags
    BY <1>3, <1>7, ListingPlans DEF PlanAfter, ListDone, Listing
  <2>2. owed \ lost \subseteq queueLabel \cup lockRefs \cup lockLabel \cup doneLabel
    BY <2>1 DEF Covered, ItemsCovered
  <2> QED BY <1>1, <2>1, <2>2
      DEF Covered, RefsCovered, TagsCovered, ContainersCovered, ItemsCovered, Execution, AfterMarks
<1>8. CASE ~ Abort /\ ListContainers
  <2>1. /\ reset.at = "ps" /\ reset'.at = "kill" /\ reset'.locks = reset.locks
        /\ reset'.items = reset.items /\ reset'.tags = reset.tags
        /\ reset'.containers = Containers(ResetHost)
    BY <1>3, <1>8, ListingPlans DEF PlanAfter, ListContainers, Listing
  <2>2. Containers(ResetHost) = orphans[ResetHost]
    BY <2>1, DownContainers, ResetAssumption DEF Typed, CrewIsDown
  <2> QED BY <1>1, <2>1, <2>2
      DEF Covered, RefsCovered, TagsCovered, ContainersCovered, ItemsCovered, Execution, AfterMarks
<1>9. CASE ~ Abort /\ ListOpen
  <2>1. /\ reset.at = "open" /\ reset'.at = "relabel" /\ reset'.locks = reset.locks
        /\ reset'.items = reset.items /\ reset'.tags = reset.tags
    BY <1>3, <1>9, ListingPlans DEF PlanAfter, ListOpen, Listing
  <2> QED BY <1>1, <2>1
      DEF Covered, RefsCovered, TagsCovered, ContainersCovered, ItemsCovered, Execution, AfterMarks
<1> QED BY <1>2, <1>4, <1>5, <1>6, <1>7, <1>8, <1>9

\* Execute: what the plan covered is gone when nothing is left of it.
LEMMA ProceedCovered ==
    ASSUME Typed, Covered, Proceed
    PROVE  Covered'
<1>1. UNCHANGED <<lockRefs, tags, queueLabel, lockLabel, orphans, doneLabel, owed, lost, late>>
  BY DEF Proceed, vars
<1>2. /\ reset'.at = NextPhase(reset.at) /\ reset'.items = reset.items /\ reset'.locks = reset.locks
      /\ reset'.tags = reset.tags
  BY ExecutionPlans DEF Typed, PlanAfter
<1>3. CASE reset.at = "kill" /\ reset.containers = {}
  <2>1. reset'.at = "refs"
    BY <1>2, <1>3, NextPhases
  <2> QED BY <1>1, <1>2, <1>3, <2>1
      DEF Covered, RefsCovered, TagsCovered, ContainersCovered, ItemsCovered, Execution, AfterMarks
<1>4. CASE reset.at = "refs" /\ reset.locks = {} /\ reset.tags = {}
  <2>1. reset'.at = "open"
    BY <1>2, <1>4, NextPhases
  <2>2. \A i \in Items : tags[i] = {}
    BY <1>4 DEF Covered, TagsCovered
  <2> QED BY <1>1, <1>2, <1>4, <2>1, <2>2
      DEF Covered, RefsCovered, TagsCovered, ContainersCovered, ItemsCovered, Execution, AfterMarks
<1>5. CASE reset.at = "relabel" /\ reset.items = {}
  <2>1. reset'.at = "clean"
    BY <1>2, <1>5, NextPhases
  <2> QED BY <1>1, <1>2, <1>5, <2>1
      DEF Covered, RefsCovered, TagsCovered, ContainersCovered, ItemsCovered, Execution, AfterMarks
<1> QED BY <1>3, <1>4, <1>5 DEF Proceed

LEMMA DeletionCovered ==
    ASSUME Typed, Covered, NEW i, NEW age,
           KillContainer(i) \/ DeleteLockRef(i) \/ DeleteTagRef(i, age)
    PROVE  Covered'
<1>1. ResetOK /\ TypeOK
  BY DEF Typed
<1>2. CASE KillContainer(i)
  <2>1. /\ reset.at = "kill"
        /\ UNCHANGED <<lockRefs, tags, queueLabel, lockLabel, doneLabel, owed, lost, late>>
    BY <1>2 DEF KillContainer, github
  <2>2. CASE Abort
    BY <2>1, <2>2, AbortCovered DEF PhaseSet
  <2>3. CASE ~ Abort
    <3>1. /\ reset'.at = "kill" /\ reset'.items = reset.items /\ reset'.locks = reset.locks
          /\ reset'.tags = reset.tags /\ reset'.containers = reset.containers \ {i}
          /\ orphans'[ResetHost] = orphans[ResetHost] \ {i}
      <4>1. /\ PlanAfter("kill", reset.items, reset.locks, reset.tags,
                          reset.containers \ {i}, reset.item)
            /\ orphans' = [orphans EXCEPT ![ResetHost] = @ \ {i}]
        BY <1>1, <1>2, <2>3, ExecutionPlans
      <4> QED BY <1>1, <4>1, ResetAssumption DEF PlanAfter, TypeOK
    <3> QED BY <2>1, <3>1
        DEF Covered, RefsCovered, TagsCovered, ContainersCovered, ItemsCovered, Execution, AfterMarks
  <2> QED BY <2>2, <2>3
<1>3. CASE DeleteLockRef(i)
  <2>1. /\ reset.at = "refs"
        /\ UNCHANGED <<tags, queueLabel, lockLabel, orphans, doneLabel, owed, late>>
    BY <1>3 DEF DeleteLockRef
  <2>2. CASE Abort /\ UNCHANGED <<lockRefs, finished, lost>>
    BY <2>1, <2>2, AbortCovered DEF PhaseSet
  <2>3. CASE ~ (Abort /\ UNCHANGED <<lockRefs, finished, lost>>)
    <3>1. /\ reset'.at = "refs" /\ reset'.items = reset.items /\ reset'.locks = reset.locks \ {i}
          /\ reset'.tags = reset.tags /\ lockRefs' = lockRefs \ {i}
          /\ lost' = lost \cup (KnownByLock \cap {i})
      BY <1>1, <1>3, <2>3, ExecutionPlans DEF PlanAfter, DropLock
    <3> QED BY <2>1, <3>1
        DEF Covered, RefsCovered, TagsCovered, ContainersCovered, ItemsCovered, KnownByLock,
            Execution, AfterMarks
  <2> QED BY <2>2, <2>3
<1>4. CASE DeleteTagRef(i, age)
  <2>1. /\ reset.at = "refs" /\ <<i, age>> \in reset.tags
        /\ UNCHANGED <<lockRefs, queueLabel, lockLabel, orphans, doneLabel, owed, lost, late>>
    BY <1>4 DEF DeleteTagRef
  <2>2. CASE Abort /\ tags' = tags
    BY <2>1, <2>2, AbortCovered DEF PhaseSet
  <2>3. CASE ~ (Abort /\ tags' = tags)
    <3>1. /\ reset'.at = "refs" /\ reset'.items = reset.items /\ reset'.locks = reset.locks
          /\ reset'.tags = reset.tags \ {<<i, age>>} /\ tags' = [tags EXCEPT ![i] = @ \ {age}]
      BY <1>1, <1>4, <2>3, ExecutionPlans DEF PlanAfter, DropTag
    <3>2. \A j \in Items : \A a \in tags'[j] : <<j, a>> \in reset'.tags
      BY <1>1, <2>1, <3>1 DEF Covered, TagsCovered, TypeOK
    <3> QED BY <2>1, <3>1, <3>2
        DEF Covered, RefsCovered, TagsCovered, ContainersCovered, ItemsCovered, Execution, AfterMarks
  <2> QED BY <2>2, <2>3
<1> QED BY <1>2, <1>3, <1>4

LEMMA RelabelCovered ==
    ASSUME {"addLabel", "removeLabel"} \cap MayFail = {},
           Typed, Covered, NEW i, RemoveLockLabel(i) \/ RemoveDoneLabel \/ AddQueueLabel
    PROVE  Covered'
<1>1. ResetOK
  BY DEF Typed
<1>2. \A answer \in Answers("addLabel") \cup Answers("removeLabel") : Landed(answer)
  BY DEF Answers, Landed
<1>3. CASE RemoveLockLabel(i)
  <2>1. /\ reset.at = "relabel" /\ reset'.at = "undone" /\ reset'.item = i
        /\ reset'.items = reset.items /\ lockLabel' = lockLabel \ {i}
        /\ UNCHANGED <<lockRefs, tags, queueLabel, orphans, doneLabel, owed, lost, late>>
    BY <1>1, <1>2, <1>3, ExecutionPlans DEF RemoveLockLabel, PlanAfter
  <2> QED BY <2>1
      DEF Covered, RefsCovered, TagsCovered, ContainersCovered, ItemsCovered, Execution, AfterMarks
<1>4. CASE RemoveDoneLabel
  <2>1. /\ reset.at = "undone" /\ reset'.at = "requeue" /\ reset'.item = reset.item
        /\ reset'.items = reset.items
        /\ UNCHANGED <<lockRefs, tags, queueLabel, lockLabel, orphans, owed, lost, late>>
    BY <1>1, <1>4, ExecutionPlans DEF RemoveDoneLabel, PlanAfter, vars
  <2> QED BY <2>1
      DEF Covered, RefsCovered, TagsCovered, ContainersCovered, ItemsCovered, Execution, AfterMarks
<1>5. CASE AddQueueLabel
  <2>1. /\ reset.at = "requeue" /\ reset'.at = "relabel" /\ reset'.items = reset.items \ {reset.item}
        /\ queueLabel' = queueLabel \cup {reset.item}
        /\ UNCHANGED <<lockRefs, tags, lockLabel, orphans, doneLabel, owed, lost, late>>
    BY <1>1, <1>2, <1>5, ExecutionPlans DEF AddQueueLabel, PlanAfter
  <2> QED BY <2>1
      DEF Covered, RefsCovered, TagsCovered, ContainersCovered, ItemsCovered, Execution, AfterMarks
<1> QED BY <1>3, <1>4, <1>5

LEMMA SystemInitCovered == SystemInit => Covered
<1> SUFFICES ASSUME SystemInit PROVE Covered
  OBVIOUS
<1>1. reset.at = "idle" /\ owed = {}
  BY DEF SystemInit, NoPlan
<1> QED BY <1>1
    DEF Covered, RefsCovered, TagsCovered, ContainersCovered, ItemsCovered, Execution, AfterMarks

LEMMA SystemStepCovered ==
    ASSUME OneHost, {"addLabel", "removeLabel"} \cap MayFail = {},
           Typed, Covered, [SystemNext]_systemVars
    PROVE  Covered'
<1>1. CASE UNCHANGED systemVars
  BY <1>1 DEF systemVars, vars, Covered, RefsCovered, TagsCovered, ContainersCovered, ItemsCovered
<1>2. CASE CrewStep
  BY <1>2, SystemStepTyped, CrewStepCovered
<1>3. CASE ResetStep
  <2>1. CASE \E i \in Items, age \in Ages : DeleteTagRef(i, age)
    BY <2>1, DeletionCovered
  <2>2. CASE \E i \in Items : KillContainer(i) \/ DeleteLockRef(i)
    <3>1. ASSUME NEW i, NEW age, KillContainer(i) \/ DeleteLockRef(i) PROVE Covered'
      BY <3>1, DeletionCovered
    <3> QED BY <2>2, <3>1
  <2>3. CASE (\E i \in Items : RemoveLockLabel(i)) \/ RemoveDoneLabel \/ AddQueueLabel
    <3>1. ASSUME NEW i, RemoveLockLabel(i) \/ RemoveDoneLabel \/ AddQueueLabel PROVE Covered'
      BY <3>1, RelabelCovered
    <3> QED BY <2>3, <3>1
  <2> QED BY <1>3, <2>1, <2>2, <2>3, StartCovered, ListingCovered, ProceedCovered DEF ResetStep
<1> QED BY <1>1, <1>2, <1>3, RestartCovered DEF SystemNext

\* With one orchestrator and labelling calls that do not fail: when a run of reset has
\* succeeded the refs it listed and the containers are gone and every item the crew had
\* left a mark on is a candidate again, wherever the crew had stopped, wherever and how
\* often earlier runs had failed, and whatever containers did meanwhile.
THEOREM ResetDropsAndRequeues ==
    ASSUME OneHost, {"addLabel", "removeLabel"} \cap MayFail = {}
    PROVE  SystemSpec => []ResetRequeues
<1> DEFINE IInv == Typed /\ Covered
<1>1. SystemInit => IInv
  BY SystemInitTyped, SystemInitCovered
<1>2. IInv /\ [SystemNext]_systemVars => IInv'
  BY SystemStepTyped, SystemStepCovered
<1>3. IInv => ResetRequeues
  <2> SUFFICES ASSUME IInv, reset.at = "clean"
               PROVE  /\ lockRefs \subseteq late /\ Containers(ResetHost) = {}
                      /\ \A i \in Items : tags[i] = {} /\ (i \in owed => i \in Candidates)
    BY DEF ResetRequeues
  <2>1. Containers(ResetHost) = {}
    BY DownContainers, ResetAssumption
    DEF Typed, CrewIsDown, Covered, ContainersCovered, Execution
  <2> QED BY <2>1 DEF Covered, RefsCovered, TagsCovered, ItemsCovered, Execution, Candidates
<1> QED BY <1>1, <1>2, <1>3, PTL DEF SystemSpec
=============================================================================
