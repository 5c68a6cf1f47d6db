------------------------------ MODULE CrewReset ------------------------------
(***************************************************************************)
(* `cc-crew reset' composed with the crew of TaskClaim: the orchestrators  *)
(* stop at any step, somebody runs reset --yes until it succeeds, and the  *)
(* crew is started again.  Reset first lists refs, labels and containers   *)
(* (Compute), then kills, deletes and relabels what it has listed          *)
(* (Execute).  Each call is a step; an error of most ends the run with all *)
(* that was done so far, and the next run lists anew.                      *)
(*                                                                         *)
(* For the two kinds whose items reset queues again: issues for the        *)
(* implementer, pull requests for the reviewer.  Items are open.           *)
(***************************************************************************)
EXTENDS TaskClaim, Sequences

CONSTANTS
    ResetHost,    \* the machine reset runs on, whose containers it kills
    MaxAborts     \* bound on the runs of reset that fail

ASSUME ResetAssumption ==
    /\ Kind \in {"implementer", "reviewer"} /\ ResetHost \in Orchestrators /\ MaxAborts \in Nat

VARIABLES
    doneLabel,    \* items that carry the done label of the kind
    reset,        \* control state and plan of a run of reset
    aborts,       \* runs that failed
    owed,         \* items of which the crew had left a ref or label when it stopped (history)
    lost,         \* items that were in no queue and had no label when reset deleted their lock
                  \* ref: from then on only the plan of that run knows of them (history)
    late          \* items whose branch a left-over container has pushed anew since reset listed refs
                  \* and before it was killed (history)

systemVars == <<vars, doneLabel, reset, aborts, owed, lost, late>>

-----------------------------------------------------------------------------

\* (variant) The refs are deleted while containers still run.
PhasesRefsFirst == <<"locks", "tags", "lockLabel", "doneLabel", "ps",
                     "refs", "kill", "open", "relabel">>

\* The calls of Compute and then of Execute, in their order.
Phases == <<"locks", "tags", "lockLabel", "doneLabel", "ps", "kill", "refs", "open", "relabel">>

NextPhase(phase) ==
    LET n == CHOOSE n \in DOMAIN Phases : Phases[n] = phase
    IN  IF n = Len(Phases) THEN "clean" ELSE Phases[n + 1]

\* The phases in which containers may still run.
BeforeDeletion == {"locks", "tags", "lockLabel", "doneLabel", "ps", "kill"}

\* Before a run there is nothing in the plan; "clean" is a run that has succeeded.
NoPlan(at) == [at |-> at, items |-> {}, locks |-> {}, tags |-> {}, containers |-> {},
               item |-> None]

ResetOK ==
    /\ doneLabel \subseteq Items /\ owed \subseteq Items
    /\ lost \subseteq Items /\ late \subseteq Items
    /\ aborts \in 0 .. MaxAborts
    /\ reset \in [at : {"idle", "clean", "undone", "requeue"} \cup {Phases[n] : n \in DOMAIN Phases},
                  items : SUBSET Items, locks : SUBSET Items, tags : SUBSET (Items \X Ages),
                  containers : SUBSET Items, item : Items \cup {None}]
    /\ reset.locks \subseteq reset.items
    /\ reset.at \notin {"idle", "clean"} => \A o \in Orchestrators : loop[o].at = "down"

SystemInit ==
    /\ Init
    /\ doneLabel = {} /\ reset = NoPlan("idle") /\ aborts = 0
    /\ owed = {} /\ lost = {} /\ late = {}

-----------------------------------------------------------------------------
(* The crew.                                                               *)

\* A dispatch that succeeded puts the done label on when it has taken the queue label
\* off and before it releases its claim: here in the step that lists the tags, so that a
\* crash may come between the two calls.
Finishes(s) == ListTags(s) /\ slot[s].exit = "ok" /\ slot[s].try = 1

DoneAfter ==
    LET with == doneLabel \cup {slot[s].item : s \in {r \in Slots : Finishes(r)}}
    IN  IF "addLabel" \in MayFail THEN {with, doneLabel} ELSE {with}

\* Tags in the plan age like those on GitHub.
Aged == [reset EXCEPT !.tags = {<<p[1], age>> : p \in @, age \in Ages}
                                  \cap UNION {{p[1]} \X Older({p[2]}) : p \in @}]

\* Items of which nothing but the lock ref tells.
KnownByLock == lockRefs \ (queueLabel \cup lockLabel \cup doneLabel)

\* A branch that somebody deletes with its pull request leaves reset nothing to find.
CrewStep ==
    /\ Next
    /\ \A o \in Orchestrators : ~ Restart(o)
    /\ doneLabel' \in DoneAfter
    /\ reset' = IF Clock THEN Aged ELSE reset
    /\ late' = late \cup IF reset.at \in BeforeDeletion THEN lockRefs' \ lockRefs ELSE {}
    /\ owed' = owed \ (KnownByLock \ lockRefs')
    /\ UNCHANGED <<aborts, lost>>

\* The crew is started again when reset has done its work.
RestartCrew(o) ==
    /\ reset.at = "clean" /\ \A p \in Orchestrators : loop[p].at = "down"
    /\ Restart(o)
    /\ reset' = NoPlan("idle") /\ owed' = {} /\ lost' = {} /\ late' = {}
    /\ UNCHANGED <<doneLabel, aborts>>

-----------------------------------------------------------------------------
(* Compute.                                                                *)

StartReset ==
    /\ reset.at = "idle" /\ \A o \in Orchestrators : loop[o].at = "down"
    /\ reset' = NoPlan(Phases[1])
    /\ owed' = (owed \ lost) \cup lockRefs \cup lockLabel \cup doneLabel
    /\ lost' = {} /\ late' = {}
    /\ UNCHANGED <<vars, doneLabel, aborts>>

\* The run ends with an error.
Abort ==
    /\ aborts < MaxAborts /\ aborts' = aborts + 1
    /\ reset' = NoPlan("idle")

\* A call that lists: the plan grows, or the run fails.
Listing(phase, plan) ==
    /\ reset.at = phase
    /\ \/ reset' = [plan EXCEPT !.at = NextPhase(phase)] /\ UNCHANGED aborts
       \/ Abort
    /\ UNCHANGED <<vars, doneLabel, owed, lost, late>>

\* (variant) What only a label tells of is not looked for.
ListMarkedByRef == Listing("lockLabel", reset)

\* (variant) The list by label takes the place of the list by ref.
ListMarkedAnew == Listing("lockLabel", [reset EXCEPT !.items = lockLabel])

ListLocks == Listing("locks", [reset EXCEPT !.locks = lockRefs, !.items = lockRefs])
ListTagRefs == Listing("tags", [reset EXCEPT !.tags = UNION {{i} \X tags[i] : i \in Items}])
ListMarked == Listing("lockLabel", [reset EXCEPT !.items = @ \cup lockLabel])
ListDone == Listing("doneLabel", [reset EXCEPT !.items = @ \cup doneLabel])
ListContainers == Listing("ps", [reset EXCEPT !.containers = Containers(ResetHost)])

-----------------------------------------------------------------------------
(* Execute.                                                                *)

\* Nothing is left to do in a phase.
Proceed ==
    /\ \/ reset.at = "kill" /\ reset.containers = {}
       \/ reset.at = "refs" /\ reset.locks = {} /\ reset.tags = {}
       \/ reset.at = "relabel" /\ reset.items = {}
    /\ reset' = [reset EXCEPT !.at = NextPhase(@)]
    /\ UNCHANGED <<vars, doneLabel, aborts, owed, lost, late>>

\* The crew is down: the containers that are left have nobody waiting for them.  One that
\* has ended by itself counts as killed.
KillContainer(i) ==
    /\ reset.at = "kill" /\ i \in reset.containers
    /\ \/ /\ reset' = [reset EXCEPT !.containers = @ \ {i}]
          /\ orphans' = [orphans EXCEPT ![ResetHost] = @ \ {i}]
          /\ UNCHANGED aborts
       \/ Abort /\ UNCHANGED orphans
    /\ UNCHANGED <<github, loop, slot, stops, doneLabel, owed, lost, late>>

DeleteLockRef(i) ==
    /\ reset.at = "refs" /\ i \in reset.locks
    /\ \/ /\ reset' = [reset EXCEPT !.locks = @ \ {i}]
          /\ DropLock(i)
          /\ lost' = lost \cup (KnownByLock \cap {i})
          /\ UNCHANGED aborts
       \/ Abort /\ UNCHANGED <<lockRefs, finished, lost>>
    /\ UNCHANGED <<tags, queueLabel, lockLabel, loop, slot, orphans, stops, doneLabel, owed, late>>

DeleteTagRef(i, age) ==
    /\ reset.at = "refs" /\ reset.locks = {} /\ <<i, age>> \in reset.tags
    /\ \/ /\ reset' = [reset EXCEPT !.tags = @ \ {<<i, age>>}]
          /\ DropTag(i, age)
          /\ UNCHANGED aborts
       \/ Abort /\ UNCHANGED tags
    /\ UNCHANGED <<lockRefs, queueLabel, lockLabel, finished, loop, slot, orphans, stops,
                   doneLabel, owed, lost, late>>

\* Which of the items are open.
ListOpen == Listing("open", reset)

\* Labels: the lock label goes, the done label goes, the queue label comes.  Their errors
\* are ignored.
RemoveLockLabel(i) ==
    /\ reset.at = "relabel" /\ i \in reset.items
    /\ \E answer \in Answers("removeLabel") :
         lockLabel' = IF Landed(answer) THEN lockLabel \ {i} ELSE lockLabel
    /\ reset' = [reset EXCEPT !.at = "undone", !.item = i]
    /\ UNCHANGED <<lockRefs, tags, queueLabel, finished, loop, slot, orphans, stops,
                   doneLabel, aborts, owed, lost, late>>

RemoveDoneLabel ==
    /\ reset.at = "undone"
    /\ \E answer \in Answers("removeLabel") :
         doneLabel' = IF Landed(answer) THEN doneLabel \ {reset.item} ELSE doneLabel
    /\ reset' = [reset EXCEPT !.at = "requeue"]
    /\ UNCHANGED <<vars, aborts, owed, lost, late>>

AddQueueLabel ==
    /\ reset.at = "requeue"
    /\ \E answer \in Answers("addLabel") :
         queueLabel' = IF Landed(answer) THEN queueLabel \cup {reset.item} ELSE queueLabel
    /\ reset' = [reset EXCEPT !.at = "relabel", !.items = @ \ {reset.item}, !.item = None]
    /\ UNCHANGED <<lockRefs, tags, lockLabel, finished, loop, slot, orphans, stops,
                   doneLabel, aborts, owed, lost, late>>

ResetStep ==
    \/ StartReset \/ ListLocks \/ ListTagRefs \/ ListMarked \/ ListDone \/ ListContainers
    \/ Proceed \/ (\E i \in Items : KillContainer(i) \/ DeleteLockRef(i) \/ RemoveLockLabel(i))
    \/ (\E i \in Items, age \in Ages : DeleteTagRef(i, age))
    \/ ListOpen \/ RemoveDoneLabel \/ AddQueueLabel

SystemNext == CrewStep \/ ResetStep \/ \E o \in Orchestrators : RestartCrew(o)

\* As in TaskClaim; and somebody runs reset when the crew has stopped, and starts the
\* crew again after it.
SystemFairness ==
    /\ \A o \in Orchestrators : WF_vars(LoopStep(o)) /\ WF_systemVars(RestartCrew(o))
    /\ \A s \in Slots : WF_vars(SlotStep(s))
    /\ WF_vars(Clock) /\ WF_systemVars(ResetStep)

SystemSpec == SystemInit /\ [][SystemNext]_systemVars /\ SystemFairness

-----------------------------------------------------------------------------
(* Correctness.                                                            *)

\* `cc-crew reset drops all cc-crew state and requeues every open issue or PR that had
\* one': when a run has succeeded, nothing is left of the refs and containers and every
\* item the crew had left its mark on is a candidate, wherever the crew had stopped and
\* wherever earlier runs of reset had failed (Compute, Execute).  What may stay is a branch
\* that was not there when reset listed them, pushed by a container not yet killed.  And
\* what StartReset gives up on is an item whose lock ref was all that told of it (the crew
\* had stopped between its queue label and its done label), when the run that deleted
\* this ref failed before it had queued the item again: no later run finds it.
ResetRequeues ==
    reset.at = "clean" =>
        /\ lockRefs \subseteq late /\ Containers(ResetHost) = {}
        /\ \A i \in Items : tags[i] = {} /\ (i \in owed => i \in Candidates)

\* With a reset after each stop of the crew, queued work is taken up, also what a crash
\* had left with its lock label on (listCandidates), which the sweeper does not repair.
ResetUnsticks ==
    \A i \in Items :
        i \in queueLabel ~>
            i \notin queueLabel \/ HasPR(i) \/ \E s \in Slots : Works(s) /\ slot[s].item = i

=============================================================================
