--------------------------- MODULE ReviewLoopProofs ---------------------------
(***************************************************************************)
(* Two promises to a pull request that one orchestrator looks after, for   *)
(* any number of slots, heads and reviews, and whatever the sweeper takes, *)
(* crashes or outlasts its timeout.  While the lock labels can be put on,  *)
(* a review is not answered twice; and while they can, or there is one     *)
(* reviewer slot, no head that was reviewed is queued again.               *)
(***************************************************************************)
EXTENDS ReviewLoop, SequenceTheorems, WellFoundedInduction, TLAPS

-----------------------------------------------------------------------------
(* The plans of a cleanup.                                                  *)

Exits == {"ok", "fail", "guard"}

ReviewerPlan == <<"mark", "verdict", "unlock", "dequeue", "done", "flag", "unflag", "release">>
AddresserPlan == <<"sha", "mark", "unlock", "dequeue", "done", "release">>
FailPlan == <<"unlock", "release">>
GuardPlan == <<"release", "unlock", "dequeue">>

LEMMA Plans ==
    ASSUME NEW kind \in Kinds, NEW exit \in Exits
    PROVE  Cleanup(kind, exit) = IF exit = "guard" THEN GuardPlan
                                 ELSE IF exit = "fail" THEN FailPlan
                                 ELSE IF kind = "reviewer" THEN ReviewerPlan
                                 ELSE AddresserPlan
BY DEF Cleanup, Kinds, Exits, GuardPlan, FailPlan, ReviewerPlan, AddresserPlan

\* Every cleanup has something to do.
LEMMA PlanTyped ==
    ASSUME NEW kind \in Kinds, NEW exit \in Exits
    PROVE  /\ Cleanup(kind, exit) \in Seq(CleanSteps)
           /\ Cleanup(kind, exit) # << >>
           /\ Len(Cleanup(kind, exit)) \in 1 .. 8
<1>1. ReviewerPlan \in Seq(CleanSteps) /\ ReviewerPlan # << >> /\ Len(ReviewerPlan) = 8
  BY DEF ReviewerPlan, CleanSteps
<1>2. AddresserPlan \in Seq(CleanSteps) /\ AddresserPlan # << >> /\ Len(AddresserPlan) = 6
  BY DEF AddresserPlan, CleanSteps
<1>3. FailPlan \in Seq(CleanSteps) /\ FailPlan # << >> /\ Len(FailPlan) = 2
  BY DEF FailPlan, CleanSteps
<1>4. GuardPlan \in Seq(CleanSteps) /\ GuardPlan # << >> /\ Len(GuardPlan) = 3
  BY DEF GuardPlan, CleanSteps
<1> QED BY <1>1, <1>2, <1>3, <1>4, Plans

\* How many steps are left of a cleanup when it comes to remove the lock label.
UnlockLeft(kind, exit) ==
    IF exit # "ok" THEN 2 ELSE IF kind = "reviewer" THEN 6 ELSE 4

\* Where in a cleanup the steps stand that matter.
LEMMA PlanPlaces ==
    ASSUME NEW kind \in Kinds, NEW exit \in Exits, NEW plan, plan = Cleanup(kind, exit),
           NEW n, n \in 1 .. Len(plan)
    PROVE  /\ plan[n] = "unlock" <=> n = 1 + Len(plan) - UnlockLeft(kind, exit)
           /\ plan[n] \notin {"release", "unlock", "dequeue"} => exit = "ok"
           /\ exit = "ok" => Len(plan) = IF kind = "reviewer" THEN 8 ELSE 6
           /\ exit = "ok" /\ kind = "reviewer" => (plan[n] = "mark" <=> n = 1)
           /\ exit = "ok" /\ kind # "reviewer" => (plan[n] = "mark" <=> n = 2)
<1>1. CASE exit = "guard"
  <2>1. plan = GuardPlan /\ UnlockLeft(kind, exit) = 2
    BY <1>1, Plans DEF UnlockLeft
  <2>2. /\ Len(plan) = 3
        /\ plan[1] = "release" /\ plan[2] = "unlock" /\ plan[3] = "dequeue"
    BY <2>1 DEF GuardPlan
  <2>3. n = 1 \/ n = 2 \/ n = 3
    BY <2>2
  <2>4. (plan[n] = "unlock" <=> n = 2) /\ plan[n] \in {"release", "unlock", "dequeue"}
    BY <2>2, <2>3
  <2>5. n = 1 + Len(plan) - UnlockLeft(kind, exit) <=> n = 2
    BY <2>1, <2>2, <2>3
  <2>6. exit # "ok"
    BY <1>1
  <2> QED BY <2>4, <2>5, <2>6, Zenon
<1>2. CASE exit = "fail"
  <2>1. plan = FailPlan /\ UnlockLeft(kind, exit) = 2
    BY <1>2, Plans DEF UnlockLeft
  <2>2. Len(plan) = 2 /\ plan[1] = "unlock" /\ plan[2] = "release"
    BY <2>1 DEF FailPlan
  <2>3. n = 1 \/ n = 2
    BY <2>2
  <2>4. (plan[n] = "unlock" <=> n = 1) /\ plan[n] \in {"release", "unlock", "dequeue"}
    BY <2>2, <2>3
  <2>5. n = 1 + Len(plan) - UnlockLeft(kind, exit) <=> n = 1
    BY <2>1, <2>2, <2>3
  <2>6. exit # "ok"
    BY <1>2
  <2> QED BY <2>4, <2>5, <2>6, Zenon
<1>3. CASE exit = "ok" /\ kind = "reviewer"
  <2>1. plan = ReviewerPlan /\ UnlockLeft(kind, exit) = 6
    BY <1>3, Plans DEF UnlockLeft
  <2>2. /\ Len(plan) = 8
        /\ \A i \in 1 .. 8 : (plan[i] = "unlock" <=> i = 3) /\ (plan[i] = "mark" <=> i = 1)
    BY <2>1 DEF ReviewerPlan
  <2>3. n \in 1 .. 8
    BY <2>2
  <2>4. (plan[n] = "unlock" <=> n = 3) /\ (plan[n] = "mark" <=> n = 1)
    BY <2>2, <2>3
  <2>5. n = 1 + Len(plan) - UnlockLeft(kind, exit) <=> n = 3
    BY <2>1, <2>2, <2>3
  <2>6. Len(plan) = IF kind = "reviewer" THEN 8 ELSE 6
    BY <1>3, <2>2
  <2> QED BY <1>3, <2>4, <2>5, <2>6, Zenon
<1>4. CASE exit = "ok" /\ kind # "reviewer"
  <2>1. plan = AddresserPlan /\ UnlockLeft(kind, exit) = 4
    BY <1>4, Plans DEF UnlockLeft
  <2>2. /\ Len(plan) = 6
        /\ \A i \in 1 .. 6 : (plan[i] = "unlock" <=> i = 3) /\ (plan[i] = "mark" <=> i = 2)
    BY <2>1 DEF AddresserPlan
  <2>3. n \in 1 .. 6
    BY <2>2
  <2>4. (plan[n] = "unlock" <=> n = 3) /\ (plan[n] = "mark" <=> n = 2)
    BY <2>2, <2>3
  <2>5. n = 1 + Len(plan) - UnlockLeft(kind, exit) <=> n = 3
    BY <2>1, <2>2, <2>3
  <2>6. Len(plan) = IF kind = "reviewer" THEN 8 ELSE 6
    BY <1>4, <2>2
  <2> QED BY <1>4, <2>4, <2>5, <2>6, Zenon
<1> QED BY <1>1, <1>2, <1>3, <1>4 DEF Exits

-----------------------------------------------------------------------------
(* The latest verdict.                                                      *)

NatLess == {pair \in Nat \X Nat : pair[1] < pair[2]}

\* A nonempty set of naturals has a smallest element.
LEMMA Smallest ==
    ASSUME NEW T, T \subseteq Nat, T # {} 
    PROVE  \E x \in T : \A y \in T : x <= y
<1>1. IsWellFoundedOn(NatLess, Nat)
  BY NatLessThanWellFounded DEF OpToRel, NatLess
<1>2. \E x \in T : \A y \in T : ~ (<<y, x>> \in NatLess)
  BY <1>1, WFMin, Zenon
<1>3. PICK x \in T : \A y \in T : ~ (<<y, x>> \in NatLess)
  BY <1>2
<1>4. ASSUME NEW y \in T PROVE x <= y
  <2>1. <<y, x>> \in Nat \X Nat => ~ (<<y,x>>[1] < <<y,x>>[2])
    BY <1>3 DEF NatLess
  <2>2. x \in Nat /\ y \in Nat
    OBVIOUS
  <2>3. ~ (y < x)
    BY <2>1, <2>2
  <2> QED BY <2>2, <2>3
<1> QED BY <1>4

\* The latest of the verdicts exists.
LEMMA LatestVerdictTyped ==
    ASSUME reviews \in Seq(Review)
    PROVE  LatestVerdict \in ReviewStates \cup {""}
<1>1. Verdicts \subseteq 1 .. Len(reviews) /\ Len(reviews) \in Nat
  BY DEF Verdicts
<1>2. CASE Verdicts = {}
  BY <1>2 DEF LatestVerdict
<1>3. CASE Verdicts # {}
  <2> DEFINE Gaps == {Len(reviews) - id : id \in Verdicts}
  <2>1. Gaps # {} /\ Gaps \subseteq Nat
    <3>1. ASSUME NEW id \in Verdicts PROVE Len(reviews) - id \in Nat
      <4>1. id \in 1 .. Len(reviews) /\ Len(reviews) \in Nat
        BY <1>1
      <4> QED BY <4>1
    <3> QED BY <3>1, <1>3
  <2>2. PICK gap \in Gaps : \A other \in Gaps : gap <= other
    BY <2>1, Smallest
  <2>3. PICK id \in Verdicts : gap = Len(reviews) - id
    BY <2>2
  <2>4. ASSUME NEW other \in Verdicts PROVE other <= id
    <3>1. other \in Int /\ id \in Int /\ Len(reviews) \in Int
      BY <1>1
    <3>2. Len(reviews) - id <= Len(reviews) - other
      BY <2>2, <2>3
    <3> QED BY <3>1, <3>2
  <2> DEFINE latest == CHOOSE i \in Verdicts : \A other \in Verdicts : other <= i
  <2>5. latest \in Verdicts
    BY <2>4
  <2>6. LatestVerdict = reviews[latest].state
    BY <1>3 DEF LatestVerdict
  <2>7. reviews[latest] \in Review
    <3> HIDE DEF latest
    <3>1. latest \in 1 .. Len(reviews)
      BY <1>1, <2>5
    <3> QED BY <3>1, ElementOfSeq
  <2> HIDE DEF latest
  <2>8. reviews[latest].state \in ReviewStates
    BY <2>7 DEF Review
  <2> QED BY <2>6, <2>8
<1> QED BY <1>2, <1>3

-----------------------------------------------------------------------------
(* The inductive invariant.                                                 *)

Plan(s) == Cleanup(KindOf(s), slot[s].exit)
Left(s) == Len(slot[s].todo)

\* What is left of a cleanup is the end of its plan.
CleanupOK(s) ==
    slot[s].at = "clean" =>
      /\ slot[s].exit \in Exits /\ (slot[s].exit = "guard" => s \in Addressers)
      /\ Left(s) \in 1 .. Len(Plan(s))
      /\ \A n \in 1 .. Left(s) : slot[s].todo[n] = Plan(s)[n + Len(Plan(s)) - Left(s)]

SlotOK(s) ==
    /\ slot[s].at = "seen" => s \in Addressers
    /\ s \in Reviewers /\ (slot[s].at = "run" \/ (slot[s].at = "clean" /\ slot[s].exit = "ok"))
         => slot[s].sha \in Heads
    /\ slot[s].at = "claimed" => loop[Home[s]].at = "mark" /\ loop[Home[s]].kind = KindOf(s)
    /\ CleanupOK(s)

\* A loop marks the claim it has just won, and has won no other.
ClaimedOnce ==
    \A r, s \in Slots :
        slot[r].at = "claimed" /\ slot[s].at = "claimed" /\ Home[r] = Home[s] => r = s

Inv == TypeOK /\ (\A s \in Slots : SlotOK(s)) /\ ClaimedOnce

\* A dispatch has its lock label on from its start to the step of its cleanup that
\* removes it, provided the label could be put on.
Locked(s) ==
    \/ slot[s].at \in {"prep", "seen", "run"}
    \/ slot[s].at = "clean" /\ Left(s) >= UnlockLeft(KindOf(s), slot[s].exit)

\* A reviewer has been given the head and has not yet written its marker.
Reviewing(s) ==
    /\ s \in Reviewers
    /\ \/ slot[s].at \in {"claimed", "prep", "run"}
       \/ slot[s].at = "clean" /\ slot[s].exit = "ok" /\ Left(s) = 8

LoopMoved(o) == loop' = [loop EXCEPT ![o] = loop'[o]] /\ loop'[o] \in LoopStates
SlotMoved(s) == slot' = [slot EXCEPT ![s] = slot'[s]] /\ slot'[s] \in SlotStates

-----------------------------------------------------------------------------
(* What the operators of the main loop do.                                  *)

LEMMA LoopAtTyped ==
    ASSUME NEW step \in LoopSteps, NEW kind \in Kinds
    PROVE  /\ LoopAt(step, kind) \in LoopStates
           /\ LoopAt(step, kind).at = step /\ LoopAt(step, kind).kind = kind
BY BoundsAssumption DEF LoopAt, LoopStates

LEMMA ContinueMoves ==
    ASSUME TypeOK, NEW o \in Orchestrators, NEW next \in LoopStates, Continue(o, next)
    PROVE  LoopMoved(o) /\ loop'[o] = next
BY DEF TypeOK, Continue, LoopMoved

LEMMA StepMoves ==
    ASSUME TypeOK, NEW o \in Orchestrators, NEW step \in LoopSteps, Step(o, step)
    PROVE  /\ LoopMoved(o) /\ loop'[o].at = step
           /\ \A field \in {"kind", "labels", "head"} : loop'[o][field] = loop[o][field]
BY DEF TypeOK, Step, LoopMoved, LoopStates

LEMMA ToTickMoves ==
    ASSUME TypeOK, NEW o \in Orchestrators, ToTick(o)
    PROVE  LoopMoved(o) /\ loop'[o].at = "tick"
BY LoopAtTyped, ContinueMoves DEF ToTick, LoopSteps, Kinds

LEMMA TickNextMoves ==
    ASSUME TypeOK, NEW o \in Orchestrators, TickNext(o)
    PROVE  LoopMoved(o) /\ loop'[o].at \in {"tick", "sweep"}
<1>1. /\ LoopAt("tick", "addresser") \in LoopStates /\ LoopAt("tick", "addresser").at = "tick"
      /\ LoopAt("sweep", "reviewer") \in LoopStates /\ LoopAt("sweep", "reviewer").at = "sweep"
  BY LoopAtTyped DEF LoopSteps, Kinds
<1> QED BY <1>1, ContinueMoves DEF TickNext

LEMMA ToAddressMoves ==
    ASSUME TypeOK, NEW o \in Orchestrators, ToAddress(o)
    PROVE  LoopMoved(o) /\ loop'[o].at = "cycles"
BY BoundsAssumption DEF ToAddress, Continue, TypeOK, LoopMoved, LoopStates, LoopSteps

-----------------------------------------------------------------------------
(* What the operators of a dispatch do.                                     *)

LEMMA KindTyped ==
    \A s \in Slots :
        /\ KindOf(s) \in Kinds
        /\ KindOf(s) = "reviewer" <=> s \in Reviewers
        /\ KindOf(s) = "addresser" <=> s \in Addressers
BY SlotsAssumption DEF KindOf, Kinds, Slots

LEMMA FreeSlotTyped == FreeSlot \in SlotStates /\ FreeSlot.at = "free" /\ FreeSlot.todo = << >>
BY DEF FreeSlot, SlotStates, SlotSteps

LEMMA NextStepTyped ==
    ASSUME NEW state \in SlotStates, NEW step \in SlotSteps
    PROVE  LET next == [state EXCEPT !.at = step]
           IN  /\ next \in SlotStates /\ next.at = step /\ next.todo = state.todo
               /\ next.sha = state.sha /\ next.ids = state.ids
BY DEF SlotStates, SlotSteps

\* A cleanup begins.
LEMMA ConcludeMoves ==
    ASSUME TypeOK, NEW s \in Slots, NEW exit \in Exits, Conclude(s, exit)
    PROVE  /\ SlotMoved(s)
           /\ slot'[s].at = "clean" /\ slot'[s].exit = exit
           /\ slot'[s].sha = slot[s].sha
           /\ slot'[s].todo = Cleanup(KindOf(s), exit) /\ slot'[s].todo # << >>
<1>1. /\ Cleanup(KindOf(s), exit) \in Seq(CleanSteps)
      /\ Cleanup(KindOf(s), exit) # << >>
  BY PlanTyped, KindTyped
<1>2. slot'[s] = [slot[s] EXCEPT !.at = "clean", !.exit = exit, !.posted = FALSE,
                                 !.todo = Cleanup(KindOf(s), exit)]
  BY DEF Conclude, TypeOK
<1>3. slot[s] \in SlotStates
  BY DEF TypeOK
<1>4. /\ slot'[s] \in SlotStates
      /\ slot'[s].at = "clean" /\ slot'[s].exit = exit
      /\ slot'[s].sha = slot[s].sha
      /\ slot'[s].todo = Cleanup(KindOf(s), exit)
  BY <1>1, <1>2, <1>3 DEF SlotStates, SlotSteps, Exits
<1>5. slot' = [slot EXCEPT ![s] = slot'[s]]
  BY <1>2 DEF Conclude, TypeOK
<1> QED BY <1>1, <1>4, <1>5 DEF SlotMoved

\* The rest of a cleanup: nothing, or everything but the first step.
RestOf(s, rest) ==
    \/ rest \in SlotStates /\ rest.at = "free" /\ rest.todo = << >>
    \/ /\ Left(s) > 1 /\ rest \in SlotStates
       /\ rest.at = "clean" /\ rest.exit = slot[s].exit /\ rest.sha = slot[s].sha
       /\ Len(rest.todo) = Left(s) - 1 /\ rest.todo # << >>
       /\ \A n \in 1 .. Left(s) - 1 : rest.todo[n] = slot[s].todo[n + 1]

LEMMA RestIsRest ==
    ASSUME TypeOK, NEW s \in Slots, slot[s].at = "clean"
    PROVE  RestOf(s, Rest(s)) /\ Rest(s) \in SlotStates
<1>1. slot[s] \in SlotStates /\ slot[s].todo # << >> /\ slot[s].todo \in Seq(CleanSteps)
  BY DEF TypeOK, SlotStates
<1>2. Left(s) \in Nat \ {0}
  BY <1>1, EmptySeq, LenProperties DEF Left
<1>3. CASE Left(s) = 1
  BY <1>3, FreeSlotTyped DEF RestOf, Rest, Left
<1>4. CASE Left(s) # 1
  <2>1. /\ Tail(slot[s].todo) \in Seq(CleanSteps) /\ Len(Tail(slot[s].todo)) = Left(s) - 1
        /\ \A n \in 1 .. Left(s) - 1 : Tail(slot[s].todo)[n] = slot[s].todo[n + 1]
    BY <1>1, <1>2, HeadTailProperties DEF Left
  <2>2. Tail(slot[s].todo) # << >>
    BY <1>2, <1>4, <2>1, EmptySeq
  <2>3. Rest(s) = [slot[s] EXCEPT !.todo = Tail(slot[s].todo)]
    BY <1>4 DEF Rest, Left
  <2>4. /\ Rest(s) \in SlotStates /\ Rest(s).at = "clean" /\ Rest(s).exit = slot[s].exit
        /\ Rest(s).sha = slot[s].sha /\ Rest(s).todo = Tail(slot[s].todo)
    BY <1>1, <2>1, <2>3 DEF SlotStates
  <2> QED BY <1>2, <1>4, <2>1, <2>2, <2>4 DEF RestOf
<1> QED BY <1>3, <1>4

LEMMA DoneMoves ==
    ASSUME TypeOK, NEW s \in Slots, slot[s].at = "clean", Done(s)
    PROVE  SlotMoved(s) /\ RestOf(s, slot'[s])
<1>1. slot'[s] = Rest(s) /\ slot' = [slot EXCEPT ![s] = slot'[s]]
  BY DEF Done, TypeOK
<1> QED BY <1>1, RestIsRest DEF SlotMoved

LEMMA CleanPlace ==
    ASSUME TypeOK, NEW s \in Slots, CleanupOK(s), slot[s].at = "clean"
    PROVE  /\ Left(s) \in 1 .. 8 /\ UnlockLeft(KindOf(s), slot[s].exit) \in {2, 4, 6}
           /\ At(s, "unlock") => Left(s) = UnlockLeft(KindOf(s), slot[s].exit)
           /\ Head(slot[s].todo) \notin {"release", "unlock", "dequeue"} => slot[s].exit = "ok"
           /\ slot[s].exit = "ok" /\ s \in Reviewers => (At(s, "mark") <=> Left(s) = 8)
           /\ At(s, "mark") /\ s \in Addressers => Left(s) = 5
<1>1. /\ slot[s].exit \in Exits /\ KindOf(s) \in Kinds
      /\ Len(Plan(s)) \in 1 .. 8
  BY KindTyped, PlanTyped DEF CleanupOK, Plan
<1>2. PICK last \in 1 .. 8 : last = Len(Plan(s))
  BY <1>1
<1>3. PICK left \in 1 .. last : left = Left(s)
  BY <1>2 DEF CleanupOK
<1> DEFINE here == 1 + last - left
<1>4. here \in 1 .. last /\ Plan(s)[here] = slot[s].todo[1]
  BY <1>2, <1>3 DEF CleanupOK
<1>5. Head(slot[s].todo) = slot[s].todo[1]
  <2>1. slot[s].todo \in Seq(CleanSteps) /\ slot[s].todo # << >>
    BY DEF TypeOK, SlotStates
  <2> QED BY <2>1, HeadTailProperties
<1>6. /\ Head(slot[s].todo) = Plan(s)[here]
      /\ s \in Reviewers => KindOf(s) = "reviewer"
      /\ s \in Addressers => KindOf(s) # "reviewer"
  BY <1>4, <1>5, KindTyped
<1>7. /\ Plan(s)[here] = "unlock" <=> here = 1 + last - UnlockLeft(KindOf(s), slot[s].exit)
      /\ Plan(s)[here] \notin {"release", "unlock", "dequeue"} => slot[s].exit = "ok"
      /\ slot[s].exit = "ok" => last = IF KindOf(s) = "reviewer" THEN 8 ELSE 6
      /\ slot[s].exit = "ok" /\ KindOf(s) = "reviewer" => (Plan(s)[here] = "mark" <=> here = 1)
      /\ slot[s].exit = "ok" /\ KindOf(s) # "reviewer" => (Plan(s)[here] = "mark" <=> here = 2)
  <2>1. here \in 1 .. Len(Plan(s)) /\ last = Len(Plan(s))
    BY <1>2, <1>4
  <2> HIDE DEF here
  <2>2. /\ Plan(s)[here] = "unlock"
            <=> here = 1 + Len(Plan(s)) - UnlockLeft(KindOf(s), slot[s].exit)
        /\ Plan(s)[here] \notin {"release", "unlock", "dequeue"} => slot[s].exit = "ok"
        /\ slot[s].exit = "ok" => Len(Plan(s)) = IF KindOf(s) = "reviewer" THEN 8 ELSE 6
        /\ slot[s].exit = "ok" /\ KindOf(s) = "reviewer"
           => (Plan(s)[here] = "mark" <=> here = 1)
        /\ slot[s].exit = "ok" /\ KindOf(s) # "reviewer"
           => (Plan(s)[here] = "mark" <=> here = 2)
    <3> DEFINE kind == KindOf(s)
               exit == slot[s].exit
               plan == Plan(s)
    <3>1. /\ kind \in Kinds /\ exit \in Exits
          /\ plan = Cleanup(kind, exit) /\ here \in 1 .. Len(plan)
      BY <1>1, <2>1 DEF Plan
    <3> HIDE DEF kind, exit, plan
    <3>2. /\ plan[here] = "unlock" <=> here = 1 + Len(plan) - UnlockLeft(kind, exit)
          /\ plan[here] \notin {"release", "unlock", "dequeue"} => exit = "ok"
          /\ exit = "ok" => Len(plan) = IF kind = "reviewer" THEN 8 ELSE 6
          /\ exit = "ok" /\ kind = "reviewer" => (plan[here] = "mark" <=> here = 1)
          /\ exit = "ok" /\ kind # "reviewer" => (plan[here] = "mark" <=> here = 2)
      BY <3>1, PlanPlaces
    <3> QED BY <3>2 DEF kind, exit, plan
  <2> QED BY <2>1, <2>2
<1>8. UnlockLeft(KindOf(s), slot[s].exit) \in {2, 4, 6}
  BY DEF UnlockLeft
<1> QED BY <1>3, <1>6, <1>7, <1>8 DEF At

\* A cleanup goes on: what is left stays the end of the plan, and a lock label that is
\* removed is not counted on any more.
LEMMA RestOK ==
    ASSUME TypeOK, NEW s \in Slots, SlotOK(s), slot[s].at = "clean", RestOf(s, slot'[s])
    PROVE  /\ SlotOK(s)'
           /\ Locked(s)' => Locked(s) /\ ~ At(s, "unlock")
           /\ ~ Reviewing(s)' /\ slot'[s].at \in {"free", "clean"}
<1>1. CASE slot'[s].at = "free"
  BY <1>1 DEF SlotOK, CleanupOK, Locked, Reviewing
<1>2. CASE slot'[s].at # "free"
  <2>1. /\ slot'[s].at = "clean" /\ slot'[s].exit = slot[s].exit /\ slot'[s].sha = slot[s].sha
        /\ Left(s)' = Left(s) - 1 /\ Left(s) > 1 /\ Plan(s)' = Plan(s)
        /\ \A n \in 1 .. Left(s) - 1 : slot'[s].todo[n] = slot[s].todo[n + 1]
    BY <1>2 DEF RestOf, Left, Plan, KindOf
  <2>2. /\ Left(s) \in 1 .. 8 /\ UnlockLeft(KindOf(s), slot[s].exit) \in {2, 4, 6}
        /\ At(s, "unlock") => Left(s) = UnlockLeft(KindOf(s), slot[s].exit)
    BY CleanPlace DEF SlotOK
  <2>3. CleanupOK(s)'
    <3>1. Len(Plan(s)) \in Nat /\ Left(s) \in 1 .. Len(Plan(s))
      BY <2>1, PlanTyped, KindTyped DEF SlotOK, CleanupOK, Plan
    <3>2. ASSUME NEW n \in 1 .. Left(s)'
          PROVE  slot'[s].todo[n] = Plan(s)[n + Len(Plan(s)) - Left(s)']
      <4> Left(s)' = Left(s) - 1 /\ n \in 1 .. Left(s)' /\ Left(s) \in Nat
        BY <2>1, <3>1
      <4>1. /\ n \in 1 .. Left(s) - 1 /\ n + 1 \in 1 .. Left(s)
            /\ (n + 1) + Len(Plan(s)) - Left(s) = n + Len(Plan(s)) - Left(s)'
        BY <3>1
      <4>2. slot[s].todo[n + 1] = Plan(s)[(n + 1) + Len(Plan(s)) - Left(s)]
        BY <4>1 DEF SlotOK, CleanupOK
      <4> QED BY <2>1, <4>1, <4>2
    <3>3. Left(s)' \in 1 .. Len(Plan(s))
      BY <2>1, <3>1
    <3> QED BY <2>1, <3>2, <3>3 DEF CleanupOK, SlotOK
  <2>4. SlotOK(s)'
    BY <2>1, <2>3 DEF SlotOK
  <2>5. Locked(s)' => Locked(s) /\ ~ At(s, "unlock")
    BY <2>1, <2>2 DEF Locked
  <2>6. ~ Reviewing(s)'
    BY <2>1, <2>2 DEF Reviewing
  <2> QED BY <2>1, <2>4, <2>5, <2>6
<1> QED BY <1>1, <1>2

-----------------------------------------------------------------------------
(* Steps of the main loop keep the invariant.                               *)

\* A loop moves, and nothing of any claim or marker changes.
LEMMA LoopAlone ==
    ASSUME Inv, NEW o \in Orchestrators, LoopMoved(o), loop[o].at # "mark",
           slot' = slot, labels' \subseteq Labels, head' = head, reviews' = reviews,
           addressed' = addressed, rereviewed' = rereviewed, locks' = locks,
           orphans' = orphans, stops' = stops
    PROVE  Inv'
<1>1. TypeOK'
  BY DEF Inv, TypeOK, LoopMoved
<1>2. ASSUME NEW s \in Slots PROVE SlotOK(s)'
  <2>1. SlotOK(s) /\ Home[s] \in Orchestrators
    BY SlotsAssumption DEF Inv
  <2>2. slot[s].at = "claimed" => loop'[Home[s]] = loop[Home[s]]
    BY <2>1 DEF SlotOK, LoopMoved, Inv, TypeOK
  <2> QED BY <2>1, <2>2 DEF SlotOK, CleanupOK, Plan, Left
<1>3. ClaimedOnce'
  BY DEF Inv, ClaimedOnce
<1> QED BY <1>1, <1>2, <1>3 DEF Inv

LEMMA LabelTyped ==
    ASSUME TypeOK, NEW call \in {"addLabel", "removeLabel"}, NEW answer, NEW label \in Labels,
           Label(call, answer, label)
    PROVE  labels' \subseteq Labels
BY DEF Label, TypeOK

LEMMA DetectInv ==
    ASSUME Inv, NEW o \in Orchestrators,
           SweepEnd(o) \/ Detect(o) \/ MaybeFlip(o) \/ Unreview(o) \/ Requeue(o)
    PROVE  Inv' /\ LoopMoved(o)
<1> USE DEF pr, markers, hosts
<1>1. CASE SweepEnd(o)
  <2>1. LoopMoved(o)
    BY <1>1, StepMoves DEF Inv, SweepEnd, LoopSteps
  <2> QED BY <1>1, <2>1, LoopAlone DEF SweepEnd, Inv, TypeOK
<1>2. CASE Detect(o)
  <2>1. [LoopAt("flip", "reviewer") EXCEPT !.labels = labels, !.head = head] \in LoopStates
    BY LoopAtTyped DEF Inv, TypeOK, LoopStates, LoopSteps, Kinds
  <2>2. LoopMoved(o)
    BY <1>2, <2>1, ToTickMoves, ContinueMoves DEF Inv, Detect
  <2> QED BY <1>2, <2>2, LoopAlone DEF Detect, Inv, TypeOK
<1>3. CASE MaybeFlip(o)
  <2>1. LoopMoved(o)
    BY <1>3, ToTickMoves, ToAddressMoves, StepMoves DEF Inv, MaybeFlip, LoopSteps
  <2> QED BY <1>3, <2>1, LoopAlone DEF MaybeFlip, Inv, TypeOK
<1>4. CASE Unreview(o)
  <2>1. LoopMoved(o)
    BY <1>4, ToTickMoves, StepMoves DEF Inv, Unreview, LoopSteps
  <2>2. labels' \subseteq Labels
    BY <1>4, LabelTyped DEF Inv, Unreview, Labels, DoneLabel, Kinds
  <2> QED BY <1>4, <2>1, <2>2, LoopAlone DEF Unreview, Inv
<1>5. CASE Requeue(o)
  <2>1. LoopMoved(o)
    BY <1>5, ToTickMoves, ToAddressMoves DEF Inv, Requeue
  <2>2. labels' \subseteq Labels
    BY <1>5, LabelTyped DEF Inv, Requeue, Labels, QueueLabel, Kinds
  <2> QED BY <1>5, <2>1, <2>2, LoopAlone DEF Requeue, Inv
<1> QED BY <1>1, <1>2, <1>3, <1>4, <1>5

LEMMA AddressInv ==
    ASSUME Inv, NEW o \in Orchestrators,
           CountCycles(o) \/ LookForUnaddressed(o) \/ LabelAddress(o) \/ Tick(o)
    PROVE  Inv' /\ LoopMoved(o)
<1> USE DEF pr, markers, hosts
<1>1. CASE CountCycles(o)
  <2>1. [loop[o] EXCEPT !.at = "unaddressed", !.seen = addressed] \in LoopStates
    BY DEF Inv, TypeOK, LoopStates, LoopSteps
  <2>2. LoopMoved(o)
    BY <1>1, <2>1, ToTickMoves, ContinueMoves DEF Inv, CountCycles
  <2> QED BY <1>1, <2>2, LoopAlone DEF CountCycles, Inv, TypeOK
<1>2. CASE LookForUnaddressed(o)
  <2>1. LoopMoved(o)
    BY <1>2, ToTickMoves, StepMoves DEF Inv, LookForUnaddressed, LoopSteps
  <2> QED BY <1>2, <2>1, LoopAlone DEF LookForUnaddressed, Inv, TypeOK
<1>3. CASE LabelAddress(o)
  <2>1. LoopMoved(o)
    BY <1>3, ToTickMoves DEF Inv, LabelAddress
  <2>2. labels' \subseteq Labels
    BY <1>3, LabelTyped DEF Inv, LabelAddress, Labels, QueueLabel, Kinds
  <2> QED BY <1>3, <2>1, <2>2, LoopAlone DEF LabelAddress, Inv
<1>4. CASE Tick(o)
  <2>1. LoopMoved(o)
    BY <1>4, TickNextMoves, StepMoves DEF Inv, Tick, LoopSteps
  <2> QED BY <1>4, <2>1, LoopAlone DEF Tick, Inv, TypeOK
<1> QED BY <1>1, <1>2, <1>3, <1>4

LEMMA SweepLockInv ==
    ASSUME Inv, NEW o \in Orchestrators, NEW kind \in Kinds, SweepLock(o, kind)
    PROVE  Inv'
<1>1. TypeOK'
  BY DEF Inv, TypeOK, SweepLock, pr, markers, hosts
<1>2. \A s \in Slots : SlotOK(s)'
  BY DEF Inv, SweepLock, SlotOK, CleanupOK, Plan, Left
<1>3. ClaimedOnce'
  BY DEF Inv, SweepLock, ClaimedOnce
<1> QED BY <1>1, <1>2, <1>3 DEF Inv

\* A claim is won.
LEMMA WinInv ==
    ASSUME Inv, NEW o \in Orchestrators, NEW s \in Free(o, loop[o].kind),
           locks' = locks \cup {loop[o].kind},
           slot' = [slot EXCEPT ![s].at = "claimed"],
           loop[o].at # "mark", Step(o, "mark"), labels' = labels,
           head' = head, reviews' = reviews, addressed' = addressed,
           rereviewed' = rereviewed, orphans' = orphans, stops' = stops
    PROVE  Inv' /\ LoopMoved(o) /\ SlotMoved(s)
<1>1. /\ LoopMoved(o) /\ loop'[o].at = "mark" /\ loop'[o].kind = loop[o].kind
      /\ loop[o].kind \in Kinds
  BY StepMoves DEF Inv, LoopSteps, TypeOK, LoopStates
<1>2. /\ s \in Slots /\ Home[s] = o /\ KindOf(s) = loop[o].kind
      /\ slot[s] \in SlotStates /\ slot[s].at = "free"
  BY DEF Free, Inv, TypeOK
<1>3. /\ slot'[s] = [slot[s] EXCEPT !.at = "claimed"] /\ slot'[s].at = "claimed"
      /\ slot'[s].todo = slot[s].todo /\ SlotMoved(s)
  <2>1. slot'[s] = [slot[s] EXCEPT !.at = "claimed"]
    BY <1>2 DEF Inv, TypeOK
  <2>2. slot'[s].at = "claimed" /\ slot'[s].todo = slot[s].todo /\ slot'[s] \in SlotStates
    <3> DEFINE next == [slot[s] EXCEPT !.at = "claimed"]
    <3>1. slot[s] \in SlotStates /\ "claimed" \in SlotSteps
      BY <1>2 DEF SlotSteps
    <3>2. next \in SlotStates /\ next.at = "claimed" /\ next.todo = slot[s].todo
      BY <3>1, NextStepTyped, Zenon
    <3> QED BY <2>1, <3>2, Zenon
  <2>3. slot' = [slot EXCEPT ![s] = slot'[s]]
    BY <1>2 DEF Inv, TypeOK
  <2> QED BY <2>1, <2>2, <2>3 DEF SlotMoved
<1>4. \A r \in Slots : r # s => slot'[r] = slot[r]
  BY <1>3 DEF SlotMoved, Inv, TypeOK
<1>5. TypeOK'
  BY <1>1, <1>2, <1>3, <1>4 DEF Inv, TypeOK, LoopMoved, SlotMoved
<1>6. ASSUME NEW r \in Slots PROVE SlotOK(r)'
  <2>1. SlotOK(r) /\ Home[r] \in Orchestrators
    BY SlotsAssumption DEF Inv
  <2>2. CASE r = s
    BY <1>1, <1>2, <1>3, <2>2 DEF SlotOK, CleanupOK
  <2>3. CASE r # s
    <3>1. slot[r].at = "claimed" => loop'[Home[r]] = loop[Home[r]]
      BY <1>1, <2>1 DEF SlotOK, LoopMoved, Inv, TypeOK
    <3> QED BY <1>4, <2>1, <2>3, <3>1 DEF SlotOK, CleanupOK, Plan, Left
  <2> QED BY <2>2, <2>3
\* No other slot of this orchestrator was claimed, or the loop would be marking it.
<1>7. ClaimedOnce'
  <2>1. ASSUME NEW r \in Slots, r # s, slot'[r].at = "claimed" PROVE Home[r] # o
    BY <1>4, <2>1 DEF Inv, SlotOK
  <2> QED BY <1>2, <1>4, <2>1 DEF Inv, ClaimedOnce
<1> QED BY <1>1, <1>3, <1>5, <1>6, <1>7 DEF Inv

LEMMA ClaimInv ==
    ASSUME Inv, NEW o \in Orchestrators, Claim(o)
    PROVE  Inv'
<1>1. CASE \E s \in Free(o, loop[o].kind) : slot' = [slot EXCEPT ![s].at = "claimed"]
                                         /\ locks' = locks \cup {loop[o].kind}
                                         /\ Step(o, "mark")
  BY <1>1, WinInv DEF Claim, pr, markers, hosts
<1>2. CASE TickNext(o) /\ slot' = slot /\ locks' \in {locks, locks \cup {loop[o].kind}}
  <2>1. LoopMoved(o) /\ loop[o].kind \in Kinds
    BY <1>2, TickNextMoves DEF Inv, TypeOK, LoopStates
  <2>2. TypeOK'
    BY <1>2, <2>1 DEF Inv, TypeOK, LoopMoved, Claim, pr, markers, hosts
  <2>3. ASSUME NEW s \in Slots PROVE SlotOK(s)'
    <3>1. SlotOK(s) /\ Home[s] \in Orchestrators
      BY SlotsAssumption DEF Inv
    <3>2. slot[s].at = "claimed" => loop'[Home[s]] = loop[Home[s]]
      BY <2>1, <3>1 DEF SlotOK, LoopMoved, Inv, TypeOK, Claim
    <3> QED BY <1>2, <3>1, <3>2 DEF SlotOK, CleanupOK, Plan, Left
  <2>4. ClaimedOnce'
    BY <1>2 DEF Inv, ClaimedOnce
  <2> QED BY <2>2, <2>3, <2>4 DEF Inv
<1> QED BY <1>1, <1>2 DEF Claim

LEMMA ContainerTyped ==
    ASSUME TypeOK
    PROVE  \A s \in Slots : Container(s) \in Containers /\ Container(s).kind = KindOf(s)
BY KindTyped DEF TypeOK, SlotStates, Container, Containers

LEMMA LeaveBehindTyped ==
    ASSUME TypeOK, NEW o \in Orchestrators, NEW left, left \subseteq Containers,
           LeaveBehind(o, left)
    PROVE  /\ orphans' \in [Orchestrators -> SUBSET Containers]
           /\ \A p \in Orchestrators : orphans'[p] \subseteq orphans[p] \cup left
BY DEF TypeOK, LeaveBehind

LEMMA CrashInv ==
    ASSUME Inv, NEW o \in Orchestrators, Crash(o) \/ Restart(o)
    PROVE  Inv' /\ LoopMoved(o) /\ loop'[o].at \in {"down", "sweep"}
<1> USE DEF pr, markers, hosts
<1>1. CASE Crash(o)
  <2>1. LoopMoved(o) /\ loop'[o].at = "down"
    BY <1>1, LoopAtTyped, ContinueMoves DEF Crash, Inv, LoopSteps, Kinds
  <2>2. \A s \in Slots : slot'[s] = IF Home[s] = o THEN FreeSlot ELSE slot[s]
    BY <1>1 DEF Crash
  <2>3. TypeOK'
    <3>1. stops' \in 0 .. MaxStops
      BY <1>1, BoundsAssumption DEF Crash, Inv, TypeOK
    <3>2. /\ slot' \in [Slots -> SlotStates]
          /\ \A s \in Slots : slot'[s].at = "clean" <=> slot'[s].todo # << >>
      BY <1>1, <2>2, FreeSlotTyped DEF Crash, Inv, TypeOK
    <3>3. orphans' \in [Orchestrators -> SUBSET Containers]
      BY <1>1, LeaveBehindTyped, ContainerTyped DEF Crash, Inv
    <3> QED BY <1>1, <2>1, <3>1, <3>2, <3>3 DEF Crash, Inv, TypeOK, LoopMoved
  <2>4. ASSUME NEW s \in Slots PROVE SlotOK(s)'
    <3>1. SlotOK(s) /\ Home[s] \in Orchestrators
      BY SlotsAssumption DEF Inv
    <3>2. CASE Home[s] = o
      BY <2>2, <3>2, FreeSlotTyped DEF SlotOK, CleanupOK
    <3>3. CASE Home[s] # o
      BY <2>1, <2>2, <3>1, <3>3 DEF SlotOK, CleanupOK, Plan, Left, LoopMoved, Inv, TypeOK
    <3> QED BY <3>2, <3>3
  <2>5. ClaimedOnce'
    BY <2>2, FreeSlotTyped DEF Inv, ClaimedOnce
  <2> QED BY <2>1, <2>3, <2>4, <2>5 DEF Inv
<1>2. CASE Restart(o)
  <2>1. LoopMoved(o) /\ loop'[o].at = "sweep"
    BY <1>2, LoopAtTyped, ContinueMoves DEF Restart, Inv, LoopSteps, Kinds
  <2> QED BY <1>2, <2>1, LoopAlone DEF Restart, Inv, TypeOK
<1> QED BY <1>1, <1>2

\* Reviews, pushes and labels from outside leave loops, dispatches and locks alone.
Outside ==
    \/ HumanPush \/ AskForReview \/ \E state \in PeoplePost : HumanReview(state)
    \/ \E o \in Orchestrators : \E c \in orphans[o] :
         OrphanEnds(o, c) \/ \E state \in ReviewStates : OrphanPosts(o, c, state)

LEMMA ReviewsTyped ==
    ASSUME TypeOK, NEW review \in Review, Len(reviews) < MaxReviews,
           reviews' = Append(reviews, review)
    PROVE  reviews' \in Seq(Review) /\ Len(reviews') <= MaxReviews
<1>1. reviews' \in Seq(Review) /\ Len(reviews') = Len(reviews) + 1
  BY AppendProperties DEF TypeOK
<1> QED BY <1>1, BoundsAssumption, LenProperties DEF TypeOK

\* A left-over container that moves stays of its kind.
LEMMA OrphanTyped ==
    ASSUME TypeOK, NEW o \in Orchestrators, NEW c \in orphans[o],
           OrphanEnds(o, c) \/ \E state \in ReviewStates : OrphanPosts(o, c, state)
    PROVE  /\ orphans' \in [Orchestrators -> SUBSET Containers]
           /\ \A p \in Orchestrators : \A d \in orphans'[p] :
                \E e \in orphans[p] : d.kind = e.kind
<1>1. c \in Containers
  BY DEF TypeOK
<1> DEFINE later == [c EXCEPT !.posted = TRUE]
<1>2. later \in Containers /\ later.kind = c.kind
  BY <1>1 DEF Containers
<1>3. \/ orphans' = [orphans EXCEPT ![o] = orphans[o] \ {c}]
      \/ orphans' = [orphans EXCEPT ![o] = (orphans[o] \ {c}) \cup {later}]
  BY DEF OrphanEnds, OrphanPosts
<1> HIDE DEF later
<1> QED BY <1>2, <1>3 DEF TypeOK

LEMMA OutsideInv ==
    ASSUME Inv, Outside
    PROVE  /\ Inv' /\ slot' = slot /\ loop' = loop /\ addressed' = addressed
           /\ rereviewed' = rereviewed /\ labels \subseteq labels'
           /\ \A p \in Orchestrators : \A d \in orphans'[p] :
                \E e \in orphans[p] : d.kind = e.kind
<1> USE DEF pr, markers, hosts
<1>1. /\ slot' = slot /\ loop' = loop /\ locks' = locks /\ addressed' = addressed
      /\ rereviewed' = rereviewed /\ labels \subseteq labels' /\ stops' = stops
  BY DEF Outside, HumanPush, AskForReview, HumanReview, OrphanEnds, OrphanPosts
<1>2. /\ TypeOK'
      /\ \A p \in Orchestrators : \A d \in orphans'[p] : \E e \in orphans[p] : d.kind = e.kind
  <2>1. CASE HumanPush
    BY <2>1, BoundsAssumption DEF HumanPush, NewHead, Heads, Inv, TypeOK
  <2>2. CASE AskForReview
    BY <2>2 DEF AskForReview, Inv, TypeOK, Labels, QueueLabel, Kinds
  <2>3. CASE \E state \in PeoplePost : HumanReview(state)
    <3>1. \A state \in PeoplePost : [state |-> state, by |-> "human"] \in Review
      BY OutsideAssumption DEF Review
    <3>2. reviews' \in Seq(Review) /\ Len(reviews') <= MaxReviews
      BY <2>3, <3>1, ReviewsTyped DEF HumanReview, Inv
    <3> QED BY <2>3, <3>2 DEF HumanReview, Inv, TypeOK
  <2>4. ASSUME NEW o \in Orchestrators, NEW c \in orphans[o],
               OrphanEnds(o, c) \/ \E state \in ReviewStates : OrphanPosts(o, c, state)
        PROVE  /\ TypeOK'
               /\ \A p \in Orchestrators : \A d \in orphans'[p] :
                    \E e \in orphans[p] : d.kind = e.kind
    <3>1. /\ orphans' \in [Orchestrators -> SUBSET Containers]
          /\ \A p \in Orchestrators : \A d \in orphans'[p] :
               \E e \in orphans[p] : d.kind = e.kind
      BY <2>4, OrphanTyped DEF Inv
    <3>2. \A state \in ReviewStates : [state |-> state, by |-> "crew"] \in Review
      BY DEF Review
    <3>3. reviews' \in Seq(Review) /\ Len(reviews') <= MaxReviews
      BY <2>4, <3>2, ReviewsTyped DEF OrphanEnds, OrphanPosts, Inv, TypeOK
    <3>4. head' = head /\ labels' = labels
      BY <2>4 DEF OrphanEnds, OrphanPosts
    <3> QED BY <1>1, <3>1, <3>3, <3>4 DEF Inv, TypeOK
  <2> QED BY <2>1, <2>2, <2>3, <2>4 DEF Outside
<1>3. \A s \in Slots : SlotOK(s)'
  BY <1>1 DEF Inv, SlotOK, CleanupOK, Plan, Left
<1>4. ClaimedOnce'
  BY <1>1 DEF Inv, ClaimedOnce
<1> QED BY <1>1, <1>2, <1>3, <1>4 DEF Inv

-----------------------------------------------------------------------------
(* Steps of a dispatch keep the invariant.                                  *)

\* A dispatch goes on, and takes nothing.
Works(s) ==
    /\ SlotMoved(s) /\ loop' = loop
    /\ slot[s].at \notin {"free", "claimed"} /\ slot'[s].at # "claimed"
    /\ Locked(s)' => Locked(s)
    /\ Reviewing(s)' => Reviewing(s)

LEMMA SlotAlone ==
    ASSUME Inv, NEW s \in Slots, Works(s),
           slot'[s].at = "clean" <=> slot'[s].todo # << >>,
           head' \in Heads, labels' \subseteq Labels,
           reviews' \in Seq(Review) /\ Len(reviews') <= MaxReviews,
           addressed' \subseteq IDs, rereviewed' \subseteq Heads, locks' \subseteq Kinds,
           orphans' \in [Orchestrators -> SUBSET Containers], stops' = stops,
           SlotOK(s)'
    PROVE  Inv'
<1>1. SlotMoved(s) /\ loop' = loop /\ slot'[s].at # "claimed"
  BY DEF Works
<1>2. \A r \in Slots : r # s => slot'[r] = slot[r]
  BY <1>1 DEF SlotMoved, Inv, TypeOK
<1>3. TypeOK'
  <2>1. /\ slot' \in [Slots -> SlotStates]
        /\ \A r \in Slots : slot'[r].at = "clean" <=> slot'[r].todo # << >>
    BY <1>1, <1>2 DEF SlotMoved, Inv, TypeOK
  <2> QED BY <1>1, <2>1 DEF Inv, TypeOK
<1>4. ASSUME NEW r \in Slots PROVE SlotOK(r)'
  <2>1. CASE r # s
    <3>1. SlotOK(r) /\ slot'[r] = slot[r]
      BY <1>2, <2>1 DEF Inv
    <3> QED BY <1>1, <3>1 DEF SlotOK, CleanupOK, Plan, Left
  <2> QED BY <2>1
<1>5. ClaimedOnce'
  BY <1>1, <1>2 DEF Inv, ClaimedOnce
<1> QED BY <1>3, <1>4, <1>5 DEF Inv

LEMMA MarkAndDispatchInv ==
    ASSUME Inv, NEW o \in Orchestrators, MarkAndDispatch(o)
    PROVE  /\ Inv' /\ LoopMoved(o) /\ loop'[o].at \in {"tick", "sweep"}
           /\ \E s \in Slots : /\ SlotMoved(s) /\ slot[s].at = "claimed" /\ slot'[s].at = "prep"
                              /\ KindOf(s) = loop[o].kind
<1>1. PICK s \in Slots : /\ Home[s] = o /\ KindOf(s) = loop[o].kind /\ slot[s].at = "claimed"
                          /\ slot' = [slot EXCEPT ![s].at = "prep"]
  BY DEF MarkAndDispatch
<1>2. /\ slot[s] \in SlotStates /\ "prep" \in SlotSteps
      /\ slot'[s] = [slot[s] EXCEPT !.at = "prep"]
      /\ slot' = [slot EXCEPT ![s] = slot'[s]]
  BY <1>1 DEF Inv, TypeOK, SlotSteps
<1>3. /\ slot'[s] \in SlotStates /\ slot'[s].at = "prep" /\ slot'[s].todo = slot[s].todo
      /\ SlotMoved(s)
  <2> DEFINE next == [slot[s] EXCEPT !.at = "prep"]
  <2>1. next \in SlotStates /\ next.at = "prep" /\ next.todo = slot[s].todo
    BY <1>2, NextStepTyped, Zenon
  <2> QED BY <1>2, <2>1, Zenon DEF SlotMoved
<1>4. LoopMoved(o) /\ loop'[o].at \in {"tick", "sweep"}
  BY TickNextMoves DEF Inv, MarkAndDispatch
<1>5. labels' \subseteq Labels
  BY LabelTyped DEF Inv, MarkAndDispatch, Labels, LockLabel, Kinds, TypeOK, LoopStates
<1>6. \A r \in Slots : r # s => slot'[r] = slot[r]
  BY <1>3 DEF SlotMoved, Inv, TypeOK
<1>7. /\ head' = head /\ reviews' = reviews /\ addressed' = addressed
      /\ rereviewed' = rereviewed /\ locks' = locks /\ orphans' = orphans /\ stops' = stops
  BY DEF MarkAndDispatch, pr, markers, hosts
<1>8. TypeOK'
  <2>1. /\ slot' \in [Slots -> SlotStates]
        /\ \A r \in Slots : slot'[r].at = "clean" <=> slot'[r].todo # << >>
    BY <1>1, <1>3, <1>6 DEF SlotMoved, Inv, TypeOK
  <2> QED BY <1>4, <1>5, <1>7, <2>1 DEF Inv, TypeOK, LoopMoved
<1>9. ClaimedOnce'
  BY <1>3, <1>6 DEF Inv, ClaimedOnce
\* The claimed slot was the only one of this orchestrator.
<1>10. ASSUME NEW r \in Slots PROVE SlotOK(r)'
  <2>1. CASE r = s
    BY <1>3, <2>1 DEF SlotOK, CleanupOK
  <2>2. CASE r # s
    <3>1. SlotOK(r) /\ Home[r] \in Orchestrators
      BY SlotsAssumption DEF Inv
    <3>2. slot[r].at = "claimed" => Home[r] # o
      BY <1>1, <2>2 DEF Inv, ClaimedOnce
    <3>3. slot[r].at = "claimed" => loop'[Home[r]] = loop[Home[r]]
      BY <1>4, <3>1, <3>2 DEF LoopMoved, Inv, TypeOK
    <3> QED BY <1>6, <2>2, <3>1, <3>3 DEF SlotOK, CleanupOK, Plan, Left
  <2> QED BY <2>1, <2>2
<1> QED BY <1>1, <1>3, <1>4, <1>8, <1>9, <1>10 DEF Inv

\* A cleanup begins.
LEMMA ConcludeInv ==
    ASSUME Inv, NEW s \in Slots, NEW exit \in Exits, Conclude(s, exit),
           slot[s].at \in {"prep", "seen", "run"},
           exit = "guard" => s \in Addressers,
           exit = "ok" => slot[s].at = "run",
           loop' = loop, locks' = locks, addressed' = addressed, rereviewed' = rereviewed,
           labels' = labels, head' = head, reviews' = reviews, stops' = stops,
           orphans' \in [Orchestrators -> SUBSET Containers]
    PROVE  Inv' /\ Works(s) /\ slot'[s].at = "clean"
<1>1. /\ SlotMoved(s)
      /\ slot'[s].at = "clean" /\ slot'[s].exit = exit
      /\ slot'[s].sha = slot[s].sha
      /\ slot'[s].todo = Cleanup(KindOf(s), exit) /\ slot'[s].todo # << >>
  BY ConcludeMoves DEF Inv
<1>2. PICK last \in 1 .. 8 : last = Len(Cleanup(KindOf(s), exit))
  BY PlanTyped, KindTyped
<1>3. CleanupOK(s)'
  <2>1. Plan(s)' = slot'[s].todo /\ Left(s)' = last /\ Len(Plan(s)') = last
    BY <1>1, <1>2 DEF Plan, Left
  <2>2. ASSUME NEW n \in 1 .. last PROVE n + last - last = n
    OBVIOUS
  <2>3. \A n \in 1 .. Left(s)' : slot'[s].todo[n] = Plan(s)'[n + Len(Plan(s)') - Left(s)']
    BY <2>1, <2>2
  <2>4. Left(s)' \in 1 .. Len(Plan(s)')
    BY <2>1
  <2> QED BY <1>1, <2>3, <2>4 DEF CleanupOK
<1>4. SlotOK(s)'
  BY <1>1, <1>3 DEF Inv, SlotOK
<1>5. Locked(s)
  BY DEF Locked
<1>6. Reviewing(s)' => Reviewing(s)
  <2>1. Reviewing(s)' => s \in Reviewers /\ slot'[s].exit = "ok"
    BY <1>1 DEF Reviewing
  <2> QED BY <1>1, <2>1 DEF Reviewing
<1>7. Works(s)
  BY <1>1, <1>5, <1>6 DEF Works
<1> QED BY <1>1, <1>4, <1>7, SlotAlone DEF Inv, TypeOK

LEMMA PrepareInv ==
    ASSUME Inv, NEW s \in Slots, Prepare(s)
    PROVE  Inv' /\ Works(s) /\ ~ Answering(s)'
<1>1. slot[s] \in SlotStates /\ slot[s].at = "prep" /\ slot[s].todo = << >>
  BY DEF Prepare, Inv, TypeOK
<1>2. /\ loop' = loop /\ locks' = locks /\ addressed' = addressed /\ rereviewed' = rereviewed
      /\ labels' = labels /\ head' = head /\ reviews' = reviews
      /\ orphans' = orphans /\ stops' = stops
  BY DEF Prepare, pr, markers, hosts
<1>3. CASE Conclude(s, "fail")
  <2>1. Inv' /\ Works(s) /\ slot'[s].at = "clean"
    BY <1>1, <1>2, <1>3, ConcludeInv DEF Exits, Inv, TypeOK
  <2> QED BY <2>1 DEF Answering
<1>4. CASE s \in Reviewers /\ ~ Conclude(s, "fail")
  <2>1. /\ slot' = [slot EXCEPT ![s].at = "run", ![s].sha = head]
        /\ slot'[s] = [slot[s] EXCEPT !.at = "run", !.sha = head]
    BY <1>4, KindTyped DEF Prepare, Inv, TypeOK
  <2>2. /\ slot'[s] \in SlotStates /\ slot'[s].at = "run" /\ slot'[s].todo = slot[s].todo
        /\ slot'[s].sha = head
    BY <1>1, <2>1 DEF SlotStates, SlotSteps, Inv, TypeOK
  <2>3. SlotMoved(s)
    BY <2>1, <2>2 DEF SlotMoved, Inv, TypeOK
  <2>4. SlotOK(s)'
    BY <1>2, <2>2 DEF SlotOK, CleanupOK, Inv, TypeOK
  <2>5. Works(s) /\ ~ Answering(s)'
    BY <1>1, <1>2, <1>4, <2>2, <2>3, SlotsAssumption DEF Works, Reviewing, Locked, Answering
  <2> QED BY <1>1, <1>2, <2>2, <2>4, <2>5, SlotAlone DEF Inv, TypeOK
<1>5. CASE s \notin Reviewers /\ ~ Conclude(s, "fail")
  <2>1. /\ slot' = [slot EXCEPT ![s].at = "seen", ![s].ids = Triggers]
        /\ slot'[s] = [slot[s] EXCEPT !.at = "seen", !.ids = Triggers]
    <3>1. slot' = [slot EXCEPT ![s].at = "seen", ![s].ids = Triggers]
      BY <1>5, KindTyped, SlotsAssumption DEF Prepare, Slots
    <3>2. slot \in [Slots -> SlotStates]
      BY DEF Inv, TypeOK
    <3> QED BY <3>1, <3>2
  <2>2. Triggers \subseteq IDs
    <3>1. Len(reviews) \in Nat /\ Len(reviews) <= MaxReviews /\ DOMAIN reviews = 1 .. Len(reviews)
      BY LenProperties DEF Inv, TypeOK
    <3> QED BY <3>1, BoundsAssumption DEF Triggers, IDs
  <2>3. /\ slot'[s] \in SlotStates /\ slot'[s].at = "seen" /\ slot'[s].todo = slot[s].todo
    <3>1. PICK due \in SUBSET IDs : due = Triggers
      BY <2>2
    <3>2. slot'[s] = [slot[s] EXCEPT !.at = "seen", !.ids = due]
      BY <2>1, <3>1
    <3> QED BY <1>1, <3>2 DEF SlotStates, SlotSteps
  <2>4. SlotMoved(s)
    BY <2>1, <2>3 DEF SlotMoved, Inv, TypeOK
  <2>5. SlotOK(s)'
    BY <1>5, <2>3 DEF SlotOK, CleanupOK, Slots
  <2>6. Works(s) /\ ~ Answering(s)'
    BY <1>1, <1>2, <1>5, <2>3, <2>4 DEF Works, Reviewing, Locked, Answering
  <2> QED BY <1>1, <1>2, <2>3, <2>5, <2>6, SlotAlone DEF Inv, TypeOK
<1> QED BY <1>3, <1>4, <1>5

LEMMA EndInv ==
    ASSUME Inv, NEW s \in Slots, Fail(s) \/ Succeed(s) \/ TimeOut(s)
    PROVE  Inv' /\ Works(s) /\ slot'[s].at = "clean"
<1>1. /\ loop' = loop /\ locks' = locks /\ addressed' = addressed /\ rereviewed' = rereviewed
      /\ labels' = labels /\ head' = head /\ reviews' = reviews /\ stops' = stops
  BY DEF Fail, Succeed, TimeOut, pr, markers, hosts
<1>2. orphans' \in [Orchestrators -> SUBSET Containers]
  <2>1. CASE TimeOut(s)
    <3>1. {Container(s)} \subseteq Containers /\ Home[s] \in Orchestrators
      BY ContainerTyped, SlotsAssumption DEF Inv
    <3> QED BY <2>1, <3>1, LeaveBehindTyped DEF TimeOut, Inv
  <2> QED BY <2>1 DEF Fail, Succeed, hosts, Inv, TypeOK
<1>3. CASE Fail(s) \/ TimeOut(s)
  BY <1>1, <1>2, <1>3, ConcludeInv DEF Fail, TimeOut, Exits
<1>4. CASE Succeed(s)
  BY <1>1, <1>2, <1>4, ConcludeInv DEF Succeed, Exits
<1> QED BY <1>3, <1>4

LEMMA SnapshotInv ==
    ASSUME Inv, NEW s \in Slots, Snapshot(s)
    PROVE  /\ Inv' /\ Works(s) /\ s \in Addressers
           /\ Answering(s)' => ~ NameTaken(s) /\ slot'[s].ids \cap addressed = {}
<1>1. /\ loop' = loop /\ locks' = locks /\ addressed' = addressed /\ rereviewed' = rereviewed
      /\ labels' = labels /\ head' = head /\ reviews' = reviews
      /\ orphans' = orphans /\ stops' = stops
  BY DEF Snapshot, pr, markers, hosts
<1>2. slot[s] \in SlotStates /\ slot[s].at = "seen" /\ slot[s].todo = << >> /\ s \in Addressers
  BY DEF Snapshot, Inv, TypeOK, SlotOK
<1>3. CASE \E exit \in {"guard", "fail"} : Conclude(s, exit)
  <2>1. Inv' /\ Works(s) /\ slot'[s].at = "clean"
    BY <1>1, <1>2, <1>3, ConcludeInv DEF Exits, Inv, TypeOK
  <2> QED BY <1>2, <2>1 DEF Answering
<1>4. CASE ~ NameTaken(s) /\ slot' = [slot EXCEPT ![s].at = "run", ![s].ids = @ \ addressed]
  <2>1. slot'[s] = [slot[s] EXCEPT !.at = "run", !.ids = slot[s].ids \ addressed]
    BY <1>4 DEF Inv, TypeOK
  <2>2. /\ slot'[s] \in SlotStates /\ slot'[s].at = "run" /\ slot'[s].todo = slot[s].todo
        /\ slot'[s].ids = slot[s].ids \ addressed
    BY <1>2, <2>1 DEF SlotStates, SlotSteps
  <2>3. SlotMoved(s)
    BY <1>4, <2>1, <2>2 DEF SlotMoved, Inv, TypeOK
  <2>4. SlotOK(s)'
    BY <1>2, <2>2, SlotsAssumption DEF SlotOK, CleanupOK
  <2>5. Works(s)
    BY <1>1, <1>2, <2>2, <2>3, SlotsAssumption DEF Works, Reviewing, Locked
  <2>6. Inv'
    BY <1>1, <1>2, <2>2, <2>4, <2>5, SlotAlone DEF Inv, TypeOK
  <2> QED BY <1>2, <1>4, <2>2, <2>5, <2>6
<1> QED BY <1>3, <1>4 DEF Snapshot

LEMMA WorkInv ==
    ASSUME Inv, NEW s \in Slots, Push(s) \/ \E state \in ReviewStates : Post(s, state)
    PROVE  Inv' /\ Works(s) /\ (s \in Addressers => slot' = slot)
<1>1. /\ loop' = loop /\ locks' = locks /\ addressed' = addressed /\ rereviewed' = rereviewed
      /\ labels' = labels /\ orphans' = orphans /\ stops' = stops
  BY DEF Push, Post, markers, hosts
<1>2. slot[s] \in SlotStates /\ slot[s].at = "run" /\ slot[s].todo = << >>
  BY DEF Push, Post, Inv, TypeOK
<1>3. CASE Push(s)
  <2>1. slot' = slot /\ reviews' = reviews /\ head' \in Heads
    BY <1>3, BoundsAssumption DEF Push, NewHead, Heads, Inv, TypeOK
  <2>2. SlotMoved(s) /\ SlotOK(s)'
    BY <1>1, <2>1 DEF SlotMoved, SlotOK, CleanupOK, Plan, Left, Inv, TypeOK
  <2>3. Works(s)
    BY <1>1, <1>2, <2>1, <2>2 DEF Works, Reviewing, Locked
  <2> QED BY <1>1, <1>2, <2>1, <2>2, <2>3, SlotAlone DEF Inv, TypeOK
<1>4. ASSUME NEW state \in ReviewStates, Post(s, state)
      PROVE  Inv' /\ Works(s) /\ (s \in Addressers => slot' = slot)
  <2>1. head' = head /\ slot'[s] = [slot[s] EXCEPT !.posted = TRUE] /\ s \in Reviewers
    BY <1>4, KindTyped DEF Post, Inv, TypeOK
  <2>2. /\ slot'[s] \in SlotStates /\ slot'[s].at = "run" /\ slot'[s].todo = slot[s].todo
        /\ slot'[s].sha = slot[s].sha
    BY <1>2, <2>1 DEF SlotStates
  <2>3. SlotMoved(s)
    BY <1>4, <2>1, <2>2 DEF SlotMoved, Post, Inv, TypeOK
  <2>4. SlotOK(s)'
    BY <1>2, <2>2 DEF SlotOK, CleanupOK, Inv
  <2>5. Works(s)
    BY <1>1, <1>2, <2>1, <2>2, <2>3 DEF Works, Reviewing, Locked
  <2>6. reviews' \in Seq(Review) /\ Len(reviews') <= MaxReviews
    <3>1. [state |-> state, by |-> "crew"] \in Review
      BY DEF Review
    <3> QED BY <1>4, <3>1, ReviewsTyped DEF Post, Inv
  <2>7. Inv'
    BY <1>1, <1>2, <2>1, <2>2, <2>4, <2>5, <2>6, SlotAlone DEF Inv, TypeOK
  <2> QED BY <2>1, <2>5, <2>7, SlotsAssumption
<1> QED BY <1>3, <1>4

-----------------------------------------------------------------------------
(* Steps of a cleanup keep the invariant.                                   *)

LEMMA RestInv ==
    ASSUME Inv, NEW s \in Slots, slot[s].at = "clean", SlotMoved(s), RestOf(s, slot'[s]),
           loop' = loop, labels' \subseteq Labels, addressed' = addressed,
           rereviewed' \subseteq Heads, head' = head, reviews' = reviews, orphans' = orphans,
           stops' = stops, locks' \subseteq locks
    PROVE  /\ Inv' /\ Works(s) /\ ~ Reviewing(s)' /\ slot'[s].at # "run"
           /\ At(s, "unlock") => Locked(s) /\ ~ Locked(s)'
<1>1. /\ SlotOK(s)'
      /\ Locked(s)' => Locked(s) /\ ~ At(s, "unlock")
      /\ ~ Reviewing(s)' /\ slot'[s].at \in {"free", "clean"}
  BY RestOK DEF Inv
<1>2. slot'[s].at = "clean" <=> slot'[s].todo # << >>
  BY DEF RestOf
<1>3. Works(s)
  BY <1>1 DEF Works
<1>4. Inv'
  BY <1>1, <1>2, <1>3, SlotAlone DEF Inv, TypeOK
<1>5. At(s, "unlock") => Locked(s)
  <2>1. /\ Left(s) \in 1 .. 8 /\ UnlockLeft(KindOf(s), slot[s].exit) \in {2, 4, 6}
        /\ At(s, "unlock") => Left(s) = UnlockLeft(KindOf(s), slot[s].exit)
    BY CleanPlace DEF Inv, SlotOK
  <2> QED BY <2>1 DEF Locked
<1> QED BY <1>1, <1>3, <1>4, <1>5

LEMMA MarkHeadInv ==
    ASSUME Inv, NEW s \in Slots, MarkHead(s)
    PROVE  Inv' /\ Works(s) /\ ~ Reviewing(s)' /\ Reviewing(s) /\ slot'[s].at # "run"
<1>1. slot[s].at = "clean" /\ At(s, "mark") /\ s \in Reviewers
  BY KindTyped DEF MarkHead, At
<1>2. SlotMoved(s) /\ RestOf(s, slot'[s])
  BY <1>1, DoneMoves DEF MarkHead, Inv
<1>3. slot[s].exit = "ok" /\ Left(s) = 8
  BY <1>1, CleanPlace DEF Inv, SlotOK, At
<1>4. rereviewed' \subseteq Heads
  BY <1>1, <1>3 DEF Inv, TypeOK, SlotOK, MarkHead, MarkedHead
<1>5. Reviewing(s)
  BY <1>1, <1>3 DEF Reviewing
<1> QED BY <1>1, <1>2, <1>4, <1>5, RestInv DEF MarkHead, Inv, TypeOK, pr, hosts

LEMMA MarkReviewInv ==
    ASSUME Inv, NEW s \in Slots, MarkReview(s)
    PROVE  Inv' /\ Works(s) /\ s \in Addressers /\ Locked(s) /\ slot'[s].at = "clean"
<1>1. PICK id \in slot[s].unmarked :
        /\ addressed' \in {addressed, addressed \cup {id}}
        /\ slot' = [slot EXCEPT ![s].unmarked = @ \ {id}]
  BY DEF MarkReview
<1>2. /\ slot[s] \in SlotStates /\ slot[s].at = "clean" /\ At(s, "mark") /\ s \in Addressers
      /\ loop' = loop /\ locks' = locks /\ labels' = labels /\ head' = head
      /\ reviews' = reviews /\ rereviewed' = rereviewed
      /\ orphans' = orphans /\ stops' = stops
  BY KindTyped DEF MarkReview, At, Inv, TypeOK, pr, hosts
<1>3. slot'[s] = [slot[s] EXCEPT !.unmarked = slot[s].unmarked \ {id}]
  BY <1>1 DEF Inv, TypeOK
<1>4. /\ slot'[s] \in SlotStates
      /\ slot'[s].at = "clean" /\ slot'[s].exit = slot[s].exit /\ slot'[s].sha = slot[s].sha
      /\ slot'[s].todo = slot[s].todo /\ id \in IDs
  BY <1>2, <1>3 DEF SlotStates
<1>5. SlotMoved(s)
  BY <1>1, <1>3, <1>4 DEF SlotMoved, Inv, TypeOK
<1>6. SlotOK(s)'
  BY <1>2, <1>4 DEF SlotOK, CleanupOK, Plan, Left, Inv
\* The marker comes before the lock label is removed.
<1>7. Locked(s)
  <2>1. Left(s) = 5 /\ slot[s].exit = "ok"
    BY <1>2, CleanPlace DEF At, Inv, SlotOK
  <2> QED BY <1>2, <2>1, KindTyped, SlotsAssumption DEF Locked, UnlockLeft, Slots
<1>8. Works(s)
  BY <1>2, <1>4, <1>5, <1>7, SlotsAssumption DEF Works, Reviewing
<1>9. addressed' \subseteq IDs /\ slot'[s].todo # << >>
  BY <1>1, <1>2, <1>4 DEF Inv, TypeOK
<1> QED BY <1>2, <1>4, <1>6, <1>7, <1>8, <1>9, SlotAlone DEF Inv, TypeOK

LEMMA AskInv ==
    ASSUME Inv, NEW s \in Slots, AskHead(s) \/ AskVerdict(s) \/ AllMarked(s)
    PROVE  Inv' /\ Works(s) /\ ~ Reviewing(s)' /\ slot'[s].at # "run"
<1>1. /\ slot[s].at = "clean" /\ slot[s] \in SlotStates
      /\ loop' = loop /\ locks' = locks /\ labels' = labels /\ head' = head
      /\ reviews' = reviews /\ addressed' = addressed /\ rereviewed' = rereviewed
      /\ orphans' = orphans /\ stops' = stops
  BY DEF AskHead, AskVerdict, AllMarked, At, pr, markers, hosts, Inv, TypeOK
<1>2. RestOf(s, Rest(s)) /\ Rest(s) \in SlotStates
  BY <1>1, RestIsRest DEF Inv
<1>3. SlotMoved(s) /\ RestOf(s, slot'[s])
  <2>1. CASE AllMarked(s)
    BY <1>1, <2>1, DoneMoves DEF AllMarked, Inv
  <2>2. CASE AskHead(s)
    <3>1. PICK ids \in SUBSET IDs : slot' = [slot EXCEPT ![s] = [Rest(s) EXCEPT !.unmarked = ids]]
      <4>1. slot[s].ids \in SUBSET IDs
        BY <1>1 DEF SlotStates
      <4> QED BY <2>2, <4>1 DEF AskHead, MarkedReviews
    <3>2. slot'[s] = [Rest(s) EXCEPT !.unmarked = ids] /\ slot' = [slot EXCEPT ![s] = slot'[s]]
      BY <3>1 DEF Inv, TypeOK
    <3>3. /\ slot'[s] \in SlotStates
          /\ slot'[s].at = Rest(s).at /\ slot'[s].exit = Rest(s).exit
          /\ slot'[s].sha = Rest(s).sha /\ slot'[s].todo = Rest(s).todo
      BY <1>2, <3>2 DEF SlotStates
    <3> QED BY <1>2, <3>2, <3>3 DEF SlotMoved, RestOf
  <2>3. CASE AskVerdict(s)
    <3>1. PICK verdict \in ReviewStates \cup {""} :
            slot' = [slot EXCEPT ![s] = [Rest(s) EXCEPT !.verdict = verdict]]
      <4>1. LatestVerdict \in ReviewStates \cup {""}
        BY LatestVerdictTyped DEF Inv, TypeOK
      <4> QED BY <2>3, <4>1 DEF AskVerdict
    <3>2. slot'[s] = [Rest(s) EXCEPT !.verdict = verdict] /\ slot' = [slot EXCEPT ![s] = slot'[s]]
      BY <3>1 DEF Inv, TypeOK
    <3>3. /\ slot'[s] \in SlotStates
          /\ slot'[s].at = Rest(s).at /\ slot'[s].exit = Rest(s).exit
          /\ slot'[s].sha = Rest(s).sha /\ slot'[s].todo = Rest(s).todo
      BY <1>2, <3>2 DEF SlotStates
    <3> QED BY <1>2, <3>2, <3>3 DEF SlotMoved, RestOf
  <2> QED BY <2>1, <2>2, <2>3
<1> QED BY <1>1, <1>3, RestInv DEF Inv, TypeOK

LEMMA RelabelInv ==
    ASSUME Inv, NEW s \in Slots,
           Unlock(s) \/ Dequeue(s) \/ AddDone(s) \/ Flag(s) \/ Unflag(s)
    PROVE  /\ Inv' /\ Works(s) /\ ~ Reviewing(s)' /\ slot'[s].at # "run"
           /\ At(s, "unlock") => Locked(s) /\ ~ Locked(s)'
<1>1. /\ slot[s].at = "clean" /\ Done(s)
      /\ loop' = loop /\ locks' = locks /\ head' = head /\ reviews' = reviews
      /\ addressed' = addressed /\ rereviewed' = rereviewed
      /\ orphans' = orphans /\ stops' = stops
  BY DEF Unlock, Dequeue, AddDone, Flag, Unflag, At, pr, markers, hosts
<1>2. labels' \subseteq Labels
  <2>1. /\ {"merge", "address"} \subseteq Labels
        /\ {QueueLabel(KindOf(s)), LockLabel(KindOf(s)), DoneLabel(KindOf(s))} \subseteq Labels
    BY KindTyped DEF Labels, QueueLabel, Kinds
  <2>2. CASE Unlock(s) \/ Dequeue(s) \/ AddDone(s)
    BY <2>1, <2>2, LabelTyped DEF Unlock, Dequeue, AddDone, Inv
  <2>3. CASE Flag(s)
    BY <2>1, <2>3, LabelTyped DEF Flag, Inv, TypeOK
  <2>4. CASE Unflag(s)
    BY <2>1, <2>4, LabelTyped DEF Unflag, Inv, TypeOK
  <2> QED BY <2>2, <2>3, <2>4
<1> QED BY <1>1, <1>2, DoneMoves, RestInv DEF Inv, TypeOK

LEMMA ReleaseInv ==
    ASSUME Inv, NEW s \in Slots, Release(s)
    PROVE  Inv' /\ Works(s) /\ ~ Reviewing(s)' /\ slot'[s].at # "run"
<1>1. /\ slot[s].at = "clean"
      /\ loop' = loop /\ labels' = labels /\ head' = head /\ reviews' = reviews
      /\ addressed' = addressed /\ rereviewed' = rereviewed
      /\ orphans' = orphans /\ stops' = stops /\ locks' \subseteq locks
  BY DEF Release, At, pr, markers, hosts
<1>2. SlotMoved(s) /\ RestOf(s, slot'[s])
  <2>1. CASE Done(s)
    BY <1>1, <2>1, DoneMoves DEF Inv
  <2>2. CASE slot' = [slot EXCEPT ![s] = FreeSlot]
    BY <2>2, FreeSlotTyped DEF SlotMoved, RestOf, Inv, TypeOK
  <2> QED BY <2>1, <2>2 DEF Release
<1> QED BY <1>1, <1>2, RestInv DEF Inv, TypeOK

-----------------------------------------------------------------------------
(* The invariant holds always.                                              *)

LEMMA InitInv == Init => Inv
<1> SUFFICES ASSUME Init PROVE Inv
  OBVIOUS
<1>1. \A s \in Slots : slot[s] = FreeSlot /\ slot[s].at = "free"
  BY FreeSlotTyped DEF Init
<1>2. TypeOK
  <2>1. head \in Heads /\ stops \in 0 .. MaxStops
    BY BoundsAssumption DEF Init, Heads
  <2>2. labels \subseteq Labels
    BY DEF Init, Labels, QueueLabel, Kinds
  <2>3. reviews \in Seq(Review) /\ Len(reviews) <= MaxReviews
    BY BoundsAssumption, EmptySeq DEF Init
  <2>4. loop \in [Orchestrators -> LoopStates]
    BY LoopAtTyped DEF Init, LoopSteps, Kinds
  <2>5. /\ slot \in [Slots -> SlotStates]
        /\ \A s \in Slots : slot[s].at = "clean" <=> slot[s].todo # << >>
    BY FreeSlotTyped DEF Init
  <2> QED BY <2>1, <2>2, <2>3, <2>4, <2>5 DEF TypeOK, Init
<1>3. \A s \in Slots : SlotOK(s)
  BY <1>1 DEF SlotOK, CleanupOK
<1>4. ClaimedOnce
  BY <1>1 DEF ClaimedOnce
<1> QED BY <1>2, <1>3, <1>4 DEF Inv

LEMMA StutterInv ==
    ASSUME Inv, UNCHANGED vars
    PROVE  Inv'
<1>1. TypeOK'
  BY DEF Inv, vars, TypeOK
<1>2. \A s \in Slots : SlotOK(s)'
  BY DEF Inv, vars, SlotOK, CleanupOK, Plan, Left
<1>3. ClaimedOnce'
  BY DEF Inv, vars, ClaimedOnce
<1> QED BY <1>1, <1>2, <1>3 DEF Inv

LEMMA NextInv ==
    ASSUME Inv, [Next]_vars
    PROVE  Inv'
<1>1. ASSUME NEW o \in Orchestrators,
             LoopStep(o) \/ Crash(o) \/ Restart(o) \/ \E kind \in Kinds : SweepLock(o, kind)
      PROVE  Inv'
  BY <1>1, DetectInv, AddressInv, ClaimInv, MarkAndDispatchInv, CrashInv, SweepLockInv
     DEF LoopStep
<1>2. ASSUME NEW s \in Slots,
             SlotStep(s) \/ Push(s) \/ \E state \in ReviewStates : Post(s, state)
      PROVE  Inv'
  BY <1>2, PrepareInv, SnapshotInv, EndInv, WorkInv, MarkHeadInv, MarkReviewInv, AskInv,
     RelabelInv, ReleaseInv DEF SlotStep
<1> QED BY <1>1, <1>2, OutsideInv, StutterInv DEF Next, Outside

LEMMA AlwaysInv == Spec => []Inv
BY InitInv, NextInv, PTL DEF Spec

\* Every variable keeps its type, and a dispatch has steps left to do exactly while it
\* cleans up.
THEOREM ReviewTypeCorrect == Spec => []TypeOK
<1>1. Inv => TypeOK
  BY DEF Inv
<1> QED BY <1>1, AlwaysInv, PTL

-----------------------------------------------------------------------------
(* The lock label keeps a second dispatch away when the lock does not.      *)

\* One orchestrator at the pull request, which gets its lock labels put on.  Without the
\* label the sweeper may take the lock of a live dispatch and the next tick claims again.
SafeLabels == (\A o, p \in Orchestrators : o = p) /\ "addLabel" \notin MayFail

LabelKept == \A s \in Slots : Locked(s) => LockLabel(KindOf(s)) \in labels

LockedOnce ==
    \A r, s \in Slots : Locked(r) /\ Locked(s) /\ KindOf(r) = KindOf(s) => r = s

\* A loop that claims has seen no lock label of its kind.
ClaimSafe ==
    \A o \in Orchestrators, s \in Slots :
        loop[o].at \in {"claim", "mark"} /\ Locked(s) => KindOf(s) # loop[o].kind

Unanswered == \A s \in Addressers : Answering(s) => slot[s].ids \cap addressed = {}

\* Docker starts no addresser beside one that was left behind.
AloneAtWork ==
    \A s \in Addressers, o \in Orchestrators :
        Answering(s) => \A c \in orphans[o] : c.kind # "addresser"

LockInv == LabelKept /\ LockedOnce /\ ClaimSafe /\ Unanswered /\ AloneAtWork

LockLabels == {"reviewing", "addressing"}

LEMMA LockLabelIs ==
    ASSUME NEW r \in Slots, NEW s \in Slots
    PROVE  /\ LockLabel(KindOf(s)) \in LockLabels
           /\ LockLabel(KindOf(r)) = LockLabel(KindOf(s)) => KindOf(r) = KindOf(s)
BY KindTyped DEF LockLabel, LockLabels, Kinds

\* Nobody comes to hold a lock label, to claim or to answer reviews.
LEMMA QuietLock ==
    ASSUME LockInv, addressed' = addressed,
           \A s \in Slots : Locked(s)' => Locked(s) /\ LockLabel(KindOf(s)) \in labels',
           \A o \in Orchestrators :
               loop'[o].at \in {"claim", "mark"}
               => loop[o].at \in {"claim", "mark"} /\ loop'[o].kind = loop[o].kind,
           \A s \in Addressers : Answering(s)' => Answering(s) /\ slot'[s] = slot[s],
           \A o \in Orchestrators : \A d \in orphans'[o] :
               \E c \in orphans[o] : d.kind = c.kind
    PROVE  LockInv'
<1>1. LabelKept' /\ LockedOnce'
  BY DEF LockInv, LabelKept, LockedOnce, KindOf
<1>2. ClaimSafe'
  <2> SUFFICES ASSUME NEW o \in Orchestrators, NEW s \in Slots,
                      loop'[o].at \in {"claim", "mark"}, Locked(s)'
               PROVE  KindOf(s) # loop'[o].kind
    BY DEF ClaimSafe, KindOf
  <2> QED BY DEF LockInv, ClaimSafe
<1>3. Unanswered'
  BY DEF LockInv, Unanswered
<1>4. AloneAtWork'
  <2> SUFFICES ASSUME NEW s \in Addressers, NEW o \in Orchestrators, Answering(s)',
                      NEW d \in orphans'[o]
               PROVE  d.kind # "addresser"
    BY DEF AloneAtWork
  <2> QED BY DEF LockInv, AloneAtWork
<1> QED BY <1>1, <1>2, <1>3, <1>4 DEF LockInv

LEMMA KeepsLocks ==
    ASSUME NEW answer, NEW label,
           Label("addLabel", answer, label)
           \/ (Label("removeLabel", answer, label) /\ label \notin LockLabels)
    PROVE  labels \cap LockLabels \subseteq labels'
BY DEF Label

\* No dispatch moves, and no loop begins to claim.
LEMMA LoopLock ==
    ASSUME Inv, LockInv, NEW o \in Orchestrators, LoopMoved(o), slot' = slot,
           labels \cap LockLabels \subseteq labels', addressed' = addressed,
           orphans' = orphans,
           loop'[o].at \notin {"claim", "mark"}
    PROVE  LockInv'
<1>1. \A p \in Orchestrators : p # o => loop'[p] = loop[p]
  BY DEF LoopMoved, Inv, TypeOK
<1>2. \A s \in Slots : Locked(s)' => Locked(s) /\ LockLabel(KindOf(s)) \in labels'
  BY LockLabelIs DEF LockInv, LabelKept, Locked, Left
<1>3. \A s \in Addressers : Answering(s)' => Answering(s) /\ slot'[s] = slot[s]
  BY DEF Answering
<1> QED BY <1>1, <1>2, <1>3, QuietLock

LEMMA DetectLock ==
    ASSUME Inv, LockInv, NEW o \in Orchestrators,
           \/ SweepEnd(o) \/ Detect(o) \/ MaybeFlip(o) \/ Unreview(o) \/ Requeue(o)
           \/ CountCycles(o) \/ LookForUnaddressed(o) \/ LabelAddress(o) \/ Restart(o)
    PROVE  LockInv'
<1>1. LoopMoved(o)
  BY DetectInv, AddressInv, CrashInv
<1>2. slot' = slot /\ addressed' = addressed /\ orphans' = orphans
  BY DEF SweepEnd, Detect, MaybeFlip, Unreview, Requeue, CountCycles, LookForUnaddressed,
         LabelAddress, Restart, markers, hosts
<1>3. labels \cap LockLabels \subseteq labels'
  BY KeepsLocks DEF SweepEnd, Detect, MaybeFlip, Unreview, Requeue, CountCycles,
                    LookForUnaddressed, LabelAddress, Restart, LockLabels
<1>4. loop'[o].at \notin {"claim", "mark"}
  <2>1. CASE ToTick(o) \/ ToAddress(o)
    BY <2>1, ToTickMoves, ToAddressMoves DEF Inv
  <2>2. CASE \E step \in {"detect", "unreview", "requeue", "address"} : Step(o, step)
    BY <2>2, StepMoves DEF Inv, LoopSteps
  <2>3. ASSUME Continue(o, [LoopAt("flip", "reviewer") EXCEPT !.labels = labels, !.head = head])
        PROVE  loop'[o].at = "flip"
    <3>1. LoopAt("flip", "reviewer") \in LoopStates /\ LoopAt("flip", "reviewer").at = "flip"
      BY LoopAtTyped DEF LoopSteps, Kinds
    <3>2. loop'[o] = [LoopAt("flip", "reviewer") EXCEPT !.labels = labels, !.head = head]
      BY <2>3 DEF Continue, Inv, TypeOK
    <3> QED BY <3>1, <3>2 DEF LoopStates
  <2>4. ASSUME Continue(o, [loop[o] EXCEPT !.at = "unaddressed", !.seen = addressed])
        PROVE  loop'[o].at = "unaddressed"
    BY <2>4 DEF Continue, Inv, TypeOK, LoopStates
  <2>5. CASE Restart(o)
    BY <2>5, CrashInv
  <2> QED BY <2>1, <2>2, <2>3, <2>4, <2>5
          DEF SweepEnd, Detect, MaybeFlip, Unreview, Requeue, CountCycles, LookForUnaddressed,
              LabelAddress
<1> QED BY <1>1, <1>2, <1>3, <1>4, LoopLock

\* A tick goes on to claim only when the lock label is off.
LEMMA TickLock ==
    ASSUME Inv, LockInv, NEW o \in Orchestrators, Tick(o)
    PROVE  LockInv'
<1>1. /\ LoopMoved(o) /\ slot' = slot /\ addressed' = addressed /\ labels' = labels
      /\ orphans' = orphans
  BY AddressInv DEF Tick, markers, hosts
<1>2. CASE TickNext(o)
  <2>1. loop'[o].at \in {"tick", "sweep"}
    BY <1>2, TickNextMoves DEF Inv
  <2> QED BY <1>1, <2>1, LoopLock
<1>3. CASE Step(o, "claim") /\ LockLabel(loop[o].kind) \notin labels
  <2>1. loop'[o].at = "claim" /\ loop'[o].kind = loop[o].kind
    BY <1>3, StepMoves DEF Inv, LoopSteps
  <2>2. \A p \in Orchestrators : p # o => loop'[p] = loop[p]
    BY <1>1 DEF LoopMoved, Inv, TypeOK
  <2>3. \A s \in Slots : Locked(s)' <=> Locked(s)
    BY <1>1 DEF Locked, Left
  <2>4. \A s \in Slots : Locked(s) => KindOf(s) # loop[o].kind
    BY <1>3 DEF LockInv, LabelKept
  <2>5. ClaimSafe'
    <3> SUFFICES ASSUME NEW p \in Orchestrators, NEW s \in Slots,
                        loop'[p].at \in {"claim", "mark"}, Locked(s)'
                 PROVE  KindOf(s) # loop'[p].kind
      BY DEF ClaimSafe, KindOf
    <3> QED BY <2>1, <2>2, <2>3, <2>4 DEF LockInv, ClaimSafe
  <2>6. LabelKept' /\ LockedOnce'
    BY <1>1, <2>3 DEF LockInv, LabelKept, LockedOnce, KindOf
  <2>7. Unanswered' /\ AloneAtWork'
    BY <1>1 DEF LockInv, Unanswered, AloneAtWork, Answering
  <2> QED BY <2>5, <2>6, <2>7 DEF LockInv
<1> QED BY <1>2, <1>3 DEF Tick

LEMMA ClaimLock ==
    ASSUME Inv, LockInv, NEW o \in Orchestrators, Claim(o)
    PROVE  LockInv'
<1>1. /\ labels' = labels /\ addressed' = addressed /\ orphans' = orphans
      /\ loop[o].at = "claim"
  BY DEF Claim, markers, hosts
<1>2. CASE TickNext(o) /\ slot' = slot
  <2>1. LoopMoved(o) /\ loop'[o].at \in {"tick", "sweep"}
    BY <1>2, TickNextMoves DEF Inv
  <2> QED BY <1>1, <1>2, <2>1, LoopLock
<1>3. ASSUME NEW s \in Free(o, loop[o].kind), slot' = [slot EXCEPT ![s].at = "claimed"],
             Step(o, "mark")
      PROVE  LockInv'
  <2>1. s \in Slots /\ slot[s] \in SlotStates
    BY DEF Free, Inv, TypeOK
  <2>2. slot'[s].at = "claimed" /\ \A r \in Slots : r # s => slot'[r] = slot[r]
    BY <1>3, <2>1 DEF Inv, TypeOK, SlotStates
  <2>3. loop'[o].kind = loop[o].kind /\ \A p \in Orchestrators : p # o => loop'[p] = loop[p]
    BY <1>3, StepMoves DEF Inv, LoopSteps, LoopMoved, TypeOK
  <2>4. \A r \in Slots : Locked(r)' => Locked(r) /\ LockLabel(KindOf(r)) \in labels'
    BY <1>1, <2>2 DEF LockInv, LabelKept, Locked, Left
  <2>5. \A r \in Addressers : Answering(r)' => Answering(r) /\ slot'[r] = slot[r]
    BY <2>2 DEF Answering, Slots
  <2> QED BY <1>1, <2>3, <2>4, <2>5, QuietLock
<1> QED BY <1>2, <1>3 DEF Claim

\* The dispatch has its lock label, and is the only one of its kind that does.
LEMMA MarkLock ==
    ASSUME SafeLabels, Inv, LockInv, NEW o \in Orchestrators, MarkAndDispatch(o)
    PROVE  LockInv'
<1>1. PICK s \in Slots : /\ SlotMoved(s) /\ slot[s].at = "claimed" /\ slot'[s].at = "prep"
                         /\ KindOf(s) = loop[o].kind
  BY MarkAndDispatchInv
<1>2. loop'[o].at \in {"tick", "sweep"} /\ loop[o].at = "mark"
  BY MarkAndDispatchInv DEF MarkAndDispatch
<1>3. addressed' = addressed /\ orphans' = orphans
  BY DEF MarkAndDispatch, markers, hosts
<1>4. \A r \in Slots : r # s => slot'[r] = slot[r]
  BY <1>1 DEF SlotMoved, Inv, TypeOK
<1>5. labels' = labels \cup {LockLabel(KindOf(s))}
  BY <1>1 DEF MarkAndDispatch, SafeLabels, Answers, Label
<1>6. \A r \in Slots : r # s /\ Locked(r)' => Locked(r) /\ KindOf(r) # KindOf(s)
  BY <1>1, <1>2, <1>4 DEF Locked, Left, LockInv, ClaimSafe
<1>7. LabelKept' /\ LockedOnce'
  BY <1>5, <1>6 DEF LockInv, LabelKept, LockedOnce, KindOf
<1>8. ClaimSafe'
  <2>1. \A p \in Orchestrators : p = o
    BY DEF SafeLabels
  <2> QED BY <1>2, <2>1 DEF ClaimSafe
<1>9. \A r \in Addressers : Answering(r)' => Answering(r) /\ slot'[r] = slot[r]
  BY <1>1, <1>4 DEF Answering, Slots
<1>10. Unanswered' /\ AloneAtWork'
  BY <1>3, <1>9 DEF LockInv, Unanswered, AloneAtWork
<1> QED BY <1>7, <1>8, <1>10 DEF LockInv

\* A dispatch goes on without a new container.
LEMMA GoesOnLock ==
    ASSUME Inv, LockInv, NEW s \in Slots, Works(s), labels \cap LockLabels \subseteq labels',
           addressed' = addressed, orphans' = orphans,
           Answering(s)' => slot' = slot
    PROVE  LockInv'
<1>1. SlotMoved(s) /\ loop' = loop /\ (Locked(s)' => Locked(s))
  BY DEF Works
<1>2. \A r \in Slots : r # s => slot'[r] = slot[r]
  BY <1>1 DEF SlotMoved, Inv, TypeOK
<1>3. \A r \in Slots : Locked(r)' => Locked(r)
  BY <1>1, <1>2 DEF Locked, Left
<1>4. \A r \in Slots : Locked(r)' => Locked(r) /\ LockLabel(KindOf(r)) \in labels'
  BY <1>3, LockLabelIs DEF LockInv, LabelKept
<1>5. \A r \in Addressers : Answering(r)' => Answering(r) /\ slot'[r] = slot[r]
  BY <1>2 DEF Answering, Slots
<1> QED BY <1>1, <1>4, <1>5, QuietLock

\* No other dispatch of its kind counts on the label.
LEMMA UnlockLock ==
    ASSUME Inv, LockInv, NEW s \in Slots, Unlock(s)
    PROVE  LockInv'
<1>1. Works(s) /\ slot'[s].at # "run" /\ Locked(s) /\ ~ Locked(s)'
  BY RelabelInv DEF Unlock
<1>2. SlotMoved(s) /\ loop' = loop /\ addressed' = addressed /\ orphans' = orphans
  BY <1>1 DEF Works, Unlock, markers, hosts
<1>3. \A r \in Slots : r # s => slot'[r] = slot[r]
  BY <1>2 DEF SlotMoved, Inv, TypeOK
<1>4. ASSUME NEW r \in Slots, Locked(r)'
      PROVE  Locked(r) /\ LockLabel(KindOf(r)) \in labels'
  <2>1. r # s /\ Locked(r)
    BY <1>1, <1>3, <1>4 DEF Locked, Left
  <2>2. KindOf(r) # KindOf(s)
    BY <1>1, <2>1 DEF LockInv, LockedOnce
  <2>3. LockLabel(KindOf(r)) # LockLabel(KindOf(s)) /\ LockLabel(KindOf(r)) \in labels
    BY <2>1, <2>2, LockLabelIs DEF LockInv, LabelKept
  <2> QED BY <2>1, <2>3 DEF Unlock, Label
<1>5. \A r \in Addressers : Answering(r)' => Answering(r) /\ slot'[r] = slot[r]
  BY <1>1, <1>3 DEF Answering, Slots
<1> QED BY <1>2, <1>4, <1>5, QuietLock

\* The reviews are read under the lock label, and no container of its kind is left.
LEMMA SnapshotLock ==
    ASSUME SafeLabels, Inv, LockInv, NEW s \in Slots, Snapshot(s)
    PROVE  LockInv'
<1>1. /\ Works(s) /\ s \in Addressers
      /\ Answering(s)' => ~ NameTaken(s) /\ slot'[s].ids \cap addressed = {}
  BY SnapshotInv
<1>2. /\ SlotMoved(s) /\ loop' = loop /\ (Locked(s)' => Locked(s)) /\ addressed' = addressed
      /\ orphans' = orphans /\ labels' = labels
  BY <1>1 DEF Works, Snapshot, markers, hosts
<1>3. \A r \in Slots : r # s => slot'[r] = slot[r]
  BY <1>2 DEF SlotMoved, Inv, TypeOK
<1>4. \A r \in Slots : Locked(r)' => Locked(r)
  BY <1>2, <1>3 DEF Locked, Left
<1>5. LabelKept' /\ LockedOnce' /\ ClaimSafe'
  BY <1>2, <1>4 DEF LockInv, LabelKept, LockedOnce, ClaimSafe, KindOf
<1>6. \A r \in Addressers : r # s /\ Answering(r)' => Answering(r) /\ slot'[r] = slot[r]
  BY <1>3 DEF Answering, Slots
<1>7. Unanswered'
  BY <1>1, <1>2, <1>6 DEF LockInv, Unanswered
<1>8. AloneAtWork'
  <2>1. ASSUME NEW o \in Orchestrators, Answering(s)', NEW c \in orphans[o]
        PROVE  c.kind # "addresser"
    <3>1. o = Home[s] /\ KindOf(s) = "addresser"
      BY <1>1, KindTyped, SlotsAssumption DEF SafeLabels
    <3> QED BY <1>1, <2>1, <3>1 DEF NameTaken
  <2> QED BY <1>2, <1>6, <2>1 DEF LockInv, AloneAtWork
<1> QED BY <1>5, <1>7, <1>8 DEF LockInv

\* The container that is left behind was the only one of its kind.
LEMMA TimeOutLock ==
    ASSUME Inv, LockInv, NEW s \in Slots, TimeOut(s)
    PROVE  LockInv'
<1>1. Works(s) /\ slot'[s].at = "clean" /\ Locked(s)
  BY EndInv DEF TimeOut, Locked
<1>2. /\ SlotMoved(s) /\ loop' = loop /\ (Locked(s)' => Locked(s)) /\ addressed' = addressed
      /\ labels' = labels
  BY <1>1 DEF Works, TimeOut, markers
<1>3. \A r \in Slots : r # s => slot'[r] = slot[r]
  BY <1>2 DEF SlotMoved, Inv, TypeOK
<1>4. \A r \in Slots : Locked(r)' => Locked(r)
  BY <1>2, <1>3 DEF Locked, Left
<1>5. LabelKept' /\ LockedOnce' /\ ClaimSafe'
  BY <1>2, <1>4 DEF LockInv, LabelKept, LockedOnce, ClaimSafe, KindOf
<1>6. \A r \in Addressers : Answering(r)' => r # s /\ Answering(r) /\ slot'[r] = slot[r]
  BY <1>1, <1>3 DEF Answering, Slots
<1>7. Unanswered'
  BY <1>2, <1>6 DEF LockInv, Unanswered
<1>8. AloneAtWork'
  <2> SUFFICES ASSUME NEW r \in Addressers, NEW o \in Orchestrators, Answering(r)',
                      NEW c \in orphans'[o], c.kind = "addresser"
               PROVE  FALSE
    BY DEF AloneAtWork
  <2>1. r # s /\ Answering(r) /\ r \in Slots /\ Locked(r) /\ KindOf(r) = "addresser"
    BY <1>6, KindTyped DEF Slots, Answering, Locked
  <2>2. Container(s).kind = KindOf(s) /\ Container(s) \in Containers
    BY ContainerTyped DEF Inv
  <2>3. c \in orphans[o] \/ c = Container(s)
    BY DEF TimeOut, LeaveBehind, Inv, TypeOK
  <2>4. c \notin orphans[o]
    BY <2>1 DEF LockInv, AloneAtWork
  <2>5. KindOf(s) = "addresser"
    BY <2>2, <2>3, <2>4
  <2> QED BY <1>1, <2>1, <2>5 DEF LockInv, LockedOnce
<1> QED BY <1>5, <1>7, <1>8 DEF LockInv

\* The only one at work is the one that writes the markers.
LEMMA MarkReviewLock ==
    ASSUME Inv, LockInv, NEW s \in Slots, MarkReview(s)
    PROVE  LockInv'
<1>1. Works(s) /\ s \in Addressers /\ Locked(s) /\ slot'[s].at = "clean"
  BY MarkReviewInv
<1>2. /\ SlotMoved(s) /\ loop' = loop /\ (Locked(s)' => Locked(s))
      /\ orphans' = orphans /\ labels' = labels
  BY <1>1 DEF Works, MarkReview, hosts
<1>3. \A r \in Slots : r # s => slot'[r] = slot[r]
  BY <1>2 DEF SlotMoved, Inv, TypeOK
<1>4. \A r \in Slots : Locked(r)' => Locked(r)
  BY <1>2, <1>3 DEF Locked, Left
<1>5. LabelKept' /\ LockedOnce' /\ ClaimSafe'
  BY <1>2, <1>4 DEF LockInv, LabelKept, LockedOnce, ClaimSafe, KindOf
<1>6. ASSUME NEW r \in Addressers PROVE ~ Answering(r)'
  <2>1. r \in Slots /\ KindOf(r) = KindOf(s)
    BY <1>1, KindTyped DEF Slots
  <2>2. Answering(r)' => r # s /\ Locked(r)
    BY <1>1, <1>3, <2>1 DEF Answering, Locked
  <2> QED BY <1>1, <2>1, <2>2 DEF LockInv, LockedOnce
<1>7. Unanswered' /\ AloneAtWork'
  BY <1>6 DEF Unanswered, AloneAtWork
<1> QED BY <1>5, <1>7 DEF LockInv

LEMMA SlotLock ==
    ASSUME SafeLabels, Inv, LockInv, NEW s \in Slots,
           SlotStep(s) \/ Push(s) \/ \E state \in ReviewStates : Post(s, state)
    PROVE  LockInv'
<1>1. CASE Prepare(s) \/ Fail(s) \/ Succeed(s) \/ MarkHead(s) \/ AskHead(s) \/ AskVerdict(s)
           \/ AllMarked(s) \/ Release(s) \/ Push(s) \/ \E state \in ReviewStates : Post(s, state)
  <2>1. Works(s) /\ (Answering(s)' => slot' = slot)
    BY <1>1, PrepareInv, EndInv, WorkInv, MarkHeadInv, AskInv, ReleaseInv DEF Answering
  <2>2. labels' = labels /\ addressed' = addressed /\ orphans' = orphans
    BY <1>1 DEF Prepare, Fail, Succeed, MarkHead, AskHead, AskVerdict, AllMarked, Release,
                Push, Post, markers, hosts
  <2> QED BY <2>1, <2>2, GoesOnLock
<1>2. CASE Dequeue(s) \/ AddDone(s) \/ Flag(s) \/ Unflag(s)
  <2>1. Works(s) /\ ~ Answering(s)'
    BY <1>2, RelabelInv DEF Answering
  <2>2. addressed' = addressed /\ orphans' = orphans
    BY <1>2 DEF Dequeue, AddDone, Flag, Unflag, markers, hosts
  <2>3. labels \cap LockLabels \subseteq labels'
    <3>1. QueueLabel(KindOf(s)) \notin LockLabels
      BY DEF QueueLabel, LockLabels
    <3>2. CASE Dequeue(s) \/ AddDone(s)
      BY <3>1, <3>2, KeepsLocks DEF Dequeue, AddDone
    <3>3. CASE Flag(s)
      BY <3>3, KeepsLocks DEF Flag
    <3>4. CASE Unflag(s)
      BY <3>4, KeepsLocks DEF Unflag, LockLabels
    <3> QED BY <1>2, <3>2, <3>3, <3>4
  <2> QED BY <2>1, <2>2, <2>3, GoesOnLock
<1> QED BY <1>1, <1>2, UnlockLock, SnapshotLock, TimeOutLock, MarkReviewLock DEF SlotStep

\* The only orchestrator dies, and all its dispatches with it.
LEMMA CrashLock ==
    ASSUME SafeLabels, Inv, LockInv, NEW o \in Orchestrators, Crash(o)
    PROVE  LockInv'
<1>1. \A s \in Slots : slot'[s] = FreeSlot
  BY SlotsAssumption DEF Crash, SafeLabels
<1>2. \A s \in Slots : ~ Locked(s)' /\ ~ Answering(s)'
  BY <1>1, FreeSlotTyped DEF Locked, Answering
<1>3. LabelKept' /\ LockedOnce' /\ ClaimSafe'
  BY <1>2 DEF LabelKept, LockedOnce, ClaimSafe
<1>4. Unanswered' /\ AloneAtWork'
  BY <1>2 DEF Unanswered, AloneAtWork, Slots
<1> QED BY <1>3, <1>4 DEF LockInv

LEMMA StillLock ==
    ASSUME LockInv, slot' = slot, loop' = loop, addressed' = addressed, labels \subseteq labels',
           \A o \in Orchestrators : \A d \in orphans'[o] :
               \E c \in orphans[o] : d.kind = c.kind
    PROVE  LockInv'
<1>1. \A s \in Slots : Locked(s)' => Locked(s) /\ LockLabel(KindOf(s)) \in labels'
  BY DEF LockInv, LabelKept, Locked, Left
<1>2. \A s \in Addressers : Answering(s)' => Answering(s) /\ slot'[s] = slot[s]
  BY DEF Answering
<1> QED BY <1>1, <1>2, QuietLock

LEMMA NextLock ==
    ASSUME SafeLabels, Inv, LockInv, [Next]_vars
    PROVE  LockInv'
<1>1. ASSUME NEW o \in Orchestrators, LoopStep(o) \/ Crash(o) \/ Restart(o)
      PROVE  LockInv'
  BY <1>1, DetectLock, TickLock, ClaimLock, MarkLock, CrashLock DEF LoopStep
<1>2. ASSUME NEW o \in Orchestrators, NEW kind \in Kinds, SweepLock(o, kind)
      PROVE  LockInv'
  BY <1>2, StillLock DEF SweepLock, markers, hosts
<1>3. CASE Outside
  BY <1>3, OutsideInv, StillLock
<1>4. CASE UNCHANGED vars
  BY <1>4, StillLock DEF vars
<1> QED BY <1>1, <1>2, <1>3, <1>4, SlotLock DEF Next, Outside

LEMMA InitLock == Init => LockInv
<1> SUFFICES ASSUME Init PROVE LockInv
  OBVIOUS
<1>1. \A s \in Slots : ~ Locked(s) /\ ~ Answering(s)
  BY FreeSlotTyped DEF Init, Locked, Answering
<1> QED BY <1>1 DEF LockInv, LabelKept, LockedOnce, ClaimSafe, Unanswered, AloneAtWork, Slots

LEMMA AlwaysLock ==
    ASSUME SafeLabels
    PROVE  Spec => [](Inv /\ LockInv)
<1>1. Inv /\ LockInv /\ [Next]_vars => Inv' /\ LockInv'
  BY NextInv, NextLock
<1> QED BY <1>1, InitInv, InitLock, PTL DEF Spec

\* While the lock label can be put on, no container works on a review that has its marker
\* and no two containers on the same review, also when the sweeper takes live locks and
\* containers outlive their dispatch: the label keeps the tick from a second claim until
\* successCleanupAddresser has written its markers, snapshotUnaddressedReviews reads
\* them under the label, and docker starts no container beside one of the same name.
THEOREM ReviewsAnsweredOnce ==
    ASSUME SafeLabels
    PROVE  Spec => []AnsweredOnce
<1>1. ASSUME LockInv PROVE AnsweredOnce
  <2>1. \A s \in Addressers : Answering(s) => s \in Slots /\ Locked(s) /\ KindOf(s) = "addresser"
    BY KindTyped DEF Answering, Locked, Slots
  <2>2. \A r, s \in Addressers : Answering(r) /\ Answering(s) => r = s
    BY <1>1, <2>1 DEF LockInv, LockedOnce
  <2> QED BY <1>1, <2>2 DEF AnsweredOnce, LockInv, Unanswered, AloneAtWork
<1> QED BY <1>1, AlwaysLock, PTL

-----------------------------------------------------------------------------
(* A head that was reviewed is not queued for review again.                 *)

OneReviewer == \A r, s \in Reviewers : r = s

ReviewQueued ==
    /\ \A s \in Slots : Reviewing(s) => "review" \in labels
    /\ \A o \in Orchestrators :
         loop[o].at = "claim" /\ loop[o].kind = "reviewer"
         => "review" \in labels /\ \A s \in Reviewers : slot[s].at = "free"

\* The detector has decided that the reviewer is done with the head, or is about to.
Flips(o) ==
    \/ loop[o].at = "flip" /\ loop[o].labels \cap {"review", "reviewing"} = {}
       /\ "reviewed" \in loop[o].labels
    \/ loop[o].at \in {"unreview", "requeue"}

FlipOK ==
    \A o \in Orchestrators :
        /\ Flips(o) => \A s \in Slots : ~ Reviewing(s)
        /\ loop[o].at \in {"unreview", "requeue"} => loop[o].head \notin rereviewed

FlipInv == (OneReviewer => ReviewQueued) /\ FlipOK

\* One crew at the pull request, and either one reviewer slot or a reliable lock label.
\* With two reviewer slots a second one may claim from a list made while the first was at
\* work, and then only the lock label keeps the detector away.
SafeCrew ==
    /\ \A o, p \in Orchestrators : o = p
    /\ OneReviewer \/ "addLabel" \notin MayFail

\* No dispatch moves and nothing queued for review is taken from the queue.
LEMMA LoopFlip ==
    ASSUME Inv, FlipInv, NEW o \in Orchestrators, LoopMoved(o), slot' = slot,
           rereviewed' = rereviewed,
           labels \cap {"review", "reviewing"} \subseteq labels',
           loop'[o].at # "claim" \/ loop'[o].kind # "reviewer",
           ~ Flips(o)'
    PROVE  FlipInv'
<1>1. \A p \in Orchestrators : p # o => loop'[p] = loop[p]
  BY DEF LoopMoved, Inv, TypeOK
<1>2. \A s \in Slots : Reviewing(s)' <=> Reviewing(s)
  BY DEF Reviewing, Left
<1>3. OneReviewer => ReviewQueued'
  BY <1>1, <1>2 DEF FlipInv, ReviewQueued
<1>4. FlipOK'
  BY <1>1, <1>2 DEF FlipInv, FlipOK, Flips
<1> QED BY <1>3, <1>4 DEF FlipInv

\* A reviewer that was dispatched has its lock label.
LEMMA ReviewLocked ==
    ASSUME LabelKept, NEW s \in Slots, Reviewing(s), slot[s].at # "claimed"
    PROVE  "reviewing" \in labels
<1>1. Locked(s) /\ KindOf(s) = "reviewer"
  BY KindTyped DEF Reviewing, Locked, UnlockLeft
<1> QED BY <1>1 DEF LabelKept, LockLabel

\* A loop that starts to flip has seen that no reviewer is at work.
LEMMA LoopFlips ==
    ASSUME Inv, FlipInv, NEW o \in Orchestrators, LoopMoved(o), slot' = slot,
           rereviewed' = rereviewed,
           labels \cap {"review", "reviewing"} \subseteq labels',
           loop'[o].at \in {"flip", "unreview", "requeue"},
           Flips(o)' => \A s \in Slots : ~ Reviewing(s),
           loop'[o].at \in {"unreview", "requeue"} => loop'[o].head \notin rereviewed
    PROVE  FlipInv'
<1>1. \A p \in Orchestrators : p # o => loop'[p] = loop[p]
  BY DEF LoopMoved, Inv, TypeOK
<1>2. \A s \in Slots : Reviewing(s)' <=> Reviewing(s)
  BY DEF Reviewing, Left
<1>3. OneReviewer => ReviewQueued'
  BY <1>1, <1>2 DEF FlipInv, ReviewQueued
<1>4. FlipOK'
  BY <1>1, <1>2 DEF FlipInv, FlipOK, Flips
<1> QED BY <1>3, <1>4 DEF FlipInv

LEMMA KeepsLabels ==
    ASSUME NEW answer, NEW label,
           Label("addLabel", answer, label)
           \/ (Label("removeLabel", answer, label) /\ label \notin {"review", "reviewing"})
    PROVE  labels \cap {"review", "reviewing"} \subseteq labels'
BY DEF Label

LEMMA DetectFlip ==
    ASSUME SafeCrew, Inv, FlipInv, "addLabel" \notin MayFail => LabelKept,
           NEW o \in Orchestrators, SweepEnd(o) \/ Detect(o) \/ MaybeFlip(o)
    PROVE  FlipInv'
<1>1. LoopMoved(o)
  BY DetectInv
<1>2. slot' = slot /\ rereviewed' = rereviewed /\ labels' = labels
  BY DEF SweepEnd, Detect, MaybeFlip, markers
<1>3. CASE loop'[o].at \in {"detect", "tick", "cycles"} /\ ~ Flips(o)'
  BY <1>1, <1>2, <1>3, LoopFlip
<1>4. CASE loop'[o].at \in {"detect", "tick", "cycles"}
  BY <1>3, <1>4 DEF Flips
<1>5. CASE SweepEnd(o)
  BY <1>4, <1>5, StepMoves DEF SweepEnd, Inv, LoopSteps
<1>6. CASE Detect(o)
  <2> DEFINE seen == [LoopAt("flip", "reviewer") EXCEPT !.labels = labels, !.head = head]
  <2>1. CASE ToTick(o)
    BY <1>4, <2>1, ToTickMoves DEF Inv
  <2>2. CASE Continue(o, seen)
    <3>1. seen \in LoopStates /\ seen.at = "flip" /\ seen.labels = labels
      BY LoopAtTyped DEF Inv, TypeOK, LoopStates, LoopSteps, Kinds
    <3>2. loop'[o].at = "flip" /\ loop'[o].labels = labels
      BY <2>2, <3>1, ContinueMoves DEF Inv
    <3>3. ASSUME labels \cap {"review", "reviewing"} = {}, NEW s \in Slots, Reviewing(s)
          PROVE  FALSE
      <4>1. CASE slot[s].at = "claimed"
        <5>1. loop[Home[s]].at = "mark" /\ Home[s] \in Orchestrators
          BY <4>1, SlotsAssumption DEF Inv, SlotOK
        <5>2. Home[s] = o
          BY <5>1 DEF SafeCrew
        <5> QED BY <1>6, <5>1, <5>2 DEF Detect
      <4>2. CASE slot[s].at # "claimed"
        BY <3>3, <4>2, ReviewLocked DEF SafeCrew, FlipInv, ReviewQueued
      <4> QED BY <4>1, <4>2
    <3>4. Flips(o)' => \A s \in Slots : ~ Reviewing(s)
      BY <3>2, <3>3 DEF Flips
    <3> QED BY <1>1, <1>2, <3>2, <3>4, LoopFlips
  <2> QED BY <1>6, <2>1, <2>2 DEF Detect
<1>7. CASE MaybeFlip(o)
  <2>1. CASE ToTick(o) \/ ToAddress(o)
    BY <1>4, <2>1, ToTickMoves, ToAddressMoves DEF Inv
  <2>2. CASE ~ (ToTick(o) \/ ToAddress(o))
    <3>1. Flips(o) /\ Step(o, "unreview") /\ loop[o].head \notin rereviewed
      BY <1>7, <2>2 DEF MaybeFlip, Flips
    <3>2. loop'[o].at = "unreview" /\ loop'[o].head = loop[o].head
      BY <3>1, StepMoves DEF Inv, LoopSteps
    <3>3. \A s \in Slots : ~ Reviewing(s)
      BY <3>1 DEF FlipInv, FlipOK
    <3> QED BY <1>1, <1>2, <3>1, <3>2, <3>3, LoopFlips
  <2> QED BY <2>1, <2>2
<1> QED BY <1>5, <1>6, <1>7

LEMMA RequeueFlip ==
    ASSUME Inv, FlipInv, NEW o \in Orchestrators, Unreview(o) \/ Requeue(o)
    PROVE  FlipInv'
<1>1. LoopMoved(o)
  BY DetectInv
<1>2. slot' = slot /\ rereviewed' = rereviewed
  BY DEF Unreview, Requeue, markers
<1>3. labels \cap {"review", "reviewing"} \subseteq labels'
  BY KeepsLabels DEF Unreview, Requeue
<1>4. CASE loop'[o].at \in {"tick", "cycles"}
  <2>1. ~ Flips(o)'
    BY <1>4 DEF Flips
  <2> QED BY <1>1, <1>2, <1>3, <1>4, <2>1, LoopFlip
<1>5. CASE Step(o, "requeue") /\ loop[o].at = "unreview"
  <2>1. loop'[o].at = "requeue" /\ loop'[o].head = loop[o].head
    BY <1>5, StepMoves DEF Inv, LoopSteps
  <2>2. loop[o].head \notin rereviewed /\ \A s \in Slots : ~ Reviewing(s)
    BY <1>5 DEF FlipInv, FlipOK, Flips
  <2> QED BY <1>1, <1>2, <1>3, <2>1, <2>2, LoopFlips
<1> QED BY <1>4, <1>5, ToTickMoves, ToAddressMoves DEF Unreview, Requeue, Inv

LEMMA AddressFlip ==
    ASSUME Inv, FlipInv, NEW o \in Orchestrators,
           CountCycles(o) \/ LookForUnaddressed(o) \/ LabelAddress(o)
    PROVE  FlipInv'
<1>1. LoopMoved(o)
  BY AddressInv
<1>2. slot' = slot /\ rereviewed' = rereviewed
  BY DEF CountCycles, LookForUnaddressed, LabelAddress, markers
<1>3. labels \cap {"review", "reviewing"} \subseteq labels'
  BY KeepsLabels DEF CountCycles, LookForUnaddressed, LabelAddress
<1>4. loop'[o].at \in {"tick", "unaddressed", "address"}
  <2>1. ASSUME Continue(o, [loop[o] EXCEPT !.at = "unaddressed", !.seen = addressed])
        PROVE  loop'[o].at = "unaddressed"
    BY <2>1 DEF Continue, Inv, TypeOK, LoopStates
  <2>2. ASSUME Step(o, "address") PROVE loop'[o].at = "address"
    BY <2>2, StepMoves DEF Inv, LoopSteps
  <2> QED BY <2>1, <2>2, ToTickMoves DEF CountCycles, LookForUnaddressed, LabelAddress, Inv
<1>5. ~ Flips(o)' /\ loop'[o].at # "claim"
  BY <1>4 DEF Flips
<1> QED BY <1>1, <1>2, <1>3, <1>5, LoopFlip

LEMMA TickFlip ==
    ASSUME Inv, FlipInv, NEW o \in Orchestrators, Tick(o)
    PROVE  FlipInv'
<1>1. LoopMoved(o) /\ slot' = slot /\ rereviewed' = rereviewed /\ labels' = labels
  BY AddressInv DEF Tick, markers
<1>2. CASE TickNext(o)
  <2>1. loop'[o].at \in {"tick", "sweep"}
    BY <1>2, TickNextMoves DEF Inv
  <2> QED BY <1>1, <2>1, LoopFlip DEF Flips
<1>3. CASE Step(o, "claim") /\ QueueLabel(loop[o].kind) \in labels /\ Free(o, loop[o].kind) # {}
  <2>1. loop'[o].at = "claim" /\ loop'[o].kind = loop[o].kind
    BY <1>3, StepMoves DEF Inv, LoopSteps
  <2>2. \A p \in Orchestrators : p # o => loop'[p] = loop[p]
    BY <1>1 DEF LoopMoved, Inv, TypeOK
  <2>3. \A s \in Slots : Reviewing(s)' <=> Reviewing(s)
    BY <1>1 DEF Reviewing, Left
  <2>4. ASSUME OneReviewer, loop[o].kind = "reviewer"
        PROVE  "review" \in labels /\ \A s \in Reviewers : slot[s].at = "free"
    <3>1. PICK s \in Slots : KindOf(s) = "reviewer" /\ slot[s].at = "free"
      BY <1>3, <2>4 DEF Free
    <3>2. s \in Reviewers
      BY <3>1, KindTyped
    <3> QED BY <1>3, <2>4, <3>1, <3>2 DEF OneReviewer, QueueLabel
  <2>5. OneReviewer => ReviewQueued'
    BY <1>1, <2>1, <2>2, <2>3, <2>4 DEF FlipInv, ReviewQueued
    <2>6. FlipOK'
    BY <1>1, <2>1, <2>2, <2>3 DEF FlipInv, FlipOK, Flips
  <2> QED BY <2>5, <2>6 DEF FlipInv
<1> QED BY <1>2, <1>3 DEF Tick

\* The only loop claims, so none is about to flip.
LEMMA ClaimFlip ==
    ASSUME SafeCrew, Inv, FlipInv, NEW o \in Orchestrators, Claim(o)
    PROVE  FlipInv'
<1>1. labels' = labels /\ rereviewed' = rereviewed /\ loop[o].at = "claim"
  BY DEF Claim, markers
<1>2. CASE TickNext(o) /\ slot' = slot
  <2>1. LoopMoved(o) /\ loop'[o].at \in {"tick", "sweep"}
    BY <1>2, TickNextMoves DEF Inv
  <2> QED BY <1>1, <1>2, <2>1, LoopFlip DEF Flips
<1>3. ASSUME NEW s \in Free(o, loop[o].kind), loop[o].kind \notin locks,
             locks' = locks \cup {loop[o].kind},
             slot' = [slot EXCEPT ![s].at = "claimed"], Step(o, "mark")
      PROVE  FlipInv'
  <2>1. LoopMoved(o) /\ SlotMoved(s)
    BY <1>1, <1>3, WinInv DEF Claim, pr, markers, hosts
  <2>2. /\ s \in Slots /\ KindOf(s) = loop[o].kind /\ loop'[o].at = "mark"
        /\ slot'[s].at = "claimed"
    <3>1. s \in Slots /\ KindOf(s) = loop[o].kind /\ slot[s] \in SlotStates
      BY DEF Free, Inv, TypeOK
    <3>2. slot'[s] = [slot[s] EXCEPT !.at = "claimed"]
      BY <1>3, <3>1 DEF Inv, TypeOK
    <3>3. slot'[s].at = "claimed"
      BY <3>1, <3>2 DEF SlotStates
    <3> QED BY <1>3, <3>1, <3>3, StepMoves DEF Inv, LoopSteps
  <2>3. \A p \in Orchestrators : p = o
    BY DEF SafeCrew
  <2>4. \A r \in Slots : r # s => slot'[r] = slot[r]
    BY <2>1, <2>2 DEF SlotMoved, Inv, TypeOK
  <2>5. \A r \in Slots : r # s /\ Reviewing(r)' => Reviewing(r)
    BY <2>4 DEF Reviewing, Left
  <2>6. FlipOK'
    BY <2>2, <2>3 DEF FlipOK, Flips
  <2>7. OneReviewer => ReviewQueued'
    <3>1. s \in Reviewers /\ OneReviewer => "review" \in labels
      BY <1>1, <2>2, KindTyped DEF FlipInv, ReviewQueued
    <3>2. ASSUME OneReviewer, NEW r \in Slots, Reviewing(r)' PROVE "review" \in labels'
      BY <1>1, <2>5, <3>1, <3>2 DEF FlipInv, ReviewQueued, Reviewing
    <3> QED BY <2>2, <2>3, <3>2 DEF ReviewQueued
    <2> QED BY <2>6, <2>7 DEF FlipInv
<1> QED BY <1>2, <1>3 DEF Claim

LEMMA MarkFlip ==
    ASSUME SafeCrew, Inv, FlipInv, NEW o \in Orchestrators, MarkAndDispatch(o)
    PROVE  FlipInv'
<1>1. PICK s \in Slots : /\ SlotMoved(s) /\ slot[s].at = "claimed" /\ slot'[s].at = "prep"
                         /\ KindOf(s) = loop[o].kind
  BY MarkAndDispatchInv
<1>2. LoopMoved(o) /\ loop'[o].at \in {"tick", "sweep"}
  BY MarkAndDispatchInv
<1>3. \A p \in Orchestrators : p = o
  BY DEF SafeCrew
<1>4. \A r \in Slots : r # s => slot'[r] = slot[r]
  BY <1>1 DEF SlotMoved, Inv, TypeOK
<1>5. \A r \in Slots : Reviewing(r)' => Reviewing(r)
  BY <1>1, <1>4 DEF Reviewing, Left
<1>6. labels \cap {"review", "reviewing"} \subseteq labels'
  BY KeepsLabels DEF MarkAndDispatch
<1>7. FlipOK'
  BY <1>2, <1>3 DEF FlipOK, Flips
<1>8. OneReviewer => ReviewQueued'
  BY <1>2, <1>3, <1>5, <1>6 DEF FlipInv, ReviewQueued
<1> QED BY <1>7, <1>8 DEF FlipInv

\* Locks that are swept, people and containers that were left behind.
LEMMA StillFlip ==
    ASSUME Inv, FlipInv, loop' = loop, slot' = slot, rereviewed' = rereviewed,
           labels \subseteq labels'
    PROVE  FlipInv'
BY DEF FlipInv, ReviewQueued, FlipOK, Flips, Reviewing, Left

LEMMA CrashFlip ==
    ASSUME Inv, FlipInv, NEW o \in Orchestrators, Crash(o) \/ Restart(o)
    PROVE  FlipInv'
<1>1. LoopMoved(o) /\ loop'[o].at \in {"down", "sweep"}
  BY CrashInv
<1>2. rereviewed' = rereviewed /\ labels' = labels
  BY DEF Crash, Restart, markers
<1>3. CASE Restart(o)
  BY <1>1, <1>2, <1>3, LoopFlip DEF Restart, Flips
<1>4. CASE Crash(o)
  <2>1. \A s \in Slots : slot'[s] = slot[s] \/ slot'[s] = FreeSlot
    BY <1>4 DEF Crash
  <2>2. \A s \in Slots : Reviewing(s)' => Reviewing(s) /\ slot'[s] = slot[s]
    BY <2>1, FreeSlotTyped DEF Reviewing, Left
  <2>3. \A p \in Orchestrators : p # o => loop'[p] = loop[p]
    BY <1>1 DEF LoopMoved, Inv, TypeOK
  <2>4. \A s \in Slots : slot[s].at = "free" => slot'[s].at = "free"
    BY <2>1, FreeSlotTyped
  <2>5. OneReviewer => ReviewQueued'
    BY <1>1, <1>2, <2>2, <2>3, <2>4 DEF FlipInv, ReviewQueued, Slots
    <2>6. FlipOK'
    BY <1>1, <1>2, <2>2, <2>3 DEF FlipInv, FlipOK, Flips
  <2> QED BY <2>5, <2>6 DEF FlipInv
<1> QED BY <1>3, <1>4

\* A dispatch goes on that neither removes labels of the reviewer nor writes its marker.
LEMMA WorkFlip ==
    ASSUME Inv, FlipInv, NEW s \in Slots, Works(s), rereviewed' = rereviewed,
           labels \cap {"review", "reviewing"} \subseteq labels'
    PROVE  FlipInv'
<1>1. /\ SlotMoved(s) /\ loop' = loop /\ slot[s].at \notin {"free", "claimed"}
      /\ Reviewing(s)' => Reviewing(s)
  BY DEF Works
<1>2. \A r \in Slots : r # s => slot'[r] = slot[r]
  BY <1>1 DEF SlotMoved, Inv, TypeOK
<1>3. \A r \in Slots : Reviewing(r)' => Reviewing(r)
  BY <1>1, <1>2 DEF Reviewing, Left
<1>4. OneReviewer => ReviewQueued'
  BY <1>1, <1>2, <1>3 DEF FlipInv, ReviewQueued, Slots
<1>5. FlipOK'
  BY <1>1, <1>3 DEF FlipInv, FlipOK, Flips
<1> QED BY <1>4, <1>5 DEF FlipInv

\* A reviewer that cleans up is no longer at work on the head.
LEMMA ReviewerFlip ==
    ASSUME Inv, FlipInv, NEW s \in Reviewers, slot[s].at = "clean", Works(s),
           ~ Reviewing(s)', rereviewed' = rereviewed \/ Reviewing(s)
    PROVE  FlipInv'
<1>1. SlotMoved(s) /\ loop' = loop /\ s \in Slots
  BY DEF Works, Slots
<1>2. \A r \in Slots : r # s => slot'[r] = slot[r]
  BY <1>1 DEF SlotMoved, Inv, TypeOK
<1>3. \A r \in Slots : Reviewing(r)' => r # s /\ Reviewing(r)
  BY <1>2 DEF Reviewing, Left
<1>4. OneReviewer => ReviewQueued'
  BY <1>1, <1>3 DEF FlipInv, ReviewQueued, OneReviewer, Reviewing
<1>5. FlipOK'
  BY <1>1, <1>3 DEF FlipInv, FlipOK, Flips
<1> QED BY <1>4, <1>5 DEF FlipInv

LEMMA SlotFlip ==
    ASSUME Inv, FlipInv, NEW s \in Slots,
           SlotStep(s) \/ Push(s) \/ \E state \in ReviewStates : Post(s, state)
    PROVE  FlipInv'
<1>1. CASE Prepare(s) \/ Snapshot(s) \/ Fail(s) \/ Succeed(s) \/ TimeOut(s) \/ MarkReview(s)
           \/ AskHead(s) \/ AskVerdict(s) \/ AllMarked(s) \/ Release(s)
           \/ Push(s) \/ \E state \in ReviewStates : Post(s, state)
  <2>1. Works(s)
    BY <1>1, PrepareInv, SnapshotInv, EndInv, WorkInv, MarkReviewInv, AskInv, ReleaseInv
  <2>2. rereviewed' = rereviewed /\ labels' = labels
    BY <1>1 DEF Prepare, Snapshot, Fail, Succeed, TimeOut, MarkReview, AskHead, AskVerdict,
                AllMarked, Release, Push, Post, markers
  <2> QED BY <2>1, <2>2, WorkFlip
<1>2. CASE MarkHead(s)
  <2>1. s \in Reviewers /\ slot[s].at = "clean"
    BY <1>2, KindTyped DEF MarkHead, At
  <2> QED BY <1>2, <2>1, MarkHeadInv, ReviewerFlip
<1>3. CASE Unlock(s) \/ Dequeue(s) \/ AddDone(s) \/ Flag(s) \/ Unflag(s)
  <2>1. Works(s) /\ ~ Reviewing(s)'
    BY <1>3, RelabelInv
  <2>2. slot[s].at = "clean" /\ rereviewed' = rereviewed
    BY <1>3 DEF Unlock, Dequeue, AddDone, Flag, Unflag, At, markers
  <2>3. CASE s \in Reviewers
    BY <2>1, <2>2, <2>3, ReviewerFlip
  <2>4. CASE s \notin Reviewers
    <3>1. /\ LockLabel(KindOf(s)) = "addressing" /\ QueueLabel(KindOf(s)) = "address"
      BY <2>4, KindTyped DEF LockLabel, QueueLabel, KindOf
    <3>2. labels \cap {"review", "reviewing"} \subseteq labels'
      <4>1. CASE Unlock(s) \/ Dequeue(s) \/ AddDone(s)
        BY <3>1, <4>1, KeepsLabels DEF Unlock, Dequeue, AddDone
      <4>2. CASE Flag(s)
        BY <4>2, KeepsLabels DEF Flag
      <4>3. CASE Unflag(s)
        BY <4>3, KeepsLabels DEF Unflag
      <4> QED BY <1>3, <4>1, <4>2, <4>3
    <3> QED BY <2>1, <2>2, <3>2, WorkFlip
  <2> QED BY <2>3, <2>4
<1> QED BY <1>1, <1>2, <1>3 DEF SlotStep

LEMMA InitFlip == Init => FlipInv
<1> SUFFICES ASSUME Init PROVE FlipInv
  OBVIOUS
<1>1. \A s \in Slots : slot[s].at = "free"
  BY FreeSlotTyped DEF Init
<1>2. \A o \in Orchestrators : loop[o].at = "sweep"
  BY LoopAtTyped DEF Init, LoopSteps, Kinds
<1> QED BY <1>1, <1>2 DEF FlipInv, ReviewQueued, FlipOK, Flips, Reviewing

LEMMA NextFlip ==
    ASSUME SafeCrew, Inv, FlipInv, "addLabel" \notin MayFail => LabelKept, [Next]_vars
    PROVE  FlipInv'
<1>1. ASSUME NEW o \in Orchestrators, LoopStep(o) \/ Crash(o) \/ Restart(o)
      PROVE  FlipInv'
  BY <1>1, DetectFlip, RequeueFlip, AddressFlip, TickFlip, ClaimFlip, MarkFlip, CrashFlip
     DEF LoopStep
<1>2. ASSUME NEW o \in Orchestrators, NEW kind \in Kinds, SweepLock(o, kind)
      PROVE  FlipInv'
  BY <1>2, StillFlip DEF SweepLock, markers
<1>3. CASE Outside
  BY <1>3, OutsideInv, StillFlip
<1>4. CASE UNCHANGED vars
  BY <1>4, StillFlip DEF vars
<1> QED BY <1>1, <1>2, <1>3, <1>4, SlotFlip DEF Next, Outside

\* The detector does not queue a head that the reviewer has marked: while the reviewer is
\* at work on it, maybeFlipToReview sees its queue label or its lock label, and when both
\* are gone the marker is there.
THEOREM ReviewedIsNotRequeued ==
    ASSUME SafeCrew
    PROVE  Spec => ReviewedHeadNotRequeued
<1> DEFINE Whole == Inv /\ FlipInv /\ ("addLabel" \notin MayFail => LockInv)
<1>1. Init => Whole
  BY InitInv, InitFlip, InitLock
<1>2. Whole /\ [Next]_vars => Whole'
  <2> SUFFICES ASSUME Whole, [Next]_vars PROVE Whole'
    OBVIOUS
  <2>1. Inv' /\ FlipInv'
    BY NextInv, NextFlip DEF LockInv
  <2>2. ASSUME "addLabel" \notin MayFail PROVE LockInv'
    <3>1. SafeLabels
      BY <2>2 DEF SafeCrew, SafeLabels
    <3> QED BY <2>2, <3>1, NextLock
  <2> QED BY <2>1, <2>2
<1>3. Whole => \A o \in Orchestrators : Requeue(o) => loop[o].head \notin rereviewed
  BY DEF FlipInv, FlipOK, Requeue
<1> HIDE DEF Whole
<1>4. Spec => []Whole
  BY <1>1, <1>2, PTL DEF Spec
<1> QED BY <1>3, <1>4, PTL DEF ReviewedHeadNotRequeued
===============================================================================
