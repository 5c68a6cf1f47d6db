--------------------------- MODULE MergeLoopProofs ---------------------------
(***************************************************************************)
(* Proofs about MergeLoop, for every bound on heads and base moves and any *)
(* number of failing calls, whether a resolver comes or not: type          *)
(* correctness, and that no pull request drops out of the merge queue      *)
(* silently.                                                               *)
(***************************************************************************)
EXTENDS MergeLoop, SequenceTheorems, TLAPS

\* What MergeLoop says of GitHub, of the reviews, and of the bounds.
GithubOK == open \in BOOLEAN /\ head \in Heads /\ status \in Statuses /\ checks \in CheckResults
ReviewsOK == reviewed \subseteq Heads
BoundsOK == moves \in 0 .. MaxMoves

MergerOK == merger \in [at : MergerSteps, sha : Heads \cup {0}]
ResolverOK ==
    /\ resolver \in [at : ResolverSteps, todo : Seq(CleanSteps)]
    /\ (resolver.at = "clean") = (resolver.todo # << >>)
ReviewerOK ==
    /\ reviewer \in [at : ReviewerSteps, sha : Heads \cup {0}, verdict : Verdicts]
    /\ reviewer.at \in {"run", "mark"} => reviewer.sha \in Heads

\* The merger takes `merge' off after it has merged or blocked the pull request.
MergerBlocked == merger.at = "unqueue" => ~ open \/ "conflict-blocked" \in labels

\* What is left of a cleanup of the resolver takes `merge' off after it has blocked the
\* pull request, or that is done already.
ResolverBlocked ==
    \A n \in 1 .. Len(resolver.todo) :
        resolver.todo[n] = "unqueue" =>
            \/ "conflict-blocked" \in labels
            \/ \E m \in 1 .. n - 1 : resolver.todo[m] = "block"

Typed == GithubOK /\ ReviewsOK /\ BoundsOK /\ labels \subseteq Labels
         /\ MergerOK /\ ResolverOK /\ ReviewerOK

LEMMA TypedIsTypeOK == Typed => TypeOK
BY DEF Typed, TypeOK, GithubOK, ReviewsOK, BoundsOK, MergerOK, ResolverOK, ReviewerOK

LEMMA InitTyped == Init => Typed
<1>1. 1 \in Heads /\ << >> \in Seq(CleanSteps)
  BY BoundsAssumption DEF Heads
<1>2. Init => GithubOK
  <2>1. Init => open \in BOOLEAN
    BY DEF Init
  <2>2. Init => head \in Heads /\ status \in Statuses /\ checks \in CheckResults
    BY <1>1 DEF Init, Statuses, CheckResults
  <2> QED BY <2>1, <2>2 DEF GithubOK
<1>3. Init => ReviewsOK /\ BoundsOK /\ labels \subseteq Labels /\ MergerOK /\ ReviewerOK
  <2>1. Init => ReviewsOK /\ BoundsOK
    <3>1. Init => ReviewsOK
      BY DEF Init, ReviewsOK
    <3>2. Init => moves = 0
      BY DEF Init
    <3>3. 0 \in 0 .. MaxMoves
      BY BoundsAssumption
    <3> QED BY <3>1, <3>2, <3>3 DEF BoundsOK
  <2>2. Init => labels \subseteq Labels
    BY DEF Init, Labels
  <2>3. Init => MergerOK /\ ReviewerOK
    <3>1. /\ IdleMerger \in [at : MergerSteps, sha : Heads \cup {0}]
          /\ IdleReviewer \in [at : ReviewerSteps, sha : Heads \cup {0}, verdict : Verdicts]
          /\ IdleReviewer.at = "idle"
      BY DEF IdleMerger, IdleReviewer, MergerSteps, ReviewerSteps, Verdicts
    <3> QED BY <3>1 DEF Init, MergerOK, ReviewerOK
  <2> QED BY <2>1, <2>2, <2>3
<1>4. Init => ResolverOK
  <2>1. IdleResolver.at = "idle" /\ IdleResolver.todo = << >>
    BY DEF IdleResolver
  <2>2. IdleResolver \in [at : ResolverSteps, todo : Seq(CleanSteps)]
    BY <1>1 DEF IdleResolver, ResolverSteps
  <2> QED BY <2>1, <2>2 DEF Init, ResolverOK
<1> QED BY <1>2, <1>3, <1>4 DEF Typed

-----------------------------------------------------------------------------
(* Calls.                                                                  *)

LEMMA LabelTyped ==
    ASSUME labels \subseteq Labels, NEW label \in Labels, AddLabel(label) \/ RemoveLabel(label)
    PROVE  labels' \subseteq Labels
BY DEF AddLabel, RemoveLabel

LEMMA NewHeadTyped == ASSUME GithubOK, NewHead PROVE GithubOK'
BY BoundsAssumption DEF GithubOK, NewHead, Heads, Statuses, CheckResults

-----------------------------------------------------------------------------
(* Every step preserves the types.                                         *)

LEMMA OutsideTyped ==
    ASSUME Typed,
           \/ \E result \in Statuses : Compute(result)
           \/ \E runs \in CheckResults : ChecksEnd(runs)
           \/ BaseMoves \/ HumanPush \/ Unblock
    PROVE  Typed'
<1>1. GithubOK' /\ BoundsOK' /\ labels' \subseteq Labels
  <2>1. CASE \E result \in Statuses : Compute(result)
    BY <2>1 DEF Compute, Typed, GithubOK, BoundsOK
  <2>2. CASE \E runs \in CheckResults : ChecksEnd(runs)
    BY <2>2 DEF ChecksEnd, Typed, GithubOK, BoundsOK
  <2>3. CASE BaseMoves
    BY <2>3, BoundsAssumption DEF BaseMoves, Typed, GithubOK, BoundsOK, Statuses
  <2>4. CASE HumanPush
    BY <2>4, NewHeadTyped DEF HumanPush, Typed, BoundsOK
  <2>5. CASE Unblock
    BY <2>5 DEF Unblock, Typed, GithubOK, BoundsOK, github
  <2> QED BY <2>1, <2>2, <2>3, <2>4, <2>5
<1>2. UNCHANGED <<reviewed, merger, resolver, reviewer>>
  BY DEF Compute, ChecksEnd, BaseMoves, HumanPush, Unblock
<1> QED BY <1>1, <1>2 DEF Typed, ReviewsOK, MergerOK, ResolverOK, ReviewerOK

\* A step of the reviewer between two calls.
LEMMA ReviewerMoves ==
    ASSUME ReviewerOK, NEW step \in ReviewerSteps, Reviewer(step),
           step \in {"run", "mark"} => reviewer.at \in {"run", "mark"}
    PROVE  ReviewerOK'
BY DEF ReviewerOK, Reviewer

LEMMA ReviewerTyped ==
    ASSUME Typed, ReviewerStep \/ Detect
    PROVE  Typed'
<1>1. UNCHANGED <<github, moves, merger, resolver>>
  BY DEF ReviewerStep, ReviewerLists, ReviewerStarts, ReviewerGetsPR, ReviewerEnds, ReviewerMarks,
         ReviewerAsks, ReviewerRelabels, ReviewerFlags, Detect
<1>2. labels' \subseteq Labels
  <2>1. {"review", "reviewing", "reviewed", "merge"} \subseteq Labels
    BY DEF Labels
  <2>2. CASE \E label \in Labels : AddLabel(label) \/ RemoveLabel(label)
    BY <2>2, LabelTyped DEF Typed
  <2>3. CASE UNCHANGED labels
    BY <2>3 DEF Typed
  <2>4. CASE Detect
    BY <2>1, <2>4 DEF Detect, Typed
  <2>5. CASE ReviewerFlags
    <3>1. PICK v \in Verdicts : v = reviewer.verdict
      BY DEF Typed, ReviewerOK
    <3>2. AddLabel("merge") \/ RemoveLabel("merge") \/ UNCHANGED labels
      BY <2>5, <3>1 DEF ReviewerFlags, Verdicts
    <3> QED BY <2>1, <2>2, <2>3, <3>2
  <2>6. CASE ReviewerStarts \/ ReviewerRelabels
    BY <2>1, <2>2, <2>6 DEF ReviewerStarts, ReviewerRelabels
  <2>7. CASE ReviewerLists \/ ReviewerGetsPR \/ ReviewerEnds \/ ReviewerMarks \/ ReviewerAsks
    BY <2>3, <2>7 DEF ReviewerLists, ReviewerGetsPR, ReviewerEnds, ReviewerMarks, ReviewerAsks
  <2> QED BY <2>4, <2>5, <2>6, <2>7 DEF ReviewerStep
<1>3. ReviewsOK'
  <2>1. CASE ReviewerMarks
    BY <2>1 DEF ReviewerMarks, Typed, ReviewsOK, ReviewerOK
  <2>2. CASE ~ ReviewerMarks
    BY <2>2 DEF ReviewerStep, ReviewerLists, ReviewerStarts, ReviewerGetsPR, ReviewerEnds,
                ReviewerAsks, ReviewerRelabels, ReviewerFlags, Detect, Typed, ReviewsOK
  <2> QED BY <2>1, <2>2
<1>4. ReviewerOK'
  <2> DEFINE R == [at : ReviewerSteps, sha : Heads \cup {0}, verdict : Verdicts]
  <2>1. {"idle", "listed", "get", "run", "mark", "verdict", "unlock", "dequeue", "done", "flag",
         "fail"} \subseteq ReviewerSteps
    BY DEF ReviewerSteps
  <2>2. CASE ReviewerLists \/ ReviewerStarts \/ ReviewerEnds
    BY <2>1, <2>2, ReviewerMoves DEF ReviewerLists, ReviewerStarts, ReviewerEnds, Typed
  <2>3. CASE ReviewerGetsPR
    <3>1. PICK step \in {"run", "fail"} :
            \/ step = "run" /\ reviewer' = [reviewer EXCEPT !.at = "run", !.sha = head]
            \/ step = "fail" /\ reviewer' = [reviewer EXCEPT !.at = "fail"]
      BY <2>3 DEF ReviewerGetsPR
    <3> QED BY <2>1, <3>1 DEF Typed, GithubOK, ReviewerOK
  <2>4. CASE ReviewerMarks
    <3>1. reviewer' = [reviewer EXCEPT !.at = "verdict", !.sha = 0]
      BY <2>4 DEF ReviewerMarks
    <3> QED BY <2>1, <3>1 DEF Typed, ReviewerOK
  <2>5. CASE ReviewerAsks
    <3>1. PICK v \in Verdicts : reviewer' = [reviewer EXCEPT !.at = "unlock", !.verdict = v]
      BY <2>5 DEF ReviewerAsks, Verdicts
    <3> QED BY <2>1, <3>1 DEF Typed, ReviewerOK
  <2>6. CASE reviewer' = IdleReviewer
    BY <2>1, <2>6 DEF ReviewerOK, IdleReviewer, Verdicts
  <2>7. CASE ReviewerRelabels
    BY <2>1, <2>6, <2>7, ReviewerMoves DEF ReviewerRelabels, Typed
  <2>8. CASE ReviewerFlags
    BY <2>6, <2>8 DEF ReviewerFlags
  <2>9. CASE Detect
    BY <2>9 DEF Detect, Typed, ReviewerOK
  <2> QED BY <2>2, <2>3, <2>4, <2>5, <2>7, <2>8, <2>9 DEF ReviewerStep
<1> QED BY <1>1, <1>2, <1>3, <1>4
        DEF Typed, GithubOK, BoundsOK, MergerOK, ResolverOK, github

LEMMA MergerMoves ==
    ASSUME MergerOK, NEW step \in MergerSteps,
           Merger(step) \/ \E sha \in Heads : MergerTold(step, sha)
    PROVE  MergerOK' /\ merger'.at = step
<1>1. PICK sha \in Heads \cup {0} : merger' = [at |-> step, sha |-> sha]
  <2>1. PICK sha \in Heads \cup {0} : MergerTold(step, sha)
    BY DEF MergerOK, Merger
  <2> QED BY <2>1 DEF MergerTold
<1> QED BY <1>1 DEF MergerOK

LEMMA StepsTyped ==
    /\ \A state \in Statuses : StepFor(state) \in MergerSteps \ {"unqueue"}
    /\ \A runs \in CheckResults : StepAfterChecks(runs) \in MergerSteps \ {"unqueue"}
BY DEF StepFor, StepAfterChecks, Statuses, CheckResults, MergerSteps

LEMMA MergerTyped ==
    ASSUME Typed, MergerStep
    PROVE  Typed'
<1>1. UNCHANGED <<reviewed, resolver, reviewer, moves>>
  BY DEF MergerStep, MergerLists, MergerStarts, MergerGetsPR, MergerGetsChecks, MergerMerges,
         MergerUpdatesBranch, MergerHandsOff, MergerBlocks, MergerUnqueues, MergerUnlocks
<1>2. GithubOK' /\ BoundsOK' /\ labels' \subseteq Labels
  <2>1. CASE MergerLists
    BY <2>1 DEF MergerLists, Typed, GithubOK, BoundsOK, github
  <2>2. CASE MergerStarts \/ MergerHandsOff \/ MergerBlocks \/ MergerUnqueues \/ MergerUnlocks
    <3>1. UNCHANGED <<github, moves>>
      BY <2>2 DEF MergerStarts, MergerHandsOff, MergerBlocks, MergerUnqueues, MergerUnlocks
    <3>2. \E label \in Labels : AddLabel(label) \/ RemoveLabel(label)
      <4>1. {"merging", "resolve-conflict", "conflict-blocked", "merge"} \subseteq Labels
        BY DEF Labels
      <4> QED BY <2>2, <4>1 DEF MergerStarts, MergerHandsOff, MergerBlocks, MergerUnqueues, MergerUnlocks
    <3> QED BY <1>1, <3>1, <3>2, LabelTyped DEF Typed, GithubOK, BoundsOK, github
  <2>3. CASE MergerGetsPR \/ MergerGetsChecks
    BY <1>1, <2>3 DEF MergerGetsPR, MergerGetsChecks, Typed, GithubOK, BoundsOK, github
  <2>4. CASE MergerMerges
    BY <1>1, <2>4 DEF MergerMerges, Typed, GithubOK, BoundsOK
  <2>5. CASE MergerUpdatesBranch
    <3>1. labels' = labels /\ (GithubOK' \/ UNCHANGED github)
      BY <2>5, NewHeadTyped DEF MergerUpdatesBranch, Typed
    <3>2. BoundsOK'
      BY <1>1 DEF Typed, BoundsOK
    <3> QED BY <3>1, <3>2 DEF Typed, GithubOK, github
  <2> QED BY <2>1, <2>2, <2>3, <2>4, <2>5 DEF MergerStep
<1>3. MergerOK'
  <2>1. ASSUME NEW step \in MergerSteps, Merger(step) PROVE MergerOK'
    BY <2>1, MergerMoves DEF Typed
  <2>2. {"idle", "listed", "get", "unlock", "handoff", "block", "unqueue"} \subseteq MergerSteps
    BY DEF MergerSteps
  <2>3. CASE MergerGetsPR
    <3>1. CASE MergerTold(StepFor(status), head)
      BY <3>1, StepsTyped, MergerMoves DEF Typed, GithubOK
    <3>2. CASE Merger("unlock")
      BY <2>1, <2>2, <3>2
    <3> QED BY <2>3, <3>1, <3>2 DEF MergerGetsPR
  <2>4. CASE MergerGetsChecks
    <3>1. PICK runs \in CheckResults : Merger(StepAfterChecks(runs)) \/ Merger("unlock")
      BY <2>4 DEF MergerGetsChecks, Typed, GithubOK
    <3> QED BY <2>1, <2>2, <3>1, StepsTyped
  <2>5. CASE MergerMerges
    <3>1. PICK result \in {"merged", "conflict", "refused"} :
            Merger(CASE result = "merged"   -> "unqueue"
                     [] result = "conflict" -> "handoff"
                     [] result = "refused"  -> "block")
      BY <2>5 DEF MergerMerges, MergeAnswers
    <3> QED BY <2>1, <2>2, <3>1
  <2>6. CASE MergerUnlocks
    BY <2>2, <2>6 DEF MergerUnlocks, IdleMerger, MergerOK
  <2>7. CASE \/ MergerLists \/ MergerStarts \/ MergerUpdatesBranch \/ MergerHandsOff
             \/ MergerBlocks \/ MergerUnqueues
    BY <2>1, <2>2, <2>7
    DEF MergerLists, MergerStarts, MergerUpdatesBranch, MergerHandsOff, MergerBlocks, MergerUnqueues
  <2> QED BY <2>3, <2>4, <2>5, <2>6, <2>7 DEF MergerStep
<1> QED BY <1>1, <1>2, <1>3 DEF Typed, ReviewsOK, ResolverOK, ReviewerOK

\* A cleanup is not empty, takes `merge' off only after `conflict-blocked' went on, and
\* ends.
BlocksFirst(todo) ==
    \A n \in 1 .. Len(todo) : todo[n] = "unqueue" => \E m \in 1 .. n - 1 : todo[m] = "block"

LEMMA CleanupPlans ==
    ASSUME NEW exit \in {"ok", "fail", "soft"}
    PROVE  /\ Cleanup(exit) \in Seq(CleanSteps) /\ Cleanup(exit) # << >>
           /\ BlocksFirst(Cleanup(exit))
<1>1. CASE exit = "ok"
  <2>1. Cleanup(exit) = <<"unlock", "dequeue", "review", "unreviewed">>
    BY <1>1 DEF Cleanup
  <2> QED BY <2>1 DEF CleanSteps, BlocksFirst
<1>2. CASE exit = "fail"
  <2>1. Cleanup(exit) = <<"unlock", "dequeue", "block", "unqueue">>
    BY <1>2 DEF Cleanup
  <2> QED BY <2>1 DEF CleanSteps, BlocksFirst
<1>3. CASE exit = "soft"
  <2>1. Cleanup(exit) = <<"unlock">>
    BY <1>3 DEF Cleanup
  <2> QED BY <2>1 DEF CleanSteps, BlocksFirst
<1> QED BY <1>1, <1>2, <1>3

LEMMA ConcludeTyped ==
    ASSUME NEW exit \in {"ok", "fail", "soft"}, Conclude(exit)
    PROVE  ResolverOK' /\ resolver'.todo = Cleanup(exit)
<1>1. resolver' = [at |-> "clean", todo |-> Cleanup(exit)]
  BY DEF Conclude
<1>2. "clean" \in ResolverSteps
  BY DEF ResolverSteps
<1> QED BY <1>1, <1>2, CleanupPlans DEF ResolverOK

\* The resolver outside of its cleanup.
LEMMA ResolverMoves ==
    ASSUME ResolverOK, resolver.at # "clean",
           NEW step \in ResolverSteps \ {"clean"}, Resolver(step)
    PROVE  ResolverOK' /\ resolver'.todo = << >>
<1>1. resolver' = [resolver EXCEPT !.at = step]
  BY DEF Resolver
<1>2. resolver'.at = step /\ resolver'.todo = resolver.todo
  BY <1>1 DEF ResolverOK
<1>3. resolver' \in [at : ResolverSteps, todo : Seq(CleanSteps)]
  BY <1>1 DEF ResolverOK
<1> QED BY <1>2, <1>3 DEF ResolverOK

LEMMA RestTyped ==
    ASSUME ResolverOK, resolver.at = "clean", resolver' = Rest(resolver)
    PROVE  /\ ResolverOK'
           /\ resolver'.todo # << >> => resolver'.todo = Tail(resolver.todo)
<1>1. PICK todo \in Seq(CleanSteps) : todo = resolver.todo /\ todo # << >>
  BY DEF ResolverOK
<1>2. CASE Len(todo) = 1
  <2>1. resolver' = IdleResolver
    BY <1>1, <1>2 DEF Rest
  <2>2. resolver'.at = "idle" /\ resolver'.todo = << >>
    BY <2>1 DEF IdleResolver
  <2>3. IdleResolver \in [at : ResolverSteps, todo : Seq(CleanSteps)]
    BY DEF IdleResolver, ResolverSteps
  <2> QED BY <2>1, <2>2, <2>3 DEF ResolverOK
<1>3. CASE Len(todo) # 1
  <2>1. resolver' = [resolver EXCEPT !.todo = Tail(todo)]
    BY <1>1, <1>3 DEF Rest
  <2>2. Tail(todo) \in Seq(CleanSteps) /\ Tail(todo) # << >>
    <3>1. Len(todo) \in Nat /\ Len(todo) # 0
      BY <1>1, EmptySeq, LenProperties
    <3>2. Tail(todo) \in Seq(CleanSteps) /\ Len(Tail(todo)) = Len(todo) - 1
      BY <1>1, HeadTailProperties
    <3>3. Tail(todo) = << >> => Len(Tail(todo)) = 0
      BY <3>2, EmptySeq
    <3>4. \A n \in Nat : n # 0 /\ n # 1 => n - 1 # 0
      OBVIOUS
    <3>5. Len(Tail(todo)) # 0
      BY <1>3, <3>1, <3>2, <3>4
    <3> QED BY <3>2, <3>3, <3>5
  <2>3. resolver'.at = "clean" /\ resolver'.todo = Tail(todo)
    BY <2>1 DEF ResolverOK
  <2>4. resolver' \in [at : ResolverSteps, todo : Seq(CleanSteps)]
    BY <2>1, <2>2 DEF ResolverOK
  <2> QED BY <1>1, <2>2, <2>3, <2>4 DEF ResolverOK
<1> QED BY <1>2, <1>3

LEMMA ResolverTyped ==
    ASSUME Typed, ResolverLists \/ ResolverStep \/ ResolverPushes
    PROVE  Typed'
<1>1. UNCHANGED <<reviewed, merger, reviewer, moves>>
  BY DEF ResolverStep, ResolverLists, ResolverStarts, ResolverPrepares, ResolverSucceeds,
         ResolverFails, CleanResolver,
         ResolverPushes
<1>2. GithubOK' /\ BoundsOK' /\ labels' \subseteq Labels
  <2>1. CASE ResolverLists \/ ResolverSucceeds \/ ResolverFails
    BY <2>1 DEF ResolverLists, ResolverSucceeds, ResolverFails, Typed, GithubOK, BoundsOK, github
  <2>2. CASE ResolverStarts \/ \E step \in CleanSteps : CleanResolver(step)
    <3>1. github' = github
      BY <2>2 DEF ResolverStarts, CleanResolver
    <3>2. \E label \in Labels : AddLabel(label) \/ RemoveLabel(label)
      <4>1. {"resolving", "resolve-conflict", "review", "reviewed", "conflict-blocked", "merge"}
              \subseteq Labels
        BY DEF Labels
      <4>2. CASE ResolverStarts
        BY <4>1, <4>2 DEF ResolverStarts
      <4>3. CASE \E step \in CleanSteps : CleanResolver(step)
        <5>1. PICK step \in CleanSteps : CleanResolver(step)
          BY <4>3
        <5> QED BY <4>1, <5>1 DEF CleanResolver
      <4> QED BY <2>2, <4>2, <4>3
    <3> QED BY <1>1, <3>1, <3>2, LabelTyped DEF Typed, GithubOK, BoundsOK, github
  <2>3. CASE ResolverPrepares
    BY <1>1, <2>3 DEF ResolverPrepares, Typed, GithubOK, BoundsOK, github
  <2>4. CASE ResolverPushes
    BY <2>4, NewHeadTyped DEF ResolverPushes, Typed, BoundsOK
  <2> QED BY <2>1, <2>2, <2>3, <2>4 DEF ResolverStep
<1>3. ResolverOK'
  <2>1. {"listed", "get", "run", "pushed"} \subseteq ResolverSteps \ {"clean"}
    BY DEF ResolverSteps
  <2>2. CASE \E step \in CleanSteps : CleanResolver(step)
    BY <2>2, RestTyped DEF CleanResolver, Typed
  <2>3. CASE ~ \E step \in CleanSteps : CleanResolver(step)
    BY <2>1, <2>3, ResolverMoves, ConcludeTyped
    DEF ResolverStep, ResolverLists, ResolverStarts, ResolverPrepares, ResolverSucceeds,
         ResolverFails, ResolverPushes, Typed
  <2> QED BY <2>2, <2>3
<1> QED BY <1>1, <1>2, <1>3 DEF Typed, ReviewsOK, MergerOK, ReviewerOK

LEMMA StepTyped ==
    ASSUME Typed, [Next]_vars
    PROVE  Typed'
<1>1. CASE UNCHANGED vars
  BY <1>1 DEF vars, github, Typed, GithubOK, ReviewsOK, BoundsOK, MergerOK, ResolverOK,
              ReviewerOK
<1>2. CASE Next
  BY <1>2, OutsideTyped, ReviewerTyped, MergerTyped, ResolverTyped DEF Next
<1> QED BY <1>1, <1>2

\* The types, with every bound: the resolver is in its cleanup exactly as long as there
\* is something left of it.
THEOREM MergeTypeCorrect == Spec => []TypeOK
<1>1. Typed /\ [Next]_vars => Typed'
  BY StepTyped
<1> QED BY <1>1, InitTyped, TypedIsTypeOK, PTL DEF Spec

-----------------------------------------------------------------------------
(* The merge queue.                                                        *)

\* `conflict-blocked' comes off only when nobody is about to rely on it.
LEMMA BlockedStays ==
    ASSUME Typed, MergerBlocked, ResolverBlocked,
           UNCHANGED <<merger, resolver>>, open' = open,
           "conflict-blocked" \in labels =>
               \/ "conflict-blocked" \in labels'
               \/ merger.at # "unqueue" /\ resolver.at # "clean"
    PROVE  MergerBlocked' /\ ResolverBlocked'
<1>1. MergerBlocked'
  BY DEF MergerBlocked
<1>2. resolver.at # "clean" => resolver.todo = << >>
  BY DEF Typed, ResolverOK
<1>3. resolver.todo = << >> => Len(resolver.todo) = 0
  OBVIOUS
<1>4. ResolverBlocked'
  <2>1. CASE Len(resolver.todo) = 0
    BY <2>1 DEF ResolverBlocked
  <2>2. CASE Len(resolver.todo) # 0
    BY <1>2, <1>3, <2>2 DEF ResolverBlocked
  <2> QED BY <2>1, <2>2
<1> QED BY <1>1, <1>4

\* A call on another label leaves `conflict-blocked' alone.
LEMMA OtherLabel ==
    ASSUME NEW label, AddLabel(label) \/ (RemoveLabel(label) /\ label # "conflict-blocked"),
           "conflict-blocked" \in labels
    PROVE  "conflict-blocked" \in labels'
BY DEF AddLabel, RemoveLabel

\* The labels the reviewer's calls are about: `merge' comes off in ReviewerFlags only.
LEMMA ReviewersLabel ==
    ASSUME Typed, ReviewerStep
    PROVE  \/ UNCHANGED labels
           \/ \E label \in {"reviewing", "review", "reviewed", "merge"} :
                AddLabel(label) \/ (RemoveLabel(label) /\ label # "merge")
           \/ reviewer.at = "flag" /\ reviewer.verdict = "CHANGES_REQUESTED"
              /\ RemoveLabel("merge")
<1>1. CASE ReviewerFlags
  <2>1. PICK v \in Verdicts : v = reviewer.verdict
    BY DEF Typed, ReviewerOK
  <2> QED BY <1>1, <2>1 DEF ReviewerFlags, Verdicts
<1>2. CASE ReviewerStarts \/ ReviewerRelabels
  BY <1>2 DEF ReviewerStarts, ReviewerRelabels
<1>3. CASE ReviewerLists \/ ReviewerGetsPR \/ ReviewerEnds \/ ReviewerMarks \/ ReviewerAsks
  BY <1>3 DEF ReviewerLists, ReviewerGetsPR, ReviewerEnds, ReviewerMarks, ReviewerAsks
<1> QED BY <1>1, <1>2, <1>3 DEF ReviewerStep

LEMMA OthersBlocked ==
    ASSUME Typed, MergerBlocked, ResolverBlocked,
           \/ \E result \in Statuses : Compute(result)
           \/ \E runs \in CheckResults : ChecksEnd(runs)
           \/ BaseMoves \/ HumanPush \/ Unblock \/ ReviewerStep \/ Detect
    PROVE  MergerBlocked' /\ ResolverBlocked'
<1>1. UNCHANGED <<merger, resolver>> /\ open' = open
  BY DEF Compute, ChecksEnd, BaseMoves, HumanPush, NewHead, Unblock, ReviewerStep, ReviewerLists,
         ReviewerStarts, ReviewerGetsPR, ReviewerEnds, ReviewerMarks, ReviewerAsks,
         ReviewerRelabels, ReviewerFlags, Detect, github
<1>2. \/ "conflict-blocked" \in labels => "conflict-blocked" \in labels'
      \/ merger.at # "unqueue" /\ resolver.at # "clean"
  <2>1. CASE ReviewerStep
    BY <2>1, ReviewersLabel, OtherLabel
  <2>2. CASE ~ ReviewerStep
    BY <2>2 DEF Compute, ChecksEnd, BaseMoves, HumanPush, Unblock, Detect
  <2> QED BY <2>1, <2>2
<1> QED BY <1>1, <1>2, BlockedStays

LEMMA AddedLabelIsOn ==
    ASSUME "addLabel" \notin MayFail, NEW label, AddLabel(label)
    PROVE  label \in labels'
BY DEF AddLabel, Call, Outcome

LEMMA MergerKeepsBlocked ==
    ASSUME "addLabel" \notin MayFail, Typed, MergerBlocked, ResolverBlocked, MergerStep
    PROVE  MergerBlocked' /\ ResolverBlocked'
<1>1. resolver' = resolver /\ ("conflict-blocked" \in labels => "conflict-blocked" \in labels')
  BY OtherLabel
  DEF MergerStep, MergerLists, MergerStarts, MergerGetsPR, MergerGetsChecks, MergerMerges,
      MergerUpdatesBranch, MergerHandsOff, MergerBlocks, MergerUnqueues, MergerUnlocks
<1>2. ResolverBlocked'
  BY <1>1 DEF ResolverBlocked
<1>3. ASSUME NEW step \in MergerSteps \ {"unqueue"}, Merger(step)
      PROVE  MergerBlocked' /\ ResolverBlocked'
  BY <1>2, <1>3, MergerMoves DEF MergerBlocked, Typed
<1>4. {"idle", "listed", "get", "unlock", "handoff", "block"} \subseteq MergerSteps \ {"unqueue"}
  BY DEF MergerSteps
<1>5. CASE MergerGetsPR
  <2>1. CASE MergerTold(StepFor(status), head)
    <3>1. merger'.at = StepFor(status)
      BY <2>1 DEF MergerTold
    <3> QED BY <1>2, <3>1, StepsTyped DEF MergerBlocked, Typed, GithubOK
  <2>2. CASE Merger("unlock")
    BY <1>3, <1>4, <2>2
  <2> QED BY <1>5, <2>1, <2>2 DEF MergerGetsPR
<1>6. CASE MergerGetsChecks
  <2>1. PICK runs \in CheckResults : Merger(StepAfterChecks(runs)) \/ Merger("unlock")
    BY <1>6 DEF MergerGetsChecks, Typed, GithubOK
  <2> QED BY <1>3, <1>4, <2>1, StepsTyped
<1>7. CASE MergerMerges
  <2>1. PICK result \in {"merged", "conflict", "refused"} :
          /\ open' = (open /\ result # "merged")
          /\ Merger(CASE result = "merged"   -> "unqueue"
                      [] result = "conflict" -> "handoff"
                      [] result = "refused"  -> "block")
    BY <1>7 DEF MergerMerges, MergeAnswers
  <2>2. CASE result = "merged"
    BY <1>2, <2>1, <2>2 DEF MergerBlocked
  <2>3. CASE result \in {"conflict", "refused"}
    BY <1>3, <1>4, <2>1, <2>3
  <2> QED BY <2>1, <2>2, <2>3
<1>8. CASE MergerBlocks
  <2>1. "conflict-blocked" \in labels'
    BY <1>8, AddedLabelIsOn DEF MergerBlocks
  <2> QED BY <1>2, <2>1 DEF MergerBlocked
<1>9. CASE MergerUnlocks
  BY <1>2, <1>9 DEF MergerUnlocks, IdleMerger, MergerBlocked
<1>10. CASE \/ MergerLists \/ MergerStarts \/ MergerUpdatesBranch \/ MergerHandsOff \/ MergerUnqueues
  BY <1>3, <1>4, <1>10
  DEF MergerLists, MergerStarts, MergerUpdatesBranch, MergerHandsOff, MergerUnqueues
<1> QED BY <1>2, <1>5, <1>6, <1>7, <1>8, <1>9, <1>10 DEF MergerStep

LEMMA ResolverKeepsBlocked ==
    ASSUME "addLabel" \notin MayFail, Typed, MergerBlocked, ResolverBlocked,
           ResolverLists \/ ResolverStep \/ ResolverPushes
    PROVE  MergerBlocked' /\ ResolverBlocked'
<1>1. /\ merger' = merger /\ open' = open
      /\ "conflict-blocked" \in labels => "conflict-blocked" \in labels'
  BY OtherLabel
  DEF ResolverStep, ResolverLists, ResolverStarts, ResolverPrepares, ResolverSucceeds,
         ResolverFails, CleanResolver,
      ResolverPushes, NewHead, github
<1>2. MergerBlocked'
  BY <1>1 DEF MergerBlocked
<1>3. CASE \E step \in CleanSteps : CleanResolver(step)
  <2>1. PICK step \in CleanSteps : CleanResolver(step)
    BY <1>3
  <2>2. PICK todo \in Seq(CleanSteps) : todo = resolver.todo /\ todo # << >>
    BY <2>1 DEF CleanResolver, Typed, ResolverOK
  <2>3. Head(todo) = step /\ ResolverOK'
        /\ (resolver'.todo # << >> => resolver'.todo = Tail(todo))
    BY <2>1, <2>2, RestTyped DEF CleanResolver, Typed
  <2>4. PICK len \in Nat : len = Len(todo) /\ len >= 1
    BY <2>2, EmptySeq, LenProperties
  <2>5. todo[1] = step
    BY <2>2, <2>3, HeadTailProperties
  <2>6. CASE resolver'.todo = << >>
    <3>1. Len(resolver'.todo) = 0
      BY <2>6
    <3> QED BY <1>2, <3>1 DEF ResolverBlocked
  <2>7. CASE resolver'.todo # << >>
    <3>1. Len(resolver'.todo) = len - 1 /\ \A n \in 1 .. len - 1 : resolver'.todo[n] = todo[n + 1]
      BY <2>2, <2>3, <2>4, <2>7, HeadTailProperties
    <3>2. ASSUME NEW n \in 1 .. len - 1, resolver'.todo[n] = "unqueue", "conflict-blocked" \notin labels'
          PROVE  \E m \in 1 .. n - 1 : resolver'.todo[m] = "block"
      <4>1. n + 1 \in 1 .. len /\ todo[n + 1] = "unqueue" /\ "conflict-blocked" \notin labels
        BY <1>1, <2>4, <3>1, <3>2
      <4>2. PICK m \in 1 .. n : todo[m] = "block"
        BY <2>2, <2>4, <4>1 DEF ResolverBlocked
      <4>3. m # 1
        <5>1. step = "block" => AddLabel("conflict-blocked")
          BY <2>1 DEF CleanResolver
        <5> QED BY <2>5, <3>2, <4>2, <5>1, AddedLabelIsOn
      <4>4. m - 1 \in 1 .. n - 1 /\ m - 1 \in 1 .. len - 1 /\ (m - 1) + 1 = m
        BY <2>4, <4>2, <4>3
      <4>5. resolver'.todo[m - 1] = "block"
        BY <3>1, <4>2, <4>4
      <4> QED BY <4>4, <4>5
    <3> QED BY <1>2, <3>1, <3>2 DEF ResolverBlocked
  <2> QED BY <2>6, <2>7
<1>4. CASE \E exit \in {"ok", "fail", "soft"} : Conclude(exit)
  BY <1>2, <1>4, ConcludeTyped, CleanupPlans DEF BlocksFirst, ResolverBlocked
<1>5. CASE /\ ~ \E step \in CleanSteps : CleanResolver(step)
           /\ ~ \E exit \in {"ok", "fail", "soft"} : Conclude(exit)
  <2>1. {"listed", "get", "run", "pushed"} \subseteq ResolverSteps \ {"clean"}
    BY DEF ResolverSteps
  <2>2. resolver'.todo = << >>
    BY <1>5, <2>1, ResolverMoves
    DEF ResolverStep, ResolverLists, ResolverStarts, ResolverPrepares, ResolverSucceeds,
         ResolverFails, ResolverPushes, Typed
  <2>3. Len(resolver'.todo) = 0
    BY <2>2
  <2> QED BY <1>2, <2>3 DEF ResolverBlocked
<1> QED BY <1>3, <1>4, <1>5

Queue == Typed /\ MergerBlocked /\ ResolverBlocked

LEMMA InitQueue == Init => Queue
<1>1. Init => merger.at # "unqueue" /\ Len(resolver.todo) = 0
  <2>1. Init => merger = IdleMerger /\ resolver = IdleResolver
    BY DEF Init
  <2>2. IdleMerger.at = "idle" /\ IdleResolver.todo = << >>
    BY DEF IdleMerger, IdleResolver
  <2>3. Len(<< >>) = 0
    OBVIOUS
  <2> QED BY <2>1, <2>2, <2>3
<1> QED BY <1>1, InitTyped DEF Queue, MergerBlocked, ResolverBlocked

LEMMA StepQueue ==
    ASSUME "addLabel" \notin MayFail, Queue, [Next]_vars
    PROVE  Queue'
<1>1. Typed'
  BY StepTyped DEF Queue
<1>2. CASE UNCHANGED vars
  BY <1>1, <1>2 DEF vars, github, Queue, MergerBlocked, ResolverBlocked
<1>3. CASE Next
  BY <1>1, <1>3, OthersBlocked, MergerKeepsBlocked, ResolverKeepsBlocked DEF Next, Queue
<1> QED BY <1>2, <1>3

\* Whoever takes `merge' off has a reason that can be seen.
LEMMA DropHasReason ==
    ASSUME Queue, [Next]_vars, "merge" \in labels, "merge" \notin labels'
    PROVE  \/ ~ open \/ "conflict-blocked" \in labels
           \/ reviewer.at = "flag" /\ reviewer.verdict = "CHANGES_REQUESTED"
<1>1. ASSUME NEW label, AddLabel(label) \/ RemoveLabel(label) PROVE label = "merge"
  BY <1>1 DEF AddLabel, RemoveLabel
<1>2. CASE MergerStep
  <2>1. MergerUnqueues
    BY <1>1, <1>2
    DEF MergerStep, MergerLists, MergerStarts, MergerGetsPR, MergerGetsChecks, MergerMerges,
        MergerUpdatesBranch, MergerHandsOff, MergerBlocks, MergerUnqueues, MergerUnlocks
  <2> QED BY <2>1 DEF MergerUnqueues, Queue, MergerBlocked
<1>3. CASE ResolverLists \/ ResolverStep \/ ResolverPushes
  <2>1. CleanResolver("unqueue")
    BY <1>1, <1>3
    DEF ResolverStep, ResolverLists, ResolverStarts, ResolverPrepares, ResolverSucceeds,
         ResolverFails, CleanResolver,
        ResolverPushes
  <2>2. PICK todo \in Seq(CleanSteps) : todo = resolver.todo /\ todo # << >>
    BY <2>1 DEF CleanResolver, Queue, Typed, ResolverOK
  <2>3. PICK len \in Nat : len = Len(todo) /\ len >= 1
    BY <2>2, EmptySeq, LenProperties
  <2>4. todo[1] = "unqueue"
    BY <2>1, <2>2, HeadTailProperties DEF CleanResolver
  <2> QED BY <2>2, <2>3, <2>4 DEF Queue, ResolverBlocked
<1>4. CASE ReviewerStep
  BY <1>1, <1>4, ReviewersLabel DEF Queue, AddLabel
<1>5. CASE \/ \E result \in Statuses : Compute(result)
           \/ \E runs \in CheckResults : ChecksEnd(runs)
           \/ BaseMoves \/ HumanPush \/ Unblock \/ Detect
           \/ UNCHANGED vars
  BY <1>5 DEF Compute, ChecksEnd, BaseMoves, HumanPush, Unblock, Detect, vars
<1> QED BY <1>2, <1>3, <1>4, <1>5 DEF Next

\* When adding a label works, a pull request that leaves the merge queue is merged, or
\* blocked in the open, or the reviewer has read a request for changes, whichever other
\* calls fail, whatever exit code the containers end with, and however merger, resolver,
\* reviewer and people interleave (mergerTerminal, resolverFailCleanup).
THEOREM NobodyDropsSilently ==
    ASSUME "addLabel" \notin MayFail
    PROVE  Spec => NoSilentDrop
<1>1. Queue /\ [Next]_vars => Queue'
  BY StepQueue
<1>2. Queue /\ [Next]_vars =>
        [("merge" \in labels /\ "merge" \notin labels')
         => \/ ~ open \/ "conflict-blocked" \in labels
            \/ reviewer.at = "flag" /\ reviewer.verdict = "CHANGES_REQUESTED"]_vars
  BY DropHasReason
<1> QED BY <1>1, <1>2, InitQueue, PTL DEF Spec, NoSilentDrop
=============================================================================
