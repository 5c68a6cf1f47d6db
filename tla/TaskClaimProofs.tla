-------------------------- MODULE TaskClaimProofs --------------------------
(***************************************************************************)
(* Proofs about TaskClaim, for every number of slots, items and failures:  *)
(* type correctness and the handshake of loop and slots, for any number of *)
(* orchestrators; one container per item, for one orchestrator.            *)
(***************************************************************************)
EXTENDS TaskClaim, TLAPS

GithubOK ==
    /\ lockRefs \subseteq Items /\ tags \in [Items -> SUBSET Ages]
    /\ queueLabel \subseteq Items /\ lockLabel \subseteq Items
    /\ finished \subseteq Items
    /\ orphans \in [Orchestrators -> SUBSET Items] /\ stops \in 0 .. MaxStops

LEMMA InitTyped == Init => TypeOK /\ Handshake
BY SetsAssumption, KindAssumption, BoundsAssumption
DEF Init, TypeOK, Handshake, LoopOK, SlotOK, LoopAt, FreeSlot, LoopStart, Swept,
    SlotStates, LoopStates, SlotSteps, LoopSteps, Dispatched, Ages, Exits, Kinds

LEMMA LoopAtTyped ==
    ASSUME NEW step \in LoopSteps
    PROVE  /\ LoopAt(step) \in LoopStates
           /\ LoopAt(step).at = step /\ LoopAt(step).why = "work"
           /\ LoopAt(step).todo = {} /\ LoopAt(step).slot = None
BY DEF LoopAt, LoopStates

LEMMA SkipTyped ==
    ASSUME TypeOK, NEW o \in Orchestrators, NEW step \in LoopSteps
    PROVE  /\ Skip(o, step) \in LoopStates
           /\ Skip(o, step).at = step /\ Skip(o, step).why = loop[o].why
           /\ Skip(o, step).todo = loop[o].todo \ {loop[o].item}
           /\ Skip(o, step).slot = None /\ Skip(o, step).item = None
BY DEF Skip, LoopAt, LoopStates, TypeOK

LEMMA FreeSlotTyped == FreeSlot \in SlotStates
BY BoundsAssumption DEF FreeSlot, SlotStates, SlotSteps, Ages

\* The loop of o moves and nobody else's does; the same for the slot s.
LoopMoved(o) == loop' = [loop EXCEPT ![o] = loop'[o]] /\ loop'[o] \in LoopStates
SlotMoved(s) == slot' = [slot EXCEPT ![s] = slot'[s]] /\ slot'[s] \in SlotStates

LEMMA ContinueMoves ==
    ASSUME TypeOK, NEW o \in Orchestrators, NEW STATE l, l \in LoopStates, Continue(o, l)
    PROVE  LoopMoved(o) /\ loop'[o] = l
BY DEF TypeOK, Continue, LoopMoved

LEMMA SkipMoves ==
    ASSUME TypeOK, NEW o \in Orchestrators, NEW step \in LoopSteps, Continue(o, Skip(o, step))
    PROVE  /\ LoopMoved(o)
           /\ loop'[o].at = step /\ loop'[o].why = loop[o].why
           /\ loop'[o].todo = loop[o].todo \ {loop[o].item}
           /\ loop'[o].slot = None /\ loop'[o].item = None
<1>1. LoopMoved(o) /\ loop'[o] = Skip(o, step)
  BY ContinueMoves, SkipTyped
<1> QED BY <1>1, SkipTyped

LEMMA ResetMoves ==
    ASSUME TypeOK, NEW o \in Orchestrators, NEW step \in LoopSteps, Continue(o, LoopAt(step))
    PROVE  /\ LoopMoved(o)
           /\ loop'[o].at = step /\ loop'[o].why = "work" /\ loop'[o].todo = {}
BY ContinueMoves, LoopAtTyped

LEMMA LoopMoves ==
    ASSUME TypeOK, Handshake, GithubOK', NEW o \in Orchestrators,
           LoopMoved(o), slot' = slot, LoopOK(o)'
    PROVE  TypeOK' /\ Handshake'
BY DEF TypeOK, GithubOK, Handshake, LoopOK, SlotOK, LoopMoved

LEMMA LoopAndSlotMove ==
    ASSUME TypeOK, Handshake, GithubOK', NEW o \in Orchestrators, NEW s \in Slots, Home[s] = o,
           LoopMoved(o), SlotMoved(s), LoopOK(o)', SlotOK(s)'
    PROVE  TypeOK' /\ Handshake'
<1>1. TypeOK'
  BY DEF TypeOK, GithubOK, LoopMoved, SlotMoved
<1>2. ASSUME NEW p \in Orchestrators, p # o PROVE LoopOK(p)'
  <2>1. loop'[p] = loop[p] /\ LoopOK(p)
    BY <1>2 DEF TypeOK, Handshake, LoopMoved
  <2>2. loop[p].slot = s => loop[p].at \notin {"claim", "tag", "mark"}
    BY <2>1, <1>2 DEF LoopOK
  <2> QED BY <2>1, <2>2 DEF LoopOK, TypeOK, SlotMoved
<1>3. ASSUME NEW r \in Slots, r # s PROVE SlotOK(r)'
  BY <1>3 DEF TypeOK, Handshake, SlotOK, SlotMoved
<1> QED BY <1>1, <1>2, <1>3 DEF Handshake

LEMMA ClaimTyped ==
    ASSUME TypeOK, Handshake, NEW o \in Orchestrators, Claim(o)
    PROVE  TypeOK' /\ Handshake'
<1>a. PICK i \in Items : i = loop[o].item
  BY DEF Claim, Handshake, LoopOK
<1>b. PICK s \in Slots : s = loop[o].slot
  BY DEF Claim, Handshake, LoopOK
<1>1. Home[s] = o /\ loop[o].why = "work"
  BY <1>b DEF Claim, Handshake, LoopOK, TypeOK, LoopStates
<1>2. GithubOK'
  BY <1>a DEF Claim, TypeOK, GithubOK
<1>3. CASE /\ slot' = [slot EXCEPT ![s] = [FreeSlot EXCEPT !.at = "claimed", !.item = i]]
           /\ Continue(o, [loop[o] EXCEPT !.at = "tag"])
  <2>1. /\ slot'[s] = [FreeSlot EXCEPT !.at = "claimed", !.item = i]
        /\ slot'[s] \in SlotStates /\ SlotMoved(s)
    <3>1. [FreeSlot EXCEPT !.at = "claimed", !.item = i] \in SlotStates
      BY FreeSlotTyped DEF SlotStates, SlotSteps
    <3> QED BY <1>3, <3>1 DEF TypeOK, SlotMoved
  <2>2. loop'[o] = [loop[o] EXCEPT !.at = "tag"] /\ LoopMoved(o)
    <3>1. [loop[o] EXCEPT !.at = "tag"] \in LoopStates
      BY DEF TypeOK, LoopStates, LoopSteps
    <3> QED BY <1>3, <3>1, ContinueMoves
  <2>3. /\ loop'[o].at = "tag" /\ loop'[o].why = "work"
        /\ loop'[o].item = i /\ loop'[o].slot = s
    BY <1>1, <1>a, <1>b, <2>2 DEF TypeOK, LoopStates
  <2>4. slot'[s].at = "claimed" /\ slot'[s].item = i /\ slot'[s].exit = "none"
    BY <2>1 DEF FreeSlot
  <2>5. LoopOK(o)'
    BY <1>1, <2>3, <2>4 DEF LoopOK
  <2>6. SlotOK(s)'
    BY <2>4 DEF SlotOK
  <2> QED BY <1>1, <1>2, <2>1, <2>2, <2>5, <2>6, LoopAndSlotMove
<1>4. CASE GiveUpSlot(o) /\ Continue(o, Skip(o, "pick"))
  <2>1. slot'[s] = FreeSlot /\ SlotMoved(s)
    BY <1>b, <1>4, FreeSlotTyped DEF TypeOK, GiveUpSlot, SlotMoved
  <2>2. LoopMoved(o) /\ loop'[o].at = "pick" /\ loop'[o].why = "work"
    BY <1>1, <1>4, SkipMoves DEF LoopSteps
  <2>3. LoopOK(o)'
    BY <2>2 DEF LoopOK
  <2>4. SlotOK(s)'
    BY <2>1 DEF SlotOK, FreeSlot, Dispatched
  <2> QED BY <1>1, <1>2, <2>1, <2>2, <2>3, <2>4, LoopAndSlotMove
<1> QED BY <1>3, <1>4, <1>a, <1>b DEF Claim

-----------------------------------------------------------------------------
(* The sweep.                                                              *)

LEMMA SweepTyped ==
    ASSUME TypeOK, Handshake, NEW o \in Orchestrators, Sweep(o) \/ SweepEnd(o)
    PROVE  TypeOK' /\ Handshake'
<1>1. GithubOK' /\ slot' = slot
  BY DEF Sweep, SweepEnd, github, TypeOK, GithubOK
<1>2. CASE Continue(o, [LoopAt("age") EXCEPT !.todo = lockRefs])
  <2>1. /\ [LoopAt("age") EXCEPT !.todo = lockRefs] \in LoopStates
        /\ [LoopAt("age") EXCEPT !.todo = lockRefs].at = "age"
        /\ [LoopAt("age") EXCEPT !.todo = lockRefs].why = "work"
    BY DEF LoopAt, LoopStates, LoopSteps, TypeOK
  <2>2. LoopMoved(o) /\ loop'[o].at = "age" /\ loop'[o].why = "work"
    BY <1>2, <2>1, ContinueMoves
  <2>3. LoopOK(o)'
    BY <2>2 DEF LoopOK
  <2> QED BY <1>1, <2>2, <2>3, LoopMoves
<1>3. CASE Continue(o, LoopAt("tick"))
  <2>1. LoopMoved(o) /\ loop'[o].at = "tick" /\ loop'[o].why = "work"
    BY <1>3, ResetMoves DEF LoopSteps
  <2> QED BY <1>1, <2>1, LoopMoves DEF LoopOK
<1> QED BY <1>2, <1>3 DEF Sweep, SweepEnd

LEMMA SweepLockTyped ==
    ASSUME TypeOK, Handshake, NEW o \in Orchestrators, SweepLock(o)
    PROVE  TypeOK' /\ Handshake'
<1>1. GithubOK' /\ slot' = slot
  BY DEF SweepLock, github, TypeOK, GithubOK
<1>2. loop[o].why = "work"
  BY DEF SweepLock, Handshake, LoopOK, TypeOK, LoopStates
<1>3. PICK i \in loop[o].todo :
        \/ Continue(o, LoopAt("tick"))
        \/ Continue(o, [LoopAt("age") EXCEPT !.todo = loop[o].todo \ {i}])
        \/ \E step \in {"retag", "isDone"} :
             Continue(o, [loop[o] EXCEPT !.at = step, !.item = i])
  BY DEF SweepLock, Stale
<1>4. i \in Items
  BY DEF TypeOK, LoopStates
<1>5. CASE Continue(o, LoopAt("tick"))
  <2>1. LoopMoved(o) /\ loop'[o].at = "tick" /\ loop'[o].why = "work"
    BY <1>5, ResetMoves DEF LoopSteps
  <2> QED BY <1>1, <2>1, LoopMoves DEF LoopOK
<1>6. CASE Continue(o, [LoopAt("age") EXCEPT !.todo = loop[o].todo \ {i}])
  <2>1. /\ [LoopAt("age") EXCEPT !.todo = loop[o].todo \ {i}] \in LoopStates
        /\ [LoopAt("age") EXCEPT !.todo = loop[o].todo \ {i}].at = "age"
        /\ [LoopAt("age") EXCEPT !.todo = loop[o].todo \ {i}].why = "work"
    BY DEF LoopAt, LoopStates, LoopSteps, TypeOK
  <2>2. LoopMoved(o) /\ loop'[o].at = "age" /\ loop'[o].why = "work"
    BY <1>6, <2>1, ContinueMoves
  <2> QED BY <1>1, <2>2, LoopMoves DEF LoopOK
<1>7. ASSUME NEW step \in {"retag", "isDone"},
             Continue(o, [loop[o] EXCEPT !.at = step, !.item = i])
      PROVE  TypeOK' /\ Handshake'
  <2>1. /\ [loop[o] EXCEPT !.at = step, !.item = i] \in LoopStates
        /\ [loop[o] EXCEPT !.at = step, !.item = i].at = step
        /\ [loop[o] EXCEPT !.at = step, !.item = i].item = i
        /\ [loop[o] EXCEPT !.at = step, !.item = i].todo = loop[o].todo
        /\ [loop[o] EXCEPT !.at = step, !.item = i].why = "work"
    BY <1>2, <1>4 DEF LoopStates, LoopSteps, TypeOK
  <2>2. /\ LoopMoved(o) /\ loop'[o].at = step /\ loop'[o].why = "work"
        /\ loop'[o].item = i /\ i \in loop'[o].todo
    BY <1>3, <1>7, <2>1, ContinueMoves
  <2> QED BY <1>1, <1>4, <2>2, LoopMoves DEF LoopOK
<1> QED BY <1>3, <1>5, <1>6, <1>7

LEMMA RetagTyped ==
    ASSUME TypeOK, Handshake, NEW o \in Orchestrators, Retag(o) \/ AskDone(o)
    PROVE  TypeOK' /\ Handshake'
<1>1. loop[o].why = "work" /\ loop[o].item \in Items
  BY DEF Retag, AskDone, Handshake, LoopOK, TypeOK, LoopStates
<1>2. GithubOK' /\ slot' = slot
  BY <1>1, BoundsAssumption DEF Retag, AskDone, AddTag, github, TypeOK, GithubOK, Ages
<1>3. CASE Continue(o, LoopAt("tick"))
  <2>1. LoopMoved(o) /\ loop'[o].at = "tick" /\ loop'[o].why = "work"
    BY <1>3, ResetMoves DEF LoopSteps
  <2> QED BY <1>2, <2>1, LoopMoves DEF LoopOK
<1>4. CASE Continue(o, Skip(o, "age"))
  <2>1. LoopMoved(o) /\ loop'[o].at = "age" /\ loop'[o].why = "work"
    BY <1>1, <1>4, SkipMoves DEF LoopSteps
  <2> QED BY <1>2, <2>1, LoopMoves DEF LoopOK
<1>5. CASE loop[o].at = "isDone" /\ Continue(o, [loop[o] EXCEPT !.at = "relList"])
  <2>1. /\ [loop[o] EXCEPT !.at = "relList"] \in LoopStates
        /\ [loop[o] EXCEPT !.at = "relList"].at = "relList"
        /\ [loop[o] EXCEPT !.at = "relList"].why = "work"
        /\ [loop[o] EXCEPT !.at = "relList"].todo = loop[o].todo
        /\ [loop[o] EXCEPT !.at = "relList"].item = loop[o].item
    BY <1>1 DEF LoopStates, LoopSteps, TypeOK
  <2>2. loop[o].item \in loop[o].todo
    BY <1>5 DEF Handshake, LoopOK
  <2>3. /\ LoopMoved(o) /\ loop'[o].at = "relList" /\ loop'[o].why = "work"
        /\ loop'[o].item = loop[o].item /\ loop'[o].todo = loop[o].todo
    BY <1>5, <2>1, ContinueMoves
  <2> QED BY <1>1, <1>2, <2>2, <2>3, LoopMoves DEF LoopOK
<1> QED BY <1>3, <1>4, <1>5 DEF Retag, AskDone

-----------------------------------------------------------------------------
(* A release by the loop.                                                  *)

LEMMA AfterReleaseMoves ==
    ASSUME TypeOK, Handshake, NEW o \in Orchestrators, NEW released \in BOOLEAN,
           loop[o].at = "relList" \/ loop[o].at = "relRefs",
           Continue(o, AfterRelease(o, released))
    PROVE  /\ LoopMoved(o) /\ LoopOK(o)' /\ loop'[o].why = loop[o].why
           /\ loop[o].why = "stop" => loop'[o].todo = loop[o].todo \ {loop[o].item}
<1>1. CASE loop[o].why = "stop"
  <2>1. /\ LoopMoved(o) /\ loop'[o].at = "stop" /\ loop'[o].why = "stop"
        /\ loop'[o].todo = loop[o].todo \ {loop[o].item}
    BY <1>1, SkipMoves DEF AfterRelease, LoopSteps
  <2> QED BY <1>1, <2>1 DEF LoopOK
<1>2. CASE loop[o].why # "stop" /\ released
  <2>1. LoopMoved(o) /\ loop'[o].at = "age" /\ loop'[o].why = loop[o].why
    BY <1>2, SkipMoves DEF AfterRelease, LoopSteps
  <2> QED BY <1>2, <2>1 DEF LoopOK
<1>3. CASE loop[o].why # "stop" /\ ~ released
  <2>1. LoopMoved(o) /\ loop'[o].at = "tick" /\ loop'[o].why = "work"
    BY <1>3, ResetMoves DEF AfterRelease, LoopSteps
  <2>2. loop[o].why = "work"
    BY <1>3 DEF TypeOK, LoopStates
  <2> QED BY <1>3, <2>1, <2>2 DEF LoopOK
<1> QED BY <1>1, <1>2, <1>3

LEMMA LoopReleaseTyped ==
    ASSUME TypeOK, Handshake, NEW o \in Orchestrators,
           LoopListTags(o) \/ LoopDeleteTag(o) \/ LoopDeleteLock(o)
    PROVE  TypeOK' /\ Handshake'
<1>1. loop[o].item \in Items /\ loop[o].item \in loop[o].todo
  BY DEF LoopListTags, LoopDeleteTag, LoopDeleteLock, Handshake, LoopOK
<1>2. GithubOK' /\ slot' = slot
  BY <1>1 DEF LoopListTags, LoopDeleteTag, LoopDeleteLock, DropTag, DropLock, github, TypeOK, GithubOK
<1>3. ASSUME NEW released \in BOOLEAN, Continue(o, AfterRelease(o, released))
      PROVE  TypeOK' /\ Handshake'
  BY <1>2, <1>3, AfterReleaseMoves, LoopMoves DEF LoopListTags, LoopDeleteTag, LoopDeleteLock
<1>4. ASSUME NEW ages \in SUBSET Ages,
             Continue(o, [loop[o] EXCEPT !.at = "relRefs", !.listed = ages])
      PROVE  TypeOK' /\ Handshake'
  <2> DEFINE l == [loop[o] EXCEPT !.at = "relRefs", !.listed = ages]
  <2>1. /\ l \in LoopStates /\ l.at = "relRefs" /\ l.why = loop[o].why
        /\ l.item = loop[o].item /\ l.todo = loop[o].todo
    BY DEF LoopStates, LoopSteps, TypeOK
  <2>2. /\ LoopMoved(o) /\ loop'[o].at = "relRefs"
        /\ loop'[o].item = loop[o].item /\ loop'[o].todo = loop[o].todo
    BY <1>4, <2>1, ContinueMoves
  <2> QED BY <1>1, <1>2, <2>2, LoopMoves DEF LoopOK
<1>5. CASE LoopListTags(o)
  <2>1. tags[loop[o].item] \in SUBSET Ages
    BY <1>1 DEF TypeOK
  <2> QED BY <1>3, <1>4, <1>5, <2>1 DEF LoopListTags
<1>6. CASE LoopDeleteTag(o)
  <2>1. PICK age \in loop[o].listed :
          \/ Continue(o, [loop[o] EXCEPT !.listed = @ \ {age}])
          \/ Continue(o, AfterRelease(o, FALSE))
    BY <1>6 DEF LoopDeleteTag
  <2>2. loop[o].at = "relRefs" /\ loop[o].listed \ {age} \in SUBSET Ages
    BY <1>6 DEF LoopDeleteTag, TypeOK, LoopStates
  <2>3. [loop[o] EXCEPT !.listed = @ \ {age}]
          = [loop[o] EXCEPT !.at = "relRefs", !.listed = loop[o].listed \ {age}]
    BY <2>2 DEF TypeOK, LoopStates
  <2> QED BY <1>3, <1>4, <2>1, <2>2, <2>3
<1>7. CASE LoopDeleteLock(o)
  BY <1>3, <1>7 DEF LoopDeleteLock
<1> QED BY <1>5, <1>6, <1>7

-----------------------------------------------------------------------------
(* The tick (its claim is ClaimTyped above).                               *)

LEMMA TickTyped ==
    ASSUME TypeOK, Handshake, NEW o \in Orchestrators,
           Tick(o) \/ TickEnd(o) \/ Restart(o)
    PROVE  TypeOK' /\ Handshake'
<1>1. GithubOK' /\ slot' = slot
  BY DEF Tick, TickEnd, Restart, github, TypeOK, GithubOK
<1>2. CASE Continue(o, [LoopAt("pick") EXCEPT !.todo = Candidates])
  <2>1. /\ [LoopAt("pick") EXCEPT !.todo = Candidates] \in LoopStates
        /\ [LoopAt("pick") EXCEPT !.todo = Candidates].at = "pick"
        /\ [LoopAt("pick") EXCEPT !.todo = Candidates].why = "work"
    BY DEF LoopAt, LoopStates, LoopSteps, TypeOK, Candidates
  <2>2. LoopMoved(o) /\ loop'[o].at = "pick" /\ loop'[o].why = "work"
    BY <1>2, <2>1, ContinueMoves
  <2> QED BY <1>1, <2>2, LoopMoves DEF LoopOK
<1>3. CASE Continue(o, LoopAt(LoopStart))
  <2>1. LoopStart \in {"sweep", "tick"}
    BY DEF LoopStart
  <2>2. LoopMoved(o) /\ loop'[o].at = LoopStart /\ loop'[o].why = "work"
    BY <1>3, <2>1, ResetMoves DEF LoopSteps
  <2> QED BY <1>1, <2>1, <2>2, LoopMoves DEF LoopOK
<1> QED BY <1>2, <1>3 DEF Tick, TickEnd, Restart

LEMMA PickTyped ==
    ASSUME TypeOK, Handshake, NEW o \in Orchestrators, Pick(o)
    PROVE  TypeOK' /\ Handshake'
<1>1. PICK i \in loop[o].todo, s \in Free(o) :
        /\ Continue(o, [loop[o] EXCEPT !.at = "claim", !.item = i, !.slot = s])
        /\ slot' = [slot EXCEPT ![s].at = "taken"]
  BY DEF Pick
<1>2. i \in Items /\ s \in Slots /\ Home[s] = o /\ slot[s].at = "free"
  BY DEF TypeOK, LoopStates, Free
<1>3. loop[o].why = "work"
  BY DEF Pick, Handshake, LoopOK, TypeOK, LoopStates
<1>4. GithubOK'
  BY DEF Pick, github, TypeOK, GithubOK
<1>5. LoopMoved(o) /\ LoopOK(o)'
  <2> DEFINE l == [loop[o] EXCEPT !.at = "claim", !.item = i, !.slot = s]
  <2>0. loop[o] \in LoopStates
    BY DEF TypeOK
  <2>1. l \in LoopStates /\ l.at = "claim" /\ l.why = "work" /\ l.item = i /\ l.slot = s
    <3>1. l \in LoopStates
      BY <1>2, <2>0 DEF LoopStates, LoopSteps
    <3>2. l.at = "claim" /\ l.why = "work" /\ l.item = i /\ l.slot = s
      BY <1>3, <2>0 DEF LoopStates
    <3> QED BY <3>1, <3>2
  <2>2. /\ LoopMoved(o) /\ loop'[o].at = "claim" /\ loop'[o].why = "work"
        /\ loop'[o].item = i /\ loop'[o].slot = s
    BY <1>1, <2>1, ContinueMoves
  <2>3. slot'[s].at = "taken"
    BY <1>1, <1>2 DEF TypeOK, SlotStates
  <2> QED BY <1>2, <2>2, <2>3 DEF LoopOK
<1>6. SlotMoved(s) /\ SlotOK(s)'
  <2>1. slot'[s] = [slot[s] EXCEPT !.at = "taken"] /\ SlotMoved(s)
    BY <1>1, <1>2 DEF TypeOK, SlotStates, SlotSteps, SlotMoved
  <2>2. slot'[s].at = "taken"
    BY <1>2, <2>1 DEF TypeOK, SlotStates
  <2> QED BY <2>1, <2>2 DEF SlotOK, Dispatched
<1> QED BY <1>2, <1>4, <1>5, <1>6, LoopAndSlotMove

\* The slot of o's claim is freed: what a claim that is not won does, and ClaimTag.
LEMMA GiveUpTyped ==
    ASSUME TypeOK, Handshake, GithubOK', NEW o \in Orchestrators,
           loop[o].at \in {"claim", "tag", "mark"},
           GiveUpSlot(o), Continue(o, Skip(o, "pick"))
    PROVE  TypeOK' /\ Handshake'
<1>1. PICK s \in Slots : s = loop[o].slot /\ Home[s] = o
  BY DEF Handshake, LoopOK
<1>2. loop[o].why = "work"
  BY DEF Handshake, LoopOK, TypeOK, LoopStates
<1>3. slot'[s] = FreeSlot /\ SlotMoved(s)
  BY <1>1, FreeSlotTyped DEF TypeOK, GiveUpSlot, SlotMoved
<1>4. LoopMoved(o) /\ loop'[o].at = "pick" /\ loop'[o].why = "work"
  BY <1>2, SkipMoves DEF LoopSteps
<1>5. LoopOK(o)'
  BY <1>4 DEF LoopOK
<1>6. SlotOK(s)'
  BY <1>3 DEF SlotOK, FreeSlot, Dispatched
<1> QED BY <1>1, <1>3, <1>4, <1>5, <1>6, LoopAndSlotMove

LEMMA ClaimTagTyped ==
    ASSUME TypeOK, Handshake, NEW o \in Orchestrators, ClaimTag(o)
    PROVE  TypeOK' /\ Handshake'
<1>1. /\ loop[o].why = "work" /\ loop[o].item \in Items /\ loop[o].at = "tag"
      /\ LoopOK(o)
  BY DEF ClaimTag, Handshake, LoopOK, TypeOK, LoopStates
<1>2. GithubOK'
  BY <1>1, BoundsAssumption DEF ClaimTag, AddTag, TypeOK, GithubOK, Ages
<1>3. CASE slot' = slot /\ Continue(o, [loop[o] EXCEPT !.at = "mark"])
  <2> DEFINE l == [loop[o] EXCEPT !.at = "mark"]
  <2>1. /\ l \in LoopStates /\ l.at = "mark" /\ l.why = "work"
        /\ l.item = loop[o].item /\ l.slot = loop[o].slot
    BY <1>1 DEF LoopStates, LoopSteps, TypeOK
  <2>2. /\ LoopMoved(o) /\ loop'[o].at = "mark" /\ loop'[o].why = "work"
        /\ loop'[o].item = loop[o].item /\ loop'[o].slot = loop[o].slot
    BY <1>3, <2>1, ContinueMoves
  <2>3. LoopOK(o)'
    BY <1>1, <1>3, <2>2 DEF LoopOK
  <2> QED BY <1>2, <1>3, <2>2, <2>3, LoopMoves
<1>4. CASE GiveUpSlot(o) /\ Continue(o, Skip(o, "pick"))
  BY <1>1, <1>2, <1>4, GiveUpTyped
<1> QED BY <1>3, <1>4 DEF ClaimTag

LEMMA MarkAndDispatchTyped ==
    ASSUME TypeOK, Handshake, NEW o \in Orchestrators, MarkAndDispatch(o)
    PROVE  TypeOK' /\ Handshake'
<1>1. PICK s \in Slots : s = loop[o].slot /\ Home[s] = o
  BY DEF MarkAndDispatch, Handshake, LoopOK
<1>2. /\ loop[o].why = "work" /\ loop[o].item \in Items
      /\ slot[s].at = "claimed" /\ slot[s].item = loop[o].item
  BY <1>1 DEF MarkAndDispatch, Handshake, LoopOK, TypeOK, LoopStates
<1>3. GithubOK'
  BY <1>2 DEF MarkAndDispatch, TypeOK, GithubOK
<1>4. slot'[s] = [slot[s] EXCEPT !.at = "prep"] /\ SlotMoved(s)
  <2>1. slot' = [slot EXCEPT ![s].at = "prep"]
    BY <1>1 DEF MarkAndDispatch
  <2>2. slot'[s] = [slot[s] EXCEPT !.at = "prep"] /\ slot[s] \in SlotStates
    BY <2>1 DEF TypeOK
  <2>3. slot'[s] \in SlotStates
    BY <2>2 DEF SlotStates, SlotSteps
  <2> QED BY <2>1, <2>2, <2>3 DEF SlotMoved, TypeOK
<1>5. slot'[s].at = "prep" /\ slot'[s].item \in Items
  BY <1>2, <1>4 DEF TypeOK, SlotStates
<1>6. LoopMoved(o) /\ loop'[o].at = "pick" /\ loop'[o].why = "work"
  BY <1>2, SkipMoves DEF MarkAndDispatch, LoopSteps
<1>7. LoopOK(o)' /\ SlotOK(s)'
  BY <1>5, <1>6 DEF LoopOK, SlotOK
<1> QED BY <1>1, <1>3, <1>4, <1>6, <1>7, LoopAndSlotMove

-----------------------------------------------------------------------------
(* A dispatch.                                                             *)

LEMMA SlotMoves ==
    ASSUME TypeOK, Handshake, GithubOK', NEW s \in Slots, loop' = loop,
           slot[s].at \notin {"taken", "claimed"}, SlotMoved(s), SlotOK(s)'
    PROVE  TypeOK' /\ Handshake'
BY DEF TypeOK, GithubOK, Handshake, LoopOK, SlotOK, SlotMoved

\* A dispatch goes on with the same item, or frees its slot.
LEMMA GoMoves ==
    ASSUME TypeOK, NEW s \in Slots, NEW step \in SlotSteps, slot[s].item \in Items,
           slot[s].exit # "none", Go(s, step)
    PROVE  SlotMoved(s) /\ SlotOK(s)'
<1>1. CASE step = "free"
  <2>1. slot'[s] = FreeSlot /\ SlotMoved(s)
    BY <1>1, FreeSlotTyped DEF Go, TypeOK, SlotMoved
  <2> QED BY <2>1 DEF SlotOK, FreeSlot, Dispatched
<1>2. CASE step # "free"
  <2>1. slot'[s] = [slot[s] EXCEPT !.at = step] /\ SlotMoved(s)
    BY <1>2 DEF Go, TypeOK, SlotMoved, SlotStates
  <2>2. slot'[s].item = slot[s].item /\ slot'[s].exit = slot[s].exit
    BY <2>1 DEF TypeOK, SlotStates
  <2> QED BY <2>1, <2>2 DEF SlotOK
<1> QED BY <1>1, <1>2

LEMMA RetryMoves ==
    ASSUME TypeOK, NEW s \in Slots, slot[s].item \in Items, slot[s].exit # "none",
           RetryRelease(s)
    PROVE  SlotMoved(s) /\ SlotOK(s)'
<1>1. CASE slot[s].try < RetryAttempts
  <2>1. /\ slot'[s] = [slot[s] EXCEPT !.at = "relList", !.listed = {}, !.try = slot[s].try + 1]
        /\ slot' = [slot EXCEPT ![s] = slot'[s]]
    BY <1>1 DEF RetryRelease, TypeOK, SlotStates
  <2>2. slot[s].try + 1 \in 1 .. RetryAttempts
    BY <1>1, BoundsAssumption DEF TypeOK, SlotStates
  <2>3. slot'[s] \in SlotStates
    <3>1. slot[s] \in SlotStates /\ {} \in SUBSET Ages /\ "relList" \in SlotSteps
      BY DEF TypeOK, SlotSteps
    <3> QED BY <2>1, <2>2, <3>1 DEF SlotStates
  <2>4. slot'[s].item = slot[s].item /\ slot'[s].exit = slot[s].exit
    BY <2>1 DEF TypeOK, SlotStates
  <2> QED BY <2>1, <2>3, <2>4 DEF SlotOK, SlotMoved
<1>2. CASE ~ (slot[s].try < RetryAttempts)
  BY <1>2, GoMoves DEF RetryRelease, StepAfterRelease, SlotSteps
<1> QED BY <1>1, <1>2

LEMMA NextStepsTyped ==
    ASSUME NEW exit \in Exits \cup {"none"}, NEW released \in BOOLEAN
    PROVE  /\ FirstStep(exit) \in SlotSteps \ {"free"}
           /\ StepAfterUnmark(exit) \in SlotSteps /\ StepAfterDequeue(exit) \in SlotSteps
           /\ StepAfterRelease(exit, released) \in SlotSteps
BY DEF FirstStep, StepAfterUnmark, StepAfterDequeue, StepAfterRelease, SlotSteps

LEMMA RunTyped ==
    ASSUME TypeOK, Handshake, NEW s \in Slots,
           Launch(s) \/ TimeOut(s) \/ \E exit \in Exits : End(s, exit)
    PROVE  TypeOK' /\ Handshake'
<1>1. slot[s].item \in Items /\ slot[s] \in SlotStates
  BY DEF Launch, TimeOut, End, Handshake, SlotOK, TypeOK, Dispatched, SlotSteps
<1>2. GithubOK' /\ loop' = loop /\ slot[s].at \notin {"taken", "claimed"}
  <2>1. loop' = loop /\ slot[s].at \notin {"taken", "claimed"} /\ UNCHANGED <<github, stops>>
    BY DEF Launch, TimeOut, End
  <2>2. orphans' \in [Orchestrators -> SUBSET Items]
    <3>1. \/ orphans' = orphans
          \/ orphans' = [orphans EXCEPT ![Home[s]] = @ \cup {slot[s].item}]
      BY DEF Launch, TimeOut, End
    <3>2. Home[s] \in Orchestrators /\ orphans \in [Orchestrators -> SUBSET Items]
      BY SetsAssumption DEF TypeOK
    <3>3. orphans[Home[s]] \cup {slot[s].item} \subseteq Items
      BY <1>1, <3>2
    <3> QED BY <3>1, <3>2, <3>3
  <2> QED BY <2>1, <2>2 DEF github, TypeOK, GithubOK
<1>3. CASE Launch(s)
  <2>1. slot'[s] = [slot[s] EXCEPT !.at = "run"] /\ slot' = [slot EXCEPT ![s] = slot'[s]]
    BY <1>3 DEF Launch, Do, TypeOK
  <2>2. slot'[s] \in SlotStates /\ slot'[s].at = "run" /\ slot'[s].item \in Items
    BY <1>1, <2>1 DEF SlotStates, SlotSteps
  <2> QED BY <1>2, <2>1, <2>2, SlotMoves DEF SlotMoved, SlotOK
<1>4. ASSUME NEW exit \in Exits,
             slot' = [slot EXCEPT ![s].at = FirstStep(exit), ![s].exit = exit]
      PROVE  TypeOK' /\ Handshake'
  <2>1. /\ slot'[s] = [slot[s] EXCEPT !.at = FirstStep(exit), !.exit = exit]
        /\ slot' = [slot EXCEPT ![s] = slot'[s]]
    BY <1>4 DEF TypeOK
  <2>2. FirstStep(exit) \in SlotSteps
    BY NextStepsTyped
  <2>3. slot'[s] \in SlotStates /\ slot'[s].exit = exit /\ slot'[s].item \in Items
    BY <1>1, <2>1, <2>2 DEF SlotStates
  <2>4. exit # "none"
    BY DEF Exits
  <2> QED BY <1>2, <2>1, <2>3, <2>4, SlotMoves DEF SlotMoved, SlotOK
<1>5. "fail" \in Exits
  BY DEF Exits
<1> QED BY <1>3, <1>4, <1>5 DEF TimeOut, End

LEMMA CleanupTyped ==
    ASSUME TypeOK, Handshake, NEW s \in Slots,
           Unmark(s) \/ Dequeue(s) \/ ListTags(s) \/ DeleteTag(s) \/ DeleteLock(s) \/ KeepLock(s)
    PROVE  TypeOK' /\ Handshake'
<1>1. /\ slot[s].item \in Items /\ slot[s] \in SlotStates /\ slot[s].exit # "none"
      /\ slot[s].exit \in Exits \cup {"none"}
      /\ slot[s].at \in {"unmark", "dequeue", "relList", "relRefs"}
  <2>1. slot[s].at \in {"unmark", "dequeue", "relList", "relRefs"}
    BY DEF Unmark, Dequeue, ListTags, DeleteTag, DeleteLock, KeepLock
  <2> QED BY <2>1 DEF Handshake, SlotOK, TypeOK, Dispatched, SlotSteps, SlotStates
<1>2. GithubOK' /\ loop' = loop
  <2>1. CASE Unmark(s) \/ Dequeue(s)
    BY <1>1, <2>1 DEF Unmark, Dequeue, TypeOK, GithubOK
  <2>2. CASE DeleteTag(s) \/ DeleteLock(s)
    BY <1>1, <2>2 DEF DeleteTag, DeleteLock, DropTag, DropLock, TypeOK, GithubOK
  <2>3. CASE ListTags(s) \/ KeepLock(s)
    BY <2>3 DEF ListTags, KeepLock, github, TypeOK, GithubOK
  <2> QED BY <2>1, <2>2, <2>3
<1>3. ASSUME SlotMoved(s), SlotOK(s)' PROVE TypeOK' /\ Handshake'
  BY <1>1, <1>2, <1>3, SlotMoves
<1>4. ASSUME NEW step \in SlotSteps, Go(s, step) PROVE TypeOK' /\ Handshake'
  BY <1>1, <1>3, <1>4, GoMoves
<1>5. ASSUME RetryRelease(s) PROVE TypeOK' /\ Handshake'
  BY <1>1, <1>3, <1>5, RetryMoves
<1>6. ASSUME NEW ages \in SUBSET Ages, slot' = [slot EXCEPT ![s].at = "relRefs", ![s].listed = ages]
      PROVE  TypeOK' /\ Handshake'
  <2>1. /\ slot'[s] = [slot[s] EXCEPT !.at = "relRefs", !.listed = ages]
        /\ slot' = [slot EXCEPT ![s] = slot'[s]]
    BY <1>6 DEF TypeOK
  <2>2. slot'[s] \in SlotStates /\ slot'[s].item \in Items /\ slot'[s].exit # "none"
    BY <1>1, <2>1 DEF SlotStates, SlotSteps
  <2> QED BY <1>3, <2>1, <2>2 DEF SlotMoved, SlotOK
<1>7. CASE Unmark(s)
  BY <1>1, <1>4, <1>7, NextStepsTyped DEF Unmark
<1>8. CASE Dequeue(s)
  BY <1>1, <1>4, <1>8, NextStepsTyped DEF Dequeue
<1>9. CASE ListTags(s)
  <2>1. tags[slot[s].item] \in SUBSET Ages
    BY <1>1 DEF TypeOK
  <2> QED BY <1>5, <1>6, <1>9, <2>1 DEF ListTags
<1>10. CASE DeleteTag(s)
  <2>1. PICK age \in slot[s].listed :
          slot' = [slot EXCEPT ![s].listed = @ \ {age}] \/ RetryRelease(s)
    BY <1>10 DEF DeleteTag
  <2>2. CASE slot' = [slot EXCEPT ![s].listed = @ \ {age}]
    <3>1. /\ slot'[s] = [slot[s] EXCEPT !.listed = slot[s].listed \ {age}]
          /\ slot' = [slot EXCEPT ![s] = slot'[s]]
      BY <2>2 DEF TypeOK
    <3>2. slot[s].listed \ {age} \in SUBSET Ages
      BY <1>1 DEF SlotStates
    <3>3. slot'[s] \in SlotStates /\ slot'[s].item \in Items /\ slot'[s].exit # "none"
      BY <1>1, <3>1, <3>2 DEF SlotStates
    <3> QED BY <1>3, <3>1, <3>3 DEF SlotMoved, SlotOK
  <2> QED BY <1>5, <2>1, <2>2
<1>11. CASE DeleteLock(s)
  <2>1. StepAfterRelease(slot[s].exit, TRUE) \in SlotSteps
    BY <1>1, NextStepsTyped
  <2> QED BY <1>4, <1>5, <1>11, <2>1 DEF DeleteLock
<1>12. CASE KeepLock(s)
  BY <1>4, <1>12 DEF KeepLock, SlotSteps
<1> QED BY <1>7, <1>8, <1>9, <1>10, <1>11, <1>12

-----------------------------------------------------------------------------
(* Shutdown, crash, and the world outside.                                 *)

LEMMA HaltMoves ==
    ASSUME TypeOK, Handshake, GithubOK', NEW o \in Orchestrators,
           HaltSlots(o), LoopMoved(o), loop'[o].at \in {"stop", "down"},
           loop'[o].why = "stop" <=> loop'[o].at = "stop"
    PROVE  TypeOK' /\ Handshake'
<1>1. TypeOK'
  BY FreeSlotTyped DEF TypeOK, GithubOK, HaltSlots, LoopMoved
<1>2. ASSUME NEW p \in Orchestrators PROVE LoopOK(p)'
  <2>1. CASE p = o
    BY <2>1 DEF LoopOK
  <2>2. CASE p # o
    <3>1. loop'[p] = loop[p] /\ LoopOK(p)
      BY <2>2 DEF TypeOK, Handshake, LoopMoved
    <3>2. \A s \in Slots : Home[s] = p => slot'[s] = slot[s]
      BY <2>2 DEF HaltSlots, TypeOK
    <3> QED BY <3>1, <3>2 DEF LoopOK
  <2> QED BY <2>1, <2>2
<1>3. ASSUME NEW s \in Slots PROVE SlotOK(s)'
  BY DEF HaltSlots, Handshake, SlotOK, FreeSlot, Dispatched
<1> QED BY <1>1, <1>2, <1>3 DEF Handshake

LEMMA ContainersTyped ==
    ASSUME TypeOK, Handshake, NEW o \in Orchestrators
    PROVE  Containers(o) \subseteq Items
BY DEF Containers, TypeOK, Handshake, SlotOK, Dispatched, SlotSteps

LEMMA StopTyped ==
    ASSUME TypeOK, Handshake, NEW o \in Orchestrators,
           Shutdown(o) \/ Crash(o) \/ StopTask(o) \/ StopEnd(o)
    PROVE  TypeOK' /\ Handshake'
<1>1. GithubOK'
  <2>1. CASE Shutdown(o) \/ Crash(o)
    <3>1. /\ stops' \in 0 .. MaxStops /\ UNCHANGED github
          /\ orphans' \in [Orchestrators -> SUBSET Items]
      BY <2>1, BoundsAssumption, ContainersTyped DEF Shutdown, Crash, TypeOK
    <3> QED BY <3>1 DEF github, TypeOK, GithubOK
  <2>2. CASE StopTask(o) \/ StopEnd(o)
    BY <2>2 DEF StopTask, StopEnd, github, TypeOK, GithubOK
  <2> QED BY <2>1, <2>2
<1>2. CASE Shutdown(o)
  <2>1. Containers(o) \subseteq Items
    BY ContainersTyped
  <2> DEFINE l == [LoopAt("stop") EXCEPT !.todo = Containers(o), !.why = "stop"]
  <2>2. l \in LoopStates /\ l.at = "stop" /\ l.why = "stop"
    BY <2>1 DEF LoopAt, LoopStates, LoopSteps
  <2>3. LoopMoved(o) /\ loop'[o].at = "stop" /\ loop'[o].why = "stop"
    BY <1>2, <2>2, ContinueMoves DEF Shutdown
  <2> QED BY <1>1, <1>2, <2>3, HaltMoves DEF Shutdown
<1>3. CASE Crash(o)
  <2>1. LoopMoved(o) /\ loop'[o].at = "down" /\ loop'[o].why = "work"
    BY <1>3, ResetMoves DEF Crash, LoopSteps
  <2> QED BY <1>1, <1>3, <2>1, HaltMoves DEF Crash
<1>4. CASE StopTask(o)
  <2>1. PICK i \in loop[o].todo : Continue(o, [loop[o] EXCEPT !.at = "relList", !.item = i])
    BY <1>4 DEF StopTask
  <2>2. loop[o] \in LoopStates /\ i \in Items
    BY DEF TypeOK, LoopStates
  <2> DEFINE l == [loop[o] EXCEPT !.at = "relList", !.item = i]
  <2>3. /\ l \in LoopStates /\ l.at = "relList" /\ l.item = i
        /\ l.todo = loop[o].todo
    BY <2>2 DEF LoopStates, LoopSteps
  <2>4. LoopMoved(o) /\ loop'[o].at = "relList" /\ loop'[o].item = i /\ loop'[o].todo = loop[o].todo
    BY <2>1, <2>3, ContinueMoves
  <2>5. LoopOK(o)' /\ slot' = slot
    BY <1>4, <2>1, <2>2, <2>4 DEF LoopOK, StopTask
  <2> QED BY <1>1, <2>4, <2>5, LoopMoves
<1>5. CASE StopEnd(o)
  <2>1. LoopMoved(o) /\ loop'[o].at = "down" /\ loop'[o].why = "work"
    BY <1>5, ResetMoves DEF StopEnd, LoopSteps
  <2> QED BY <1>1, <1>5, <2>1, LoopMoves DEF LoopOK, StopEnd
<1> QED BY <1>2, <1>3, <1>4, <1>5

LEMMA OutsideTyped ==
    ASSUME TypeOK, Handshake, NEW i \in Items,
           \/ Requeue(i) \/ ClosePR(i)
           \/ \E o \in Orchestrators : Produce(o, i) \/ OrphanEnds(o, i)
    PROVE  TypeOK' /\ Handshake'
<1>1. GithubOK' /\ slot' = slot /\ loop' = loop
  BY DEF Requeue, ClosePR, Produce, OrphanEnds, github, TypeOK, GithubOK
<1> QED BY <1>1 DEF TypeOK, GithubOK, Handshake, LoopOK, SlotOK

LEMMA OlderTyped == ASSUME NEW ages \in SUBSET Ages PROVE Older(ages) \in SUBSET Ages
BY BoundsAssumption DEF Older, Ages

LEMMA ClockTyped ==
    ASSUME TypeOK, Handshake, Clock
    PROVE  TypeOK' /\ Handshake'
<1>1. GithubOK'
  BY OlderTyped DEF Clock, TypeOK, GithubOK
<1>2. ASSUME NEW o \in Orchestrators
      PROVE  /\ loop'[o] = [loop[o] EXCEPT !.listed = Older(loop[o].listed)]
             /\ loop'[o] \in LoopStates /\ loop[o] \in LoopStates
  <2>1. loop[o] \in LoopStates /\ Older(loop[o].listed) \in SUBSET Ages
    BY OlderTyped DEF TypeOK, LoopStates
  <2>2. loop'[o] = [loop[o] EXCEPT !.listed = Older(loop[o].listed)]
    BY DEF Clock
  <2> QED BY <2>1, <2>2 DEF LoopStates
<1>3. ASSUME NEW s \in Slots
      PROVE  /\ slot'[s] \in SlotStates /\ slot'[s].at = slot[s].at
             /\ slot'[s].item = slot[s].item /\ slot'[s].exit = slot[s].exit
  <2> DEFINE ran == IF slot[s].at \in Dispatched THEN slot[s].ran + 1 ELSE slot[s].ran
  <2>1. slot[s] \in SlotStates /\ Older(slot[s].listed) \in SUBSET Ages
    BY OlderTyped DEF TypeOK, SlotStates
  <2>2. ran \in 0 .. TaskTimeout
    <3>1. slot[s].ran \in 0 .. TaskTimeout
      BY <2>1 DEF SlotStates
    <3>2. slot[s].at \in Dispatched => slot[s].ran < TaskTimeout
      BY DEF Clock
    <3> QED BY <3>1, <3>2, BoundsAssumption
  <2>3. slot'[s] = [slot[s] EXCEPT !.listed = Older(slot[s].listed), !.ran = ran]
    BY <2>1 DEF Clock, SlotStates
  <2> QED BY <2>1, <2>2, <2>3 DEF SlotStates
<1>4. TypeOK'
  BY <1>1, <1>2, <1>3 DEF TypeOK, GithubOK, Clock
<1>5. ASSUME NEW o \in Orchestrators PROVE LoopOK(o)'
  <2>1. /\ loop'[o].at = loop[o].at /\ loop'[o].item = loop[o].item /\ loop'[o].todo = loop[o].todo
        /\ loop'[o].slot = loop[o].slot /\ loop'[o].why = loop[o].why
    BY <1>2 DEF LoopStates
  <2>2. LoopOK(o)
    BY DEF Handshake
  <2> QED BY <1>3, <2>1, <2>2 DEF LoopOK
<1>6. ASSUME NEW s \in Slots PROVE SlotOK(s)'
  BY <1>3 DEF Handshake, SlotOK
<1> QED BY <1>4, <1>5, <1>6 DEF Handshake

-----------------------------------------------------------------------------
(* Every reachable state is well typed, and loop and slots agree: a loop   *)
(* that claims holds a slot of its own orchestrator in the matching state. *)

LEMMA StepTyped ==
    ASSUME TypeOK, Handshake, [Next]_vars
    PROVE  TypeOK' /\ Handshake'
<1>1. ASSUME NEW o \in Orchestrators, LoopStep(o) PROVE TypeOK' /\ Handshake'
  BY <1>1, SweepTyped, SweepLockTyped, RetagTyped, LoopReleaseTyped, TickTyped, PickTyped,
     ClaimTyped, ClaimTagTyped, MarkAndDispatchTyped, StopTyped DEF LoopStep
<1>2. ASSUME NEW o \in Orchestrators, Shutdown(o) \/ Crash(o) \/ Restart(o)
      PROVE  TypeOK' /\ Handshake'
  BY <1>2, StopTyped, TickTyped
<1>3. ASSUME NEW s \in Slots, SlotStep(s) PROVE TypeOK' /\ Handshake'
  BY <1>3, RunTyped, CleanupTyped DEF SlotStep
<1>4. CASE UNCHANGED vars
  BY <1>4 DEF vars, TypeOK, Handshake, LoopOK, SlotOK
<1> QED BY <1>1, <1>2, <1>3, <1>4, OutsideTyped, ClockTyped DEF Next

\* Type correctness, for any number of orchestrators, slots, items and stops.
THEOREM TypeCorrect == Spec => [](TypeOK /\ Handshake)
<1>1. Init => TypeOK /\ Handshake
  BY InitTyped
<1>2. TypeOK /\ Handshake /\ [Next]_vars => (TypeOK /\ Handshake)'
  BY StepTyped
<1> QED BY <1>1, <1>2, PTL DEF Spec

-----------------------------------------------------------------------------
(* The lock label.  One orchestrator alone whose AddLabel calls succeed     *)
(* keeps an item away from a second container although the sweeper may     *)
(* have reclaimed its lock: from MarkAndDispatch until the dispatch removes *)
(* the label itself the item is no candidate, and the loop has no left-over *)
(* list that still names it.                                               *)

\* The dispatch in slot s has been labelled and has not removed its label yet.
Marked(s) ==
    \/ slot[s].at \in {"prep", "run", "unmark"}
    \/ slot[s].at \in {"relList", "relRefs"} /\ slot[s].exit = "guard"
    \/ slot[s].at = "dequeue" /\ Kind = "merger"

\* Somebody, a labelled dispatch or a container a crash left over, is busy with item i.
Busy(i) ==
    \/ \E s \in Slots : Marked(s) /\ slot[s].item = i
    \/ \E o \in Orchestrators : i \in orphans[o]

Picking(o) == loop[o].at \in {"pick", "claim", "tag", "mark"}

LabelKept ==
    /\ \A i \in Items : Busy(i) => i \in lockLabel
    /\ \A r, s \in Slots : Marked(r) /\ Marked(s) /\ slot[r].item = slot[s].item => r = s
    /\ \A o \in Orchestrators, s \in Slots : Marked(s) => slot[s].item \notin orphans[o]

ListIsFree ==
    \A o \in Orchestrators :
      /\ Picking(o) => \A i \in loop[o].todo : ~ Busy(i)
      /\ loop[o].at \in {"claim", "tag", "mark"} => loop[o].item \in loop[o].todo
      /\ loop[o].why = "stop" => \A i \in Items : ~ Busy(i)

\* A step that labels nobody and leaves no container behind.
Falls ==
    /\ \A s \in Slots : Marked(s)' => Marked(s) /\ slot'[s].item = slot[s].item
    /\ \A o \in Orchestrators : orphans'[o] \subseteq orphans[o]

\* A step of the loop that puts no item of a labelled dispatch on its list.
ListFalls ==
    \A o \in Orchestrators :
      /\ Picking(o)' => \A i \in loop'[o].todo : (Picking(o) /\ i \in loop[o].todo) \/ i \notin lockLabel
      /\ loop'[o].at \in {"claim", "tag", "mark"} => loop'[o].item \in loop'[o].todo
      /\ loop'[o].why = "stop" => loop[o].why = "stop" \/ \A i \in Items : ~ Busy(i)'

LEMMA BusyFalls ==
    ASSUME Falls, NEW i, Busy(i)'
    PROVE  Busy(i)
BY DEF Falls, Busy

LEMMA LabelStays ==
    ASSUME TypeOK, TypeOK', LabelKept, ListIsFree, Falls, ListFalls,
           \A i \in Items : Busy(i)' /\ i \in lockLabel => i \in lockLabel'
    PROVE  LabelKept' /\ ListIsFree'
<1>1. \A i \in Items : Busy(i)' => Busy(i)
  BY BusyFalls
<1>2. \A i \in Items : Busy(i)' => i \in lockLabel'
  BY <1>1 DEF LabelKept
<1>3. ASSUME NEW r \in Slots, NEW s \in Slots, Marked(r)', Marked(s)', slot'[r].item = slot'[s].item
      PROVE  r = s
  BY <1>3 DEF Falls, LabelKept
<1>4. ASSUME NEW o \in Orchestrators, NEW s \in Slots, Marked(s)' PROVE slot'[s].item \notin orphans'[o]
  BY <1>4 DEF Falls, LabelKept
<1>5. ASSUME NEW o \in Orchestrators, Picking(o)', NEW i \in loop'[o].todo PROVE ~ Busy(i)'
  <2>1. i \in Items
    BY DEF TypeOK, LoopStates
  <2> QED BY <1>1, <1>5, <2>1 DEF ListFalls, LabelKept, ListIsFree
<1>6. ASSUME NEW o \in Orchestrators, loop'[o].why = "stop", NEW i \in Items PROVE ~ Busy(i)'
  BY <1>1, <1>6 DEF ListFalls, ListIsFree
<1>7. LabelKept'
  BY <1>2, <1>3, <1>4 DEF LabelKept
<1> QED BY <1>5, <1>6, <1>7 DEF ListIsFree, ListFalls

\* The loop of the only orchestrator moves.
LEMMA OneLoopMoves ==
    ASSUME TypeOK, TypeOK', LabelKept, ListIsFree,
           NEW o \in Orchestrators, \A p \in Orchestrators : p = o,
           \A s \in Slots : Marked(s)' => Marked(s) /\ slot'[s].item = slot[s].item,
           orphans' = orphans, lockLabel' = lockLabel,
           Picking(o)' => \A i \in loop'[o].todo : (Picking(o) /\ i \in loop[o].todo) \/ i \notin lockLabel,
           loop'[o].at \in {"claim", "tag", "mark"} => loop'[o].item \in loop'[o].todo,
           loop'[o].why = "stop" => loop[o].why = "stop"
    PROVE  LabelKept' /\ ListIsFree'
<1>1. Falls /\ ListFalls
  BY DEF Falls, ListFalls
<1> QED BY <1>1, LabelStays

LEMMA SameSlotsFall ==
    ASSUME slot' = slot
    PROVE  \A s \in Slots : Marked(s)' => Marked(s) /\ slot'[s].item = slot[s].item
BY DEF Marked

\* The loop goes on outside of a tick.
Elsewhere(o, l) ==
    /\ l.at \notin {"pick", "claim", "tag", "mark"}
    /\ l.why = "stop" => loop[o].why = "stop"

LEMMA ElsewhereKept ==
    ASSUME TypeOK, TypeOK', LabelKept, ListIsFree,
           NEW o \in Orchestrators, \A p \in Orchestrators : p = o,
           slot' = slot, orphans' = orphans, lockLabel' = lockLabel,
           NEW l, Continue(o, l), Elsewhere(o, l)
    PROVE  LabelKept' /\ ListIsFree'
<1>1. loop'[o] = l
  BY DEF TypeOK, Continue
<1> QED BY <1>1, SameSlotsFall, OneLoopMoves DEF Elsewhere, Picking

LEMMA ElsewhereSteps ==
    ASSUME TypeOK, NEW o \in Orchestrators,
           NEW step \in LoopSteps \ {"pick", "claim", "tag", "mark"}
    PROVE  /\ Elsewhere(o, LoopAt(step)) /\ Elsewhere(o, Skip(o, step))
           /\ \A todo : Elsewhere(o, [LoopAt(step) EXCEPT !.todo = todo])
           /\ \A i : Elsewhere(o, [loop[o] EXCEPT !.at = step, !.item = i])
           /\ \A ages : Elsewhere(o, [loop[o] EXCEPT !.at = step, !.listed = ages])
           /\ Elsewhere(o, [loop[o] EXCEPT !.at = step])
<1>1. /\ LoopAt(step).at = step /\ LoopAt(step).why = "work"
      /\ Skip(o, step).at = step /\ Skip(o, step).why = loop[o].why
      /\ \A todo : /\ [LoopAt(step) EXCEPT !.todo = todo].at = step
                   /\ [LoopAt(step) EXCEPT !.todo = todo].why = "work"
  BY DEF LoopAt, Skip
<1>2. loop[o] \in LoopStates
  BY DEF TypeOK
<1>3. /\ \A i : /\ [loop[o] EXCEPT !.at = step, !.item = i].at = step
                /\ [loop[o] EXCEPT !.at = step, !.item = i].why = loop[o].why
      /\ \A ages : /\ [loop[o] EXCEPT !.at = step, !.listed = ages].at = step
                   /\ [loop[o] EXCEPT !.at = step, !.listed = ages].why = loop[o].why
      /\ [loop[o] EXCEPT !.at = step].at = step
      /\ [loop[o] EXCEPT !.at = step].why = loop[o].why
  BY <1>2 DEF LoopStates
<1> QED BY <1>1, <1>3 DEF Elsewhere

LEMMA SweepKeepsLabel ==
    ASSUME TypeOK, TypeOK', Handshake, LabelKept, ListIsFree,
           NEW o \in Orchestrators, \A p \in Orchestrators : p = o,
           Sweep(o) \/ SweepEnd(o) \/ SweepLock(o) \/ Retag(o) \/ AskDone(o)
    PROVE  LabelKept' /\ ListIsFree'
<1>1. slot' = slot /\ orphans' = orphans /\ lockLabel' = lockLabel
  BY DEF Sweep, SweepEnd, SweepLock, Retag, AskDone, github
<1>2. ASSUME NEW l, Continue(o, l), Elsewhere(o, l) PROVE LabelKept' /\ ListIsFree'
  BY <1>1, <1>2, ElsewhereKept
<1>3. {"age", "tick", "retag", "isDone", "relList"} \subseteq LoopSteps \ {"pick", "claim", "tag", "mark"}
  BY DEF LoopSteps
<1>4. CASE Sweep(o) \/ SweepEnd(o)
  BY <1>2, <1>3, <1>4, ElsewhereSteps DEF Sweep, SweepEnd
<1>5. CASE SweepLock(o)
  <2>1. PICK i \in loop[o].todo :
          \/ Continue(o, LoopAt("tick"))
          \/ Continue(o, [LoopAt("age") EXCEPT !.todo = loop[o].todo \ {i}])
          \/ \E step \in {"retag", "isDone"} :
               Continue(o, [loop[o] EXCEPT !.at = step, !.item = i])
    BY <1>5 DEF SweepLock, Stale
  <2> QED BY <1>2, <1>3, <2>1, ElsewhereSteps
<1>6. CASE Retag(o) \/ AskDone(o)
  BY <1>2, <1>3, <1>6, ElsewhereSteps DEF Retag, AskDone
<1> QED BY <1>4, <1>5, <1>6

LEMMA LoopReleaseKeepsLabel ==
    ASSUME TypeOK, TypeOK', Handshake, LabelKept, ListIsFree,
           NEW o \in Orchestrators, \A p \in Orchestrators : p = o,
           LoopListTags(o) \/ LoopDeleteTag(o) \/ LoopDeleteLock(o) \/ StopEnd(o) \/ Restart(o)
    PROVE  LabelKept' /\ ListIsFree'
<1>1. slot' = slot /\ orphans' = orphans /\ lockLabel' = lockLabel
  BY DEF LoopListTags, LoopDeleteTag, LoopDeleteLock, StopEnd, Restart, github
<1>2. ASSUME NEW l, Continue(o, l), Elsewhere(o, l) PROVE LabelKept' /\ ListIsFree'
  BY <1>1, <1>2, ElsewhereKept
<1>3. {"age", "tick", "stop", "relRefs", "down", "sweep"}
        \subseteq LoopSteps \ {"pick", "claim", "tag", "mark"}
  BY DEF LoopSteps
<1>4. ASSUME NEW released \in BOOLEAN, Continue(o, AfterRelease(o, released))
      PROVE  LabelKept' /\ ListIsFree'
  BY <1>2, <1>3, <1>4, ElsewhereSteps DEF AfterRelease
<1>5. CASE LoopListTags(o)
  BY <1>2, <1>3, <1>4, <1>5, ElsewhereSteps DEF LoopListTags
<1>6. CASE LoopDeleteTag(o)
  <2>1. PICK age \in loop[o].listed :
          \/ Continue(o, [loop[o] EXCEPT !.listed = @ \ {age}])
          \/ Continue(o, AfterRelease(o, FALSE))
    BY <1>6 DEF LoopDeleteTag
  <2>2. [loop[o] EXCEPT !.listed = @ \ {age}]
          = [loop[o] EXCEPT !.at = "relRefs", !.listed = loop[o].listed \ {age}]
    BY <1>6 DEF LoopDeleteTag, TypeOK, LoopStates
  <2> QED BY <1>2, <1>3, <1>4, <2>1, <2>2, ElsewhereSteps
<1>7. CASE LoopDeleteLock(o)
  BY <1>4, <1>7 DEF LoopDeleteLock
<1>8. CASE StopEnd(o) \/ Restart(o)
  BY <1>2, <1>3, <1>8, ElsewhereSteps DEF StopEnd, Restart, LoopStart
<1> QED BY <1>5, <1>6, <1>7, <1>8

\* A candidate has no lock label, so nobody is busy with it; and while the list is
\* worked off nobody but the loop itself takes an item up.
LEMMA TickKeepsLabel ==
    ASSUME TypeOK, TypeOK', Handshake, LabelKept, ListIsFree,
           NEW o \in Orchestrators, \A p \in Orchestrators : p = o,
           Tick(o) \/ TickEnd(o)
    PROVE  LabelKept' /\ ListIsFree'
<1>1. slot' = slot /\ orphans' = orphans /\ lockLabel' = lockLabel
  BY DEF Tick, TickEnd, github
<1>2. {"tick", "sweep"} \subseteq LoopSteps \ {"pick", "claim", "tag", "mark"}
  BY DEF LoopSteps
<1>3. CASE Continue(o, LoopAt(LoopStart))
  BY <1>1, <1>2, <1>3, ElsewhereKept, ElsewhereSteps DEF LoopStart
<1>4. CASE Continue(o, [LoopAt("pick") EXCEPT !.todo = Candidates])
  <2>1. loop'[o] = [LoopAt("pick") EXCEPT !.todo = Candidates]
    BY <1>4 DEF TypeOK, Continue
  <2>2. loop'[o].at = "pick" /\ loop'[o].why = "work" /\ loop'[o].todo = Candidates
    BY <2>1 DEF LoopAt
  <2> QED BY <1>1, <2>2, SameSlotsFall, OneLoopMoves DEF Candidates
<1> QED BY <1>3, <1>4 DEF Tick, TickEnd

\* A slot that is no labelled dispatch's before and after changes.
LEMMA UnmarkedSlotFalls ==
    ASSUME TypeOK, NEW s \in Slots, NEW t, slot' = [slot EXCEPT ![s] = t],
           t.at \in {"free", "taken", "claimed"}
    PROVE  \A r \in Slots : Marked(r)' => Marked(r) /\ slot'[r].item = slot[r].item
BY DEF TypeOK, Marked

LEMMA PickKeepsLabel ==
    ASSUME TypeOK, TypeOK', Handshake, LabelKept, ListIsFree,
           NEW o \in Orchestrators, \A p \in Orchestrators : p = o, Pick(o)
    PROVE  LabelKept' /\ ListIsFree'
<1>1. PICK i \in loop[o].todo, s \in Free(o) :
        /\ Continue(o, [loop[o] EXCEPT !.at = "claim", !.item = i, !.slot = s])
        /\ slot' = [slot EXCEPT ![s].at = "taken"]
  BY DEF Pick
<1>2. loop'[o] = [loop[o] EXCEPT !.at = "claim", !.item = i, !.slot = s]
  BY <1>1 DEF Continue, TypeOK
<1>3. loop'[o].at = "claim" /\ loop'[o].item = i /\ loop'[o].todo = loop[o].todo
      /\ loop'[o].why = loop[o].why
  BY <1>2 DEF TypeOK, LoopStates
<1>4. Picking(o)
  BY DEF Pick, Picking
<1>5. s \in Slots /\ slot' = [slot EXCEPT ![s] = [slot[s] EXCEPT !.at = "taken"]]
      /\ [slot[s] EXCEPT !.at = "taken"].at = "taken"
  BY <1>1 DEF Free, TypeOK, SlotStates
<1>6. \A r \in Slots : Marked(r)' => Marked(r) /\ slot'[r].item = slot[r].item
  BY <1>5, UnmarkedSlotFalls
<1>7. orphans' = orphans /\ lockLabel' = lockLabel
  BY DEF Pick, github
<1> QED BY <1>3, <1>4, <1>6, <1>7, OneLoopMoves

LEMMA ClaimKeepsLabel ==
    ASSUME TypeOK, TypeOK', Handshake, LabelKept, ListIsFree,
           NEW o \in Orchestrators, \A p \in Orchestrators : p = o,
           Claim(o) \/ ClaimTag(o)
    PROVE  LabelKept' /\ ListIsFree'
<1>1. PICK s \in Slots : s = loop[o].slot
  BY DEF Claim, ClaimTag, Handshake, LoopOK
<1>2. /\ orphans' = orphans /\ lockLabel' = lockLabel
      /\ Picking(o) /\ loop[o].item \in loop[o].todo
  BY DEF Claim, ClaimTag, Picking, ListIsFree
<1>3. \A r \in Slots : Marked(r)' => Marked(r) /\ slot'[r].item = slot[r].item
  <2>1. \A i : [FreeSlot EXCEPT !.at = "claimed", !.item = i].at = "claimed"
    BY DEF FreeSlot
  <2>2. \/ slot' = [slot EXCEPT ![s] = [FreeSlot EXCEPT !.at = "claimed", !.item = loop[o].item]]
        \/ slot' = slot \/ slot' = [slot EXCEPT ![s] = FreeSlot]
    BY <1>1 DEF Claim, ClaimTag, GiveUpSlot
  <2>3. FreeSlot.at = "free"
    BY DEF FreeSlot
  <2> QED BY <2>1, <2>2, <2>3, UnmarkedSlotFalls, SameSlotsFall
<1>4. /\ loop'[o].todo \subseteq loop[o].todo /\ loop'[o].why = loop[o].why
      /\ loop'[o].at \in {"claim", "tag", "mark"} => loop'[o].item \in loop'[o].todo
  <2>1. CASE Continue(o, Skip(o, "pick"))
    BY <2>1, SkipMoves DEF LoopSteps
  <2>2. ASSUME NEW step \in {"tag", "mark"}, Continue(o, [loop[o] EXCEPT !.at = step])
        PROVE  /\ loop'[o].todo = loop[o].todo /\ loop'[o].item = loop[o].item
               /\ loop'[o].why = loop[o].why
    BY <2>2 DEF TypeOK, Continue, LoopStates
  <2> QED BY <1>2, <2>1, <2>2 DEF Claim, ClaimTag
<1> QED BY <1>2, <1>3, <1>4, OneLoopMoves

\* The only step that labels: nobody was busy with the item, and it goes off the list.
LEMMA MarkKeepsLabel ==
    ASSUME "addLabel" \notin MayFail,
           TypeOK, TypeOK', Handshake, LabelKept, ListIsFree,
           NEW o \in Orchestrators, \A p \in Orchestrators : p = o, MarkAndDispatch(o)
    PROVE  LabelKept' /\ ListIsFree'
<1>1. PICK s \in Slots, i \in Items :
        s = loop[o].slot /\ i = loop[o].item /\ slot[s].at = "claimed" /\ slot[s].item = i
  BY DEF MarkAndDispatch, Handshake, LoopOK
<1>2. i \in loop[o].todo /\ ~ Busy(i) /\ Picking(o)
  BY <1>1 DEF MarkAndDispatch, ListIsFree, Picking
<1>3. lockLabel' = lockLabel \cup {i} /\ orphans' = orphans
  BY <1>1 DEF MarkAndDispatch, Answers, Landed
<1>4. /\ slot'[s].item = i
      /\ \A r \in Slots \ {s} : slot'[r] = slot[r]
  BY <1>1 DEF MarkAndDispatch, TypeOK, SlotStates
<1>5. /\ loop'[o].at = "pick" /\ loop'[o].why = loop[o].why
      /\ loop'[o].todo = loop[o].todo \ {i}
  BY <1>1, SkipMoves DEF MarkAndDispatch, LoopSteps
<1>6. \A j \in Items : Busy(j)' => Busy(j) \/ j = i
  BY <1>3, <1>4 DEF Busy, Marked
<1>7. \A j \in Items : Busy(j)' => j \in lockLabel'
  BY <1>3, <1>6 DEF LabelKept
<1>8. ASSUME NEW q \in Slots, NEW r \in Slots, Marked(q)', Marked(r)', slot'[q].item = slot'[r].item
      PROVE  q = r
  <2>1. \A t \in Slots \ {s} : Marked(t)' => Marked(t) /\ slot[t].item # i
    BY <1>2, <1>4 DEF Marked, Busy
  <2> QED BY <1>4, <1>8, <2>1 DEF LabelKept
<1>9. ASSUME NEW r \in Slots, Marked(r)' PROVE slot'[r].item \notin orphans'[o]
  <2>1. CASE r = s
    BY <1>2, <1>3, <1>4, <2>1 DEF Busy
  <2>2. CASE r # s
    BY <1>3, <1>4, <1>9, <2>2 DEF LabelKept, Marked
  <2> QED BY <2>1, <2>2
<1>10. LabelKept'
  BY <1>7, <1>8, <1>9 DEF LabelKept
<1>11. \A j \in loop'[o].todo : ~ Busy(j)'
  <2>1. \A j \in loop[o].todo : j \in Items /\ ~ Busy(j)
    BY <1>2 DEF TypeOK, LoopStates, ListIsFree
  <2> QED BY <1>5, <1>6, <2>1
<1>12. loop'[o].why # "stop"
  BY <1>5 DEF MarkAndDispatch, Handshake, LoopOK
<1> QED BY <1>5, <1>10, <1>11, <1>12 DEF ListIsFree

\* A dispatch moves.
LEMMA OneSlotMoves ==
    ASSUME TypeOK, TypeOK', LabelKept, ListIsFree, NEW s \in Slots,
           slot' = [slot EXCEPT ![s] = slot'[s]],
           Marked(s)' => Marked(s) /\ slot'[s].item = slot[s].item,
           loop' = loop, orphans' = orphans,
           lockLabel' = lockLabel \/ (lockLabel' = lockLabel \ {slot[s].item} /\ ~ Marked(s)' /\ Marked(s))
    PROVE  LabelKept' /\ ListIsFree'
<1>1. \A r \in Slots \ {s} : slot'[r] = slot[r]
  BY DEF TypeOK
<1>2. Falls
  BY <1>1 DEF Falls, Marked
<1>3. ListFalls
  BY DEF ListFalls, Picking, ListIsFree
<1>4. ASSUME NEW i \in Items, Busy(i)', i \in lockLabel PROVE i \in lockLabel'
  <2>1. CASE lockLabel' = lockLabel
    BY <1>4, <2>1
  <2>2. CASE lockLabel' = lockLabel \ {slot[s].item} /\ ~ Marked(s)' /\ Marked(s)
    <3>1. CASE \E r \in Slots : Marked(r)' /\ slot'[r].item = i
      <4>1. PICK r \in Slots : Marked(r)' /\ slot'[r].item = i
        BY <3>1
      <4>2. r # s /\ Marked(r) /\ slot[r].item = i
        BY <1>1, <2>2, <4>1 DEF Marked
      <4> QED BY <1>4, <2>2, <4>2 DEF LabelKept
    <3>2. CASE \E o \in Orchestrators : i \in orphans'[o]
      BY <1>4, <2>2, <3>2 DEF LabelKept
    <3> QED BY <1>4, <3>1, <3>2 DEF Busy
  <2> QED BY <2>1, <2>2
<1> QED BY <1>2, <1>3, <1>4, LabelStays

LEMMA FreeIsUnmarked == FreeSlot.at = "free"
BY DEF FreeSlot

\* How Go moves its slot.
LEMMA GoSteps ==
    ASSUME TypeOK, NEW s \in Slots, NEW step, Go(s, step)
    PROVE  /\ slot' = [slot EXCEPT ![s] = slot'[s]]
           /\ slot'[s].at = step
           /\ step # "free" => slot'[s].item = slot[s].item /\ slot'[s].exit = slot[s].exit
<1>1. CASE step = "free"
  BY <1>1, FreeIsUnmarked DEF Go, TypeOK
<1>2. CASE step # "free"
  <2>1. slot'[s] = [slot[s] EXCEPT !.at = step] /\ slot' = [slot EXCEPT ![s] = slot'[s]]
    BY <1>2 DEF Go, TypeOK
  <2> QED BY <1>2, <2>1 DEF TypeOK, SlotStates
<1> QED BY <1>1, <1>2

LEMMA RunKeepsLabel ==
    ASSUME ~ Hangs, TypeOK, TypeOK', Handshake, LabelKept, ListIsFree, NEW s \in Slots,
           Launch(s) \/ TimeOut(s) \/ \E exit \in Exits : End(s, exit)
    PROVE  LabelKept' /\ ListIsFree'
<1>1. /\ loop' = loop /\ orphans' = orphans /\ lockLabel' = lockLabel
      /\ Marked(s)
  BY DEF Launch, TimeOut, End, github, Marked
<1>2. \/ slot' = [slot EXCEPT ![s].at = "run"]
      \/ \E exit \in Exits : slot' = [slot EXCEPT ![s].at = FirstStep(exit), ![s].exit = exit]
  BY DEF Launch, Do, TimeOut, End
<1>3. slot' = [slot EXCEPT ![s] = slot'[s]] /\ slot'[s].item = slot[s].item
  BY <1>2 DEF TypeOK, SlotStates
<1> QED BY <1>1, <1>3, OneSlotMoves

LEMMA CleanupKeepsLabel ==
    ASSUME TypeOK, TypeOK', Handshake, LabelKept, ListIsFree, NEW s \in Slots,
           Unmark(s) \/ Dequeue(s) \/ ListTags(s) \/ DeleteTag(s) \/ DeleteLock(s) \/ KeepLock(s)
    PROVE  LabelKept' /\ ListIsFree'
<1>1. loop' = loop /\ orphans' = orphans
  BY DEF Unmark, Dequeue, ListTags, DeleteTag, DeleteLock, KeepLock
<1>2. slot[s].exit = "guard" => Kind # "merger"
  BY DEF TypeOK, SlotStates, Exits
<1>3. CASE Unmark(s)
  <2>1. /\ Go(s, StepAfterUnmark(slot[s].exit)) /\ Marked(s)
        /\ lockLabel' = lockLabel \/ lockLabel' = lockLabel \ {slot[s].item}
    BY <1>3 DEF Unmark, Marked
  <2>2. slot' = [slot EXCEPT ![s] = slot'[s]] /\ ~ Marked(s)'
    BY <1>2, <2>1, GoSteps DEF StepAfterUnmark, DequeuesLate, Marked
  <2> QED BY <1>1, <2>1, <2>2, OneSlotMoves
<1>4. CASE Dequeue(s)
  <2>1. /\ Go(s, StepAfterDequeue(slot[s].exit)) /\ lockLabel' = lockLabel /\ slot[s].at = "dequeue"
    BY <1>4 DEF Dequeue
  <2>2. /\ slot' = [slot EXCEPT ![s] = slot'[s]]
        /\ Marked(s)' => Marked(s) /\ slot'[s].item = slot[s].item
    BY <1>2, <2>1, GoSteps DEF StepAfterDequeue, Marked
  <2> QED BY <1>1, <2>1, <2>2, OneSlotMoves
<1>5. CASE ListTags(s) \/ DeleteTag(s) \/ DeleteLock(s) \/ KeepLock(s)
  <2>1. slot[s].at \in {"relList", "relRefs"} /\ lockLabel' = lockLabel
    BY <1>5 DEF ListTags, DeleteTag, DeleteLock, KeepLock, github
  <2>2. ASSUME NEW released \in BOOLEAN, Go(s, StepAfterRelease(slot[s].exit, released))
        PROVE  /\ slot' = [slot EXCEPT ![s] = slot'[s]]
               /\ Marked(s)' => Marked(s) /\ slot'[s].item = slot[s].item
    BY <2>1, <2>2, GoSteps DEF StepAfterRelease, Marked
  <2>3. ASSUME slot' = [slot EXCEPT ![s] = slot'[s]],
               slot'[s].at \in {"relList", "relRefs"}, slot'[s].exit = slot[s].exit,
               slot'[s].item = slot[s].item
        PROVE  /\ slot' = [slot EXCEPT ![s] = slot'[s]]
               /\ Marked(s)' => Marked(s) /\ slot'[s].item = slot[s].item
    BY <2>1, <2>3 DEF Marked
  <2>4. ASSUME RetryRelease(s)
        PROVE  /\ slot' = [slot EXCEPT ![s] = slot'[s]]
               /\ Marked(s)' => Marked(s) /\ slot'[s].item = slot[s].item
    <3>1. CASE slot[s].try < RetryAttempts
      <4>1. /\ slot' = [slot EXCEPT ![s] = slot'[s]] /\ slot'[s].at = "relList"
            /\ slot'[s].item = slot[s].item /\ slot'[s].exit = slot[s].exit
        BY <2>4, <3>1 DEF RetryRelease, TypeOK, SlotStates
      <4> QED BY <2>3, <4>1
    <3>2. CASE ~ (slot[s].try < RetryAttempts)
      BY <2>2, <2>4, <3>2 DEF RetryRelease
    <3> QED BY <3>1, <3>2
  <2>5. /\ slot' = [slot EXCEPT ![s] = slot'[s]]
        /\ Marked(s)' => Marked(s) /\ slot'[s].item = slot[s].item
    <3>1. CASE ListTags(s)
      <4>1. CASE slot' = [slot EXCEPT ![s].at = "relRefs", ![s].listed = tags[slot[s].item]]
        <5>1. /\ slot' = [slot EXCEPT ![s] = slot'[s]] /\ slot'[s].at = "relRefs"
              /\ slot'[s].item = slot[s].item /\ slot'[s].exit = slot[s].exit
          BY <4>1 DEF TypeOK, SlotStates
        <5> QED BY <2>3, <5>1
      <4> QED BY <2>4, <3>1, <4>1 DEF ListTags
    <3>2. CASE DeleteTag(s)
      <4>1. PICK age \in slot[s].listed :
              slot' = [slot EXCEPT ![s].listed = @ \ {age}] \/ RetryRelease(s)
        BY <3>2 DEF DeleteTag
      <4>2. CASE slot' = [slot EXCEPT ![s].listed = @ \ {age}]
        <5>1. /\ slot' = [slot EXCEPT ![s] = slot'[s]] /\ slot'[s].at = slot[s].at
              /\ slot'[s].item = slot[s].item /\ slot'[s].exit = slot[s].exit
          BY <4>2 DEF TypeOK, SlotStates
        <5> QED BY <2>1, <2>3, <5>1
      <4> QED BY <2>4, <4>1, <4>2
    <3>3. CASE DeleteLock(s)
      BY <2>2, <2>4, <3>3 DEF DeleteLock
    <3>4. CASE KeepLock(s)
      <4>1. Go(s, "free")
        BY <3>4 DEF KeepLock
      <4> QED BY <4>1, GoSteps DEF Marked
    <3> QED BY <1>5, <3>1, <3>2, <3>3, <3>4
  <2> QED BY <1>1, <2>1, <2>5, OneSlotMoves
<1> QED BY <1>3, <1>4, <1>5

\* A process that ends keeps its labels, and leaves its containers behind when it
\* crashes; a shutdown removes a label only when nobody is busy any more.
LEMMA StopKeepsLabel ==
    ASSUME TypeOK, TypeOK', Handshake, LabelKept, ListIsFree,
           NEW o \in Orchestrators, \A p \in Orchestrators : p = o,
           Shutdown(o) \/ Crash(o) \/ StopTask(o)
    PROVE  LabelKept' /\ ListIsFree'
<1>1. CASE Shutdown(o) \/ Crash(o)
  <2>1. ASSUME NEW s \in Slots PROVE ~ Marked(s)'
    <3>1. slot'[s] = FreeSlot
      BY <1>1, SetsAssumption DEF Shutdown, Crash, HaltSlots
    <3> QED BY <3>1, FreeIsUnmarked DEF Marked
  <2>2. lockLabel' = lockLabel /\ orphans'[o] \subseteq Containers(o)
    BY <1>1 DEF Shutdown, Crash, github, TypeOK
  <2>3. \A i \in Items : Busy(i)' => i \in lockLabel'
    <3>1. \A i \in Containers(o) : Busy(i)
      BY DEF Containers, Busy, Marked
    <3> QED BY <2>1, <2>2, <3>1 DEF Busy, LabelKept
  <2>4. ~ Picking(o)' /\ (loop'[o].why = "stop" => orphans'[o] = {})
    <3>1. CASE Shutdown(o)
      <4>1. loop'[o] = [LoopAt("stop") EXCEPT !.todo = Containers(o), !.why = "stop"]
        BY <3>1 DEF Shutdown, Continue, TypeOK
      <4>2. loop'[o].at = "stop" /\ orphans'[o] = {}
        BY <3>1, <4>1 DEF LoopAt, Shutdown, TypeOK
      <4> QED BY <4>2 DEF Picking
    <3>2. CASE Crash(o)
      BY <3>2, ResetMoves DEF Crash, Picking, LoopSteps
    <3> QED BY <1>1, <3>1, <3>2
  <2>5. LabelKept'
    BY <2>1, <2>3 DEF LabelKept
  <2> QED BY <2>1, <2>4, <2>5 DEF ListIsFree, Picking, Busy
<1>2. CASE StopTask(o)
  <2>1. /\ loop[o].why = "stop" /\ slot' = slot /\ orphans' = orphans
    BY <1>2 DEF StopTask, Handshake, LoopOK
  <2>2. \A i \in Items : ~ Busy(i)'
    BY <2>1 DEF ListIsFree, Busy, Marked
  <2>3. Falls
    BY <2>1, SameSlotsFall DEF Falls
  <2>4. ~ Picking(o)'
    <3>1. PICK i : loop'[o] = [loop[o] EXCEPT !.at = "relList", !.item = i]
      BY <1>2 DEF StopTask, Continue, TypeOK
    <3>2. loop'[o].at = "relList"
      BY <3>1 DEF TypeOK, LoopStates
    <3> QED BY <3>2 DEF Picking
  <2>5. ListFalls
    BY <2>2, <2>4 DEF ListFalls, Picking
  <2> QED BY <2>2, <2>3, <2>5, LabelStays
<1> QED BY <1>1, <1>2

\* Time passes, an orphan ends, something happens on GitHub, or nothing.
LEMMA OutsideKeepsLabel ==
    ASSUME TypeOK, TypeOK', LabelKept, ListIsFree,
           \/ Clock \/ UNCHANGED vars
           \/ \E i \in Items :
                \/ Requeue(i) \/ ClosePR(i)
                \/ \E o \in Orchestrators : Produce(o, i) \/ OrphanEnds(o, i)
    PROVE  LabelKept' /\ ListIsFree'
<1>1. lockLabel' = lockLabel /\ \A o \in Orchestrators : orphans'[o] \subseteq orphans[o]
  <2>1. CASE \E i \in Items, o \in Orchestrators : OrphanEnds(o, i)
    BY <2>1 DEF OrphanEnds, github, TypeOK
  <2>2. CASE ~ \E i \in Items, o \in Orchestrators : OrphanEnds(o, i)
    BY <2>2 DEF Clock, vars, Requeue, ClosePR, Produce
  <2> QED BY <2>1, <2>2
<1>2. /\ \A s \in Slots : /\ slot'[s].at = slot[s].at /\ slot'[s].item = slot[s].item
                          /\ slot'[s].exit = slot[s].exit
      /\ \A o \in Orchestrators : /\ loop'[o].at = loop[o].at /\ loop'[o].item = loop[o].item
                                  /\ loop'[o].todo = loop[o].todo /\ loop'[o].why = loop[o].why
  <2>1. CASE Clock
    <3>1. ASSUME NEW s \in Slots
          PROVE  /\ slot'[s].at = slot[s].at /\ slot'[s].item = slot[s].item
                 /\ slot'[s].exit = slot[s].exit
      <4> DEFINE ran == IF slot[s].at \in Dispatched THEN slot[s].ran + 1 ELSE slot[s].ran
      <4>1. slot[s] \in SlotStates
        BY DEF TypeOK
      <4>2. slot'[s] = [slot[s] EXCEPT !.listed = Older(slot[s].listed), !.ran = ran]
        BY <2>1, <4>1 DEF Clock, SlotStates
      <4> QED BY <4>1, <4>2 DEF SlotStates
    <3>2. ASSUME NEW o \in Orchestrators
          PROVE  /\ loop'[o].at = loop[o].at /\ loop'[o].item = loop[o].item
                 /\ loop'[o].todo = loop[o].todo /\ loop'[o].why = loop[o].why
      <4>1. loop[o] \in LoopStates
        BY DEF TypeOK
      <4>2. loop'[o] = [loop[o] EXCEPT !.listed = Older(loop[o].listed)]
        BY <2>1 DEF Clock
      <4> QED BY <4>1, <4>2 DEF LoopStates
    <3> QED BY <3>1, <3>2
  <2>2. CASE ~ Clock
    BY <2>2 DEF vars, Requeue, ClosePR, Produce, OrphanEnds
  <2> QED BY <2>1, <2>2
<1>3. Falls
  BY <1>1, <1>2 DEF Falls, Marked
<1>4. ListFalls
  BY <1>2 DEF ListFalls, Picking, ListIsFree
<1> QED BY <1>1, <1>3, <1>4, LabelStays

LEMMA InitLabelKept == Init => LabelKept /\ ListIsFree
BY FreeIsUnmarked DEF Init, LabelKept, ListIsFree, Busy, Marked, Picking, LoopAt, LoopStart

LEMMA StepKeepsLabel ==
    ASSUME \A o, p \in Orchestrators : o = p, ~ Hangs, "addLabel" \notin MayFail,
           TypeOK, Handshake, LabelKept, ListIsFree, [Next]_vars
    PROVE  LabelKept' /\ ListIsFree'
<1>1. TypeOK'
  BY StepTyped
<1>2. ASSUME NEW o \in Orchestrators, LoopStep(o) PROVE LabelKept' /\ ListIsFree'
  <2>1. \A p \in Orchestrators : p = o
    OBVIOUS
  <2> QED BY <1>1, <1>2, <2>1, SweepKeepsLabel, LoopReleaseKeepsLabel, TickKeepsLabel, PickKeepsLabel,
             ClaimKeepsLabel, MarkKeepsLabel, StopKeepsLabel DEF LoopStep
<1>3. ASSUME NEW o \in Orchestrators, Shutdown(o) \/ Crash(o) \/ Restart(o)
      PROVE  LabelKept' /\ ListIsFree'
  <2>1. \A p \in Orchestrators : p = o
    OBVIOUS
  <2> QED BY <1>1, <1>3, <2>1, LoopReleaseKeepsLabel, StopKeepsLabel
<1>4. ASSUME NEW s \in Slots, SlotStep(s) PROVE LabelKept' /\ ListIsFree'
  BY <1>1, <1>4, RunKeepsLabel, CleanupKeepsLabel DEF SlotStep
<1>5. CASE UNCHANGED vars
  BY <1>1, <1>5, OutsideKeepsLabel
<1>6. CASE Next
  BY <1>1, <1>2, <1>3, <1>4, <1>6, OutsideKeepsLabel DEF Next
<1> QED BY <1>5, <1>6

\* With one orchestrator, when AddLabel does not fail and containers end before their
\* timeout, no item has two containers, for any kind, sweeper or not, whatever else
\* fails and whenever the process crashes or is shut down.
THEOREM OneContainerPerItem ==
    ASSUME \A o, p \in Orchestrators : o = p, ~ Hangs, "addLabel" \notin MayFail
    PROVE  Spec => []OneContainer
<1> DEFINE IInv == TypeOK /\ Handshake /\ LabelKept /\ ListIsFree
<1>1. Init => IInv
  BY InitTyped, InitLabelKept
<1>2. IInv /\ [Next]_vars => IInv'
  BY StepTyped, StepKeepsLabel
<1>3. IInv => OneContainer
  BY DEF LabelKept, OneContainer, Works, Marked
<1> QED BY <1>1, <1>2, <1>3, PTL DEF Spec
=============================================================================
