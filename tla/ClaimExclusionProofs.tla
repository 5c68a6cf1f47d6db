------------------------- MODULE ClaimExclusionProofs -------------------------
(***************************************************************************)
(* The git ref is a lock: for the kinds of work that no sweeper reclaims   *)
(* (merger, resolver), as long as a deletion that reports an error has not *)
(* happened and no container is busy when its dispatch times out, no two   *)
(* dispatches own an item at once and every owner finds its lock in place. *)
(* Any number of orchestrators, slots and items; any call may fail;        *)
(* crashes and shutdowns at any step.                                      *)
(***************************************************************************)
EXTENDS TaskClaimProofs, ClaimLock

\* Nothing of a sweep is in progress, only shutdowns release from the loop, and a
\* shutdown has killed every container of its machine before.
NoSweep ==
    \A o \in Orchestrators :
        /\ loop[o].at \notin {"sweep", "age", "retag", "isDone"}
        /\ loop[o].at \in {"relList", "relRefs"} => loop[o].why = "stop"
        /\ loop[o].why = "stop" => orphans[o] = {}

Exclusion == MutualExclusion /\ WorkIsLocked /\ NoSweep
Inv == TypeOK /\ Handshake /\ Exclusion

-----------------------------------------------------------------------------
(* A step that adds no owner and takes no owner's lock preserves exclusion. *)

KeepsHolders ==
    \A s \in Slots : Holds(s)' => Holds(s) /\ slot'[s].item = slot[s].item
KeepsHeirs ==
    \A o \in Orchestrators, i \in Items : Inherits(o, i)' => Inherits(o, i)
KeepsLocks ==
    \A i \in Items : Owned(i)' /\ i \in lockRefs => i \in lockRefs'

\* No machine gets hold of anything.
Shrinks ==
    \A o \in Orchestrators, i \in Items : HoldsAt(o, i)' => HoldsAt(o, i)

LEMMA FewerOwners ==
    ASSUME TypeOK, Handshake, TypeOK', Handshake', MutualExclusion, WorkIsLocked,
           KeepsHolders, KeepsHeirs, KeepsLocks
    PROVE  MutualExclusion' /\ WorkIsLocked' /\ Shrinks
<1>1. \A i \in Items : Owned(i)' => Owned(i)
  BY DEF Owned, KeepsHolders, KeepsHeirs
<1>2. WorkIsLocked'
  BY <1>1 DEF WorkIsLocked, KeepsLocks
<1>3. \A s \in Slots : Holds(s)' => slot'[s].item \in Items
  BY DEF Handshake, SlotOK, Holds
<1>4. MutualExclusion'
  BY <1>3 DEF MutualExclusion, KeepsHolders, KeepsHeirs
<1>5. Shrinks
  BY DEF Shrinks, HoldsAt, KeepsHolders, KeepsHeirs
<1> QED BY <1>2, <1>4, <1>5

\* Loops move without a new heir, slots stay, locks stay.
LEMMA LoopAlone ==
    ASSUME Inv, TypeOK', Handshake', slot' = slot, lockRefs \subseteq lockRefs', KeepsHeirs
    PROVE  MutualExclusion' /\ WorkIsLocked' /\ Shrinks
<1>1. KeepsHolders /\ KeepsLocks
  BY DEF KeepsHolders, KeepsLocks, Holds
<1> QED BY <1>1, FewerOwners DEF Inv, Exclusion

\* One loop moves on without becoming an heir.
LEMMA HeirsOfOne ==
    ASSUME TypeOK, NEW o \in Orchestrators, LoopMoved(o), orphans' = orphans,
           loop'[o].why = "stop" => loop[o].why = "stop" /\ loop'[o].todo \subseteq loop[o].todo
    PROVE  KeepsHeirs
BY DEF TypeOK, LoopMoved, KeepsHeirs, Inherits

\* One slot moves on with its item, or gives up.
LEMMA HoldersOfOne ==
    ASSUME TypeOK, NEW s \in Slots, SlotMoved(s),
           Holds(s)' => Holds(s) /\ slot'[s].item = slot[s].item
    PROVE  KeepsHolders
BY DEF TypeOK, SlotMoved, KeepsHolders, Holds

-----------------------------------------------------------------------------

LEMMA TickExclusive ==
    ASSUME ~ Swept, Inv, TypeOK', Handshake', NEW o \in Orchestrators,
           Tick(o) \/ TickEnd(o) \/ Restart(o)
    PROVE  Exclusion' /\ Shrinks
<1>1. slot' = slot /\ lockRefs' = lockRefs /\ orphans' = orphans
  BY DEF Tick, TickEnd, Restart, github
<1>2. /\ LoopMoved(o) /\ loop'[o].why = "work"
      /\ loop'[o].at \in {"pick", "tick"}
  <2>1. CASE Continue(o, [LoopAt("pick") EXCEPT !.todo = Candidates])
    <3>1. /\ [LoopAt("pick") EXCEPT !.todo = Candidates] \in LoopStates
          /\ [LoopAt("pick") EXCEPT !.todo = Candidates].at = "pick"
          /\ [LoopAt("pick") EXCEPT !.todo = Candidates].why = "work"
      BY DEF LoopAt, LoopStates, LoopSteps, Inv, TypeOK, Candidates
    <3> QED BY <2>1, <3>1, ContinueMoves DEF Inv
  <2>2. CASE Continue(o, LoopAt("tick"))
    BY <2>2, ResetMoves DEF LoopSteps, Inv
  <2> QED BY <2>1, <2>2 DEF Tick, TickEnd, Restart, LoopStart
<1>3. KeepsHeirs
  BY <1>1, <1>2, HeirsOfOne DEF Inv
<1>4. NoSweep'
  BY <1>1, <1>2 DEF NoSweep, Inv, Exclusion, LoopMoved, TypeOK
<1> QED BY <1>1, <1>3, <1>4, LoopAlone DEF Exclusion

LEMMA PickExclusive ==
    ASSUME ~ Swept, Inv, TypeOK', Handshake', NEW o \in Orchestrators, Pick(o)
    PROVE  Exclusion' /\ Shrinks
<1>1. PICK i \in loop[o].todo, s \in Free(o) :
        /\ Continue(o, [loop[o] EXCEPT !.at = "claim", !.item = i, !.slot = s])
        /\ slot' = [slot EXCEPT ![s].at = "taken"]
  BY DEF Pick
<1>2. /\ s \in Slots /\ loop[o].why = "work" /\ loop[o] \in LoopStates
      /\ slot'[s].at = "taken" /\ SlotMoved(s)
  <2>1. s \in Slots /\ loop[o] \in LoopStates
    BY DEF Free, Inv, TypeOK
  <2>2. loop[o].why = "work"
    BY <2>1 DEF Pick, Inv, Handshake, LoopOK, LoopStates
  <2>3. slot'[s] = [slot[s] EXCEPT !.at = "taken"]
    BY <1>1, <2>1 DEF Inv, TypeOK
  <2>4. slot'[s].at = "taken"
    BY <2>1, <2>3 DEF Inv, TypeOK, SlotStates
  <2> QED BY <1>1, <2>1, <2>2, <2>3, <2>4 DEF SlotMoved, Inv, TypeOK
<1>3. LoopMoved(o) /\ loop'[o].at = "claim" /\ loop'[o].why = "work"
  <2>1. /\ loop' = [loop EXCEPT ![o] = loop'[o]]
        /\ loop'[o] = [loop[o] EXCEPT !.at = "claim", !.item = i, !.slot = s]
    BY <1>1 DEF Continue, Inv, TypeOK
  <2>2. loop'[o] \in LoopStates
    BY DEF TypeOK
  <2>3. loop'[o].at = "claim" /\ loop'[o].why = "work"
    BY <1>2, <2>1 DEF LoopStates
  <2> QED BY <2>1, <2>2, <2>3 DEF LoopMoved
<1>a. orphans' = orphans
  BY DEF Pick
<1>4. KeepsHolders /\ KeepsHeirs
  BY <1>a, <1>2, <1>3, HeirsOfOne, HoldersOfOne DEF Inv, Holds, Dispatched
<1>5. KeepsLocks
  BY DEF KeepsLocks, Pick, github
<1>6. NoSweep'
  BY <1>a, <1>3 DEF NoSweep, Inv, Exclusion, LoopMoved, TypeOK
<1> QED BY <1>4, <1>5, <1>6, FewerOwners DEF Exclusion, Inv

\* A claim that is not won, or is given up, leaves one owner less or as many.
LEMMA GiveUpExclusive ==
    ASSUME Inv, TypeOK', Handshake', NEW o \in Orchestrators,
           loop[o].at \in {"claim", "tag", "mark"}, lockRefs \subseteq lockRefs',
           orphans' = orphans, GiveUpSlot(o), Continue(o, Skip(o, "pick"))
    PROVE  Exclusion' /\ Shrinks
<1>1. PICK s \in Slots : s = loop[o].slot
  BY DEF Inv, Handshake, LoopOK
<1>2. loop[o].why = "work"
  BY DEF Inv, Handshake, LoopOK, TypeOK, LoopStates
<1>3. slot'[s] = FreeSlot /\ SlotMoved(s)
  BY <1>1, FreeSlotTyped DEF Inv, TypeOK, GiveUpSlot, SlotMoved
<1>4. LoopMoved(o) /\ loop'[o].at = "pick" /\ loop'[o].why = "work"
  BY <1>2, SkipMoves DEF Inv, LoopSteps
<1>5. KeepsHolders /\ KeepsHeirs
  BY <1>3, <1>4, HeirsOfOne, HoldersOfOne DEF Inv, Holds, Dispatched, FreeSlot
<1>6. KeepsLocks
  BY DEF KeepsLocks
<1>7. NoSweep'
  BY <1>4 DEF NoSweep, Inv, Exclusion, LoopMoved, TypeOK
<1> QED BY <1>5, <1>6, <1>7, FewerOwners DEF Exclusion, Inv

\* A claim is won: the lock did not exist, so the item had no owner.
LEMMA ClaimExclusive ==
    ASSUME ~ Swept, Inv, TypeOK', Handshake', NEW o \in Orchestrators, Claim(o)
    PROVE  Exclusion'
<1>a. PICK i \in Items : i = loop[o].item
  BY DEF Claim, Inv, Handshake, LoopOK
<1>b. PICK s \in Slots : s = loop[o].slot
  BY DEF Claim, Inv, Handshake, LoopOK
<1>1. /\ loop[o].why = "work" /\ slot[s].at = "taken" /\ lockRefs \subseteq lockRefs'
      /\ orphans' = orphans
  BY <1>a, <1>b DEF Claim, Inv, Handshake, LoopOK, TypeOK, LoopStates
<1>2. CASE GiveUpSlot(o) /\ Continue(o, Skip(o, "pick"))
  BY <1>1, <1>2, GiveUpExclusive DEF Claim
<1>3. CASE /\ slot' = [slot EXCEPT ![s] = [FreeSlot EXCEPT !.at = "claimed", !.item = i]]
           /\ Continue(o, [loop[o] EXCEPT !.at = "tag"])
           /\ i \notin lockRefs /\ lockRefs' = lockRefs \cup {i}
  <2>1. /\ slot'[s].at = "claimed" /\ slot'[s].item = i /\ slot'[s].exit = "none"
        /\ \A r \in Slots : r # s => slot'[r] = slot[r]
    BY <1>3 DEF Inv, TypeOK, FreeSlot
  <2>2. /\ \A p \in Orchestrators : p # o => loop'[p] = loop[p]
        /\ loop'[o].at = "tag" /\ loop'[o].why = "work"
    BY <1>1, <1>3 DEF Continue, Inv, TypeOK, LoopStates
  <2>3. ~ Owned(i)
    BY <1>3 DEF Inv, Exclusion, WorkIsLocked
  <2>4. \A r \in Slots : r # s /\ Holds(r)' => Holds(r) /\ slot'[r].item = slot[r].item
                                               /\ slot[r].item # i
    BY <2>1, <2>3 DEF Holds, Owned
  <2>5. \A p \in Orchestrators, j \in Items : Inherits(p, j)' => Inherits(p, j) /\ j # i
    BY <1>1, <2>2, <2>3 DEF Inherits, Owned
  <2>6. WorkIsLocked'
    BY <1>3, <2>1, <2>4, <2>5 DEF WorkIsLocked, Owned, Inv, Exclusion
  <2>7. MutualExclusion'
    <3>1. \A r, q \in Slots : Holds(r)' /\ Holds(q)' /\ slot'[r].item = slot'[q].item => r = q
      BY <2>1, <2>4 DEF Inv, Exclusion, MutualExclusion
    <3>2. \A r \in Slots, p \in Orchestrators : Holds(r)' => ~ Inherits(p, slot[r].item)'
      <4>1. ASSUME NEW r \in Slots, NEW p \in Orchestrators, Holds(r)', Inherits(p, slot[r].item)'
            PROVE  FALSE
        <5>1. PICK j \in Items : j = slot'[r].item
          BY <4>1 DEF Handshake, SlotOK, Holds
        <5>2. Inherits(p, j)'
          BY <4>1, <5>1 DEF Inherits
        <5>3. Inherits(p, j) /\ j # i
          BY <2>5, <5>2
        <5> QED BY <2>1, <2>4, <4>1, <5>1, <5>3 DEF Inv, Exclusion, MutualExclusion
      <4> QED BY <4>1
    <3>3. \A p, q \in Orchestrators, j \in Items : Inherits(p, j)' /\ Inherits(q, j)' => p = q
      BY <2>5 DEF Inv, Exclusion, MutualExclusion
    <3> QED BY <3>1, <3>2, <3>3 DEF MutualExclusion
  <2>8. NoSweep'
    BY <1>1, <2>2 DEF NoSweep, Inv, Exclusion
  <2> QED BY <2>6, <2>7, <2>8 DEF Exclusion
<1> QED BY <1>2, <1>3, <1>a, <1>b DEF Claim, ClaimAnswers

LEMMA ClaimTagExclusive ==
    ASSUME ~ Swept, Inv, TypeOK', Handshake', NEW o \in Orchestrators,
           ClaimTag(o) \/ MarkAndDispatch(o)
    PROVE  Exclusion' /\ Shrinks
<1>1. /\ loop[o].why = "work" /\ loop[o].at \in {"tag", "mark"} /\ loop[o] \in LoopStates
      /\ lockRefs' = lockRefs /\ orphans' = orphans
  BY DEF ClaimTag, MarkAndDispatch, Inv, Handshake, LoopOK, TypeOK, LoopStates
<1>2. PICK s \in Slots : s = loop[o].slot /\ slot[s].at = "claimed" /\ slot[s] \in SlotStates
  BY <1>1 DEF Inv, Handshake, LoopOK, TypeOK
<1>3. CASE GiveUpSlot(o) /\ Continue(o, Skip(o, "pick"))
  BY <1>1, <1>3, GiveUpExclusive
<1>4. CASE slot' = slot /\ Continue(o, [loop[o] EXCEPT !.at = "mark"])
  <2>1. /\ loop' = [loop EXCEPT ![o] = loop'[o]]
        /\ loop'[o] = [loop[o] EXCEPT !.at = "mark"]
    BY <1>4 DEF Continue, Inv, TypeOK
  <2>2. LoopMoved(o) /\ loop'[o].at = "mark" /\ loop'[o].why = "work"
    BY <1>1, <2>1 DEF LoopMoved, LoopStates, TypeOK
  <2>3. KeepsHeirs
    BY <1>1, <2>2, HeirsOfOne DEF Inv
  <2>4. NoSweep'
    BY <1>1, <2>2 DEF NoSweep, Inv, Exclusion, LoopMoved, TypeOK
  <2> QED BY <1>1, <1>4, <2>3, <2>4, LoopAlone DEF Exclusion
<1>5. CASE MarkAndDispatch(o)
  <2>1. slot' = [slot EXCEPT ![s].at = "prep"]
    BY <1>2, <1>5 DEF MarkAndDispatch
  <2>2. slot'[s] = [slot[s] EXCEPT !.at = "prep"] /\ SlotMoved(s)
    BY <2>1 DEF SlotMoved, Inv, TypeOK
  <2>3. slot'[s].item = slot[s].item /\ slot'[s].exit = slot[s].exit
    BY <1>2, <2>2 DEF SlotStates
  <2>4. Holds(s)
    BY <1>2 DEF Holds, Dispatched, SlotSteps
  <2>5. KeepsHolders
    BY <2>2, <2>3, <2>4, HoldersOfOne DEF Inv
  <2>6. LoopMoved(o) /\ loop'[o].at = "pick" /\ loop'[o].why = "work"
    BY <1>1, <1>5, SkipMoves DEF MarkAndDispatch, LoopSteps, Inv
  <2>7. KeepsHeirs /\ KeepsLocks
    BY <1>1, <2>6, HeirsOfOne DEF KeepsLocks, Inv
  <2>8. NoSweep'
    BY <1>1, <2>6 DEF NoSweep, Inv, Exclusion, LoopMoved, TypeOK
  <2> QED BY <2>5, <2>7, <2>8, FewerOwners DEF Exclusion, Inv
<1> QED BY <1>3, <1>4, <1>5 DEF ClaimTag

-----------------------------------------------------------------------------
(* A shutdown releases what it inherited, one item after the other.        *)

LEMMA StopReleaseExclusive ==
    ASSUME Inv, TypeOK', Handshake', NEW o \in Orchestrators,
           StopTask(o) \/ StopEnd(o) \/ LoopListTags(o) \/ LoopDeleteTag(o)
    PROVE  Exclusion' /\ Shrinks
<1>1. /\ slot' = slot /\ lockRefs' = lockRefs /\ orphans' = orphans
      /\ loop[o].why = "stop" /\ loop[o] \in LoopStates
  <2>1. slot' = slot /\ lockRefs' = lockRefs /\ orphans' = orphans
    BY DEF StopTask, StopEnd, LoopListTags, LoopDeleteTag, github
  <2>2. loop[o].at \in {"stop", "relList", "relRefs"}
    BY DEF StopTask, StopEnd, LoopListTags, LoopDeleteTag
  <2>3. loop[o].why = "stop"
    BY <2>2 DEF Inv, Handshake, LoopOK, Exclusion, NoSweep
  <2> QED BY <2>1, <2>3 DEF Inv, TypeOK
<1>2. ASSUME LoopMoved(o), loop'[o].at \in {"stop", "relList", "relRefs", "down"},
             loop'[o].why = "stop" => loop'[o].todo \subseteq loop[o].todo,
             loop'[o].at \in {"relList", "relRefs"} => loop'[o].why = "stop"
      PROVE  Exclusion' /\ Shrinks
  <2>1. KeepsHeirs
    BY <1>1, <1>2, HeirsOfOne DEF Inv
  <2>2. NoSweep'
    BY <1>1, <1>2 DEF NoSweep, Inv, Exclusion, LoopMoved, TypeOK
  <2> QED BY <1>1, <2>1, <2>2, LoopAlone DEF Exclusion
<1>3. CASE Continue(o, LoopAt("down"))
  BY <1>2, <1>3, ResetMoves DEF LoopSteps, Inv
<1>4. ASSUME Continue(o, AfterRelease(o, FALSE)) PROVE Exclusion' /\ Shrinks
  BY <1>1, <1>2, <1>4, SkipMoves DEF AfterRelease, LoopSteps, Inv
<1>5. ASSUME NEW at \in {"relList", "relRefs"}, NEW i, NEW ages,
             Continue(o, [loop[o] EXCEPT !.at = at, !.item = i, !.listed = ages])
      PROVE  Exclusion' /\ Shrinks
  <2>1. /\ loop' = [loop EXCEPT ![o] = loop'[o]]
        /\ loop'[o] = [loop[o] EXCEPT !.at = at, !.item = i, !.listed = ages]
    BY <1>5 DEF Continue, Inv, TypeOK
  <2>2. /\ LoopMoved(o) /\ loop'[o].at = at /\ loop'[o].why = "stop"
        /\ loop'[o].todo = loop[o].todo
    BY <1>1, <2>1 DEF LoopMoved, LoopStates, TypeOK
  <2> QED BY <1>2, <2>2
<1>6. CASE StopTask(o)
  <2>1. PICK i \in loop[o].todo : Continue(o, [loop[o] EXCEPT !.at = "relList", !.item = i])
    BY <1>6 DEF StopTask
  <2>2. [loop[o] EXCEPT !.at = "relList", !.item = i]
          = [loop[o] EXCEPT !.at = "relList", !.item = i, !.listed = loop[o].listed]
    BY <1>1 DEF LoopStates
  <2> QED BY <1>5, <2>1, <2>2
<1>7. CASE LoopListTags(o)
  <2> DEFINE ages == tags[loop[o].item]
  <2>1. [loop[o] EXCEPT !.at = "relRefs", !.listed = ages]
          = [loop[o] EXCEPT !.at = "relRefs", !.item = loop[o].item, !.listed = ages]
    BY <1>1 DEF LoopStates
  <2> QED BY <1>4, <1>5, <1>7, <2>1 DEF LoopListTags
<1>8. CASE LoopDeleteTag(o)
  <2>1. PICK age \in loop[o].listed :
          \/ Continue(o, [loop[o] EXCEPT !.listed = @ \ {age}])
          \/ Continue(o, AfterRelease(o, FALSE))
    BY <1>8 DEF LoopDeleteTag
  <2>2. loop[o].at = "relRefs"
    BY <1>8 DEF LoopDeleteTag
  <2>3. [loop[o] EXCEPT !.listed = @ \ {age}]
          = [loop[o] EXCEPT !.at = "relRefs", !.item = loop[o].item,
                            !.listed = loop[o].listed \ {age}]
    BY <1>1, <2>2 DEF LoopStates
  <2> QED BY <1>4, <1>5, <2>1, <2>3
<1> QED BY <1>3, <1>6, <1>7, <1>8 DEF StopEnd

\* The lock a shutdown deletes is its own: nobody else owns the item.
LEMMA LoopDeleteLockExclusive ==
    ASSUME Inv, TypeOK', Handshake', NEW o \in Orchestrators, LoopDeleteLock(o)
    PROVE  Exclusion' /\ Shrinks
<1>1. PICK i \in Items : i = loop[o].item /\ i \in loop[o].todo
  BY DEF LoopDeleteLock, Inv, Handshake, LoopOK
<1>2. /\ loop[o].why = "stop" /\ slot' = slot /\ lockRefs \ {i} \subseteq lockRefs'
      /\ orphans' = orphans /\ orphans[o] = {}
  BY <1>1 DEF LoopDeleteLock, DropLock, Inv, Exclusion, NoSweep
<1>3. Continue(o, Skip(o, "stop"))
  BY <1>2 DEF LoopDeleteLock, AfterRelease
<1>4. /\ LoopMoved(o) /\ loop'[o].at = "stop" /\ loop'[o].why = "stop"
      /\ loop'[o].todo = loop[o].todo \ {i}
  BY <1>1, <1>2, <1>3, SkipMoves DEF LoopSteps, Inv
<1>5. KeepsHolders /\ KeepsHeirs
  BY <1>2, <1>4, HeirsOfOne DEF KeepsHolders, Holds, Inv
<1>6. KeepsLocks
  <2>1. Inherits(o, i)
    BY <1>1, <1>2 DEF Inherits
  <2>2. \A s \in Slots : Holds(s)' => slot'[s].item # i
    BY <1>1, <1>2, <2>1 DEF Holds, Inv, Exclusion, MutualExclusion
  <2>3. \A p \in Orchestrators : ~ Inherits(p, i)'
    <3>1. ~ Inherits(o, i)'
      BY <1>2, <1>4 DEF Inherits
    <3>2. ASSUME NEW p \in Orchestrators, Inherits(p, i)' PROVE p = o
      BY <1>5, <2>1, <3>2 DEF KeepsHeirs, Inv, Exclusion, MutualExclusion
    <3> QED BY <3>1, <3>2
  <2>4. ~ Owned(i)'
    BY <2>2, <2>3 DEF Owned
  <2> QED BY <1>2, <2>4 DEF KeepsLocks
<1>7. NoSweep'
  BY <1>2, <1>4 DEF NoSweep, Inv, Exclusion, LoopMoved, TypeOK
<1> QED BY <1>5, <1>6, <1>7, FewerOwners DEF Exclusion, Inv

-----------------------------------------------------------------------------
(* A dispatch goes on, and releases its own lock at its end.               *)

LEMMA SlotAlone ==
    ASSUME Inv, TypeOK', Handshake', NEW s \in Slots, loop' = loop, orphans' = orphans, SlotMoved(s),
           Holds(s)' => Holds(s) /\ slot'[s].item = slot[s].item, KeepsLocks
    PROVE  Exclusion' /\ Shrinks
<1>1. KeepsHolders
  BY HoldersOfOne DEF Inv
<1>2. KeepsHeirs /\ NoSweep'
  BY DEF KeepsHeirs, Inherits, NoSweep, Inv, Exclusion
<1> QED BY <1>1, <1>2, FewerOwners DEF Exclusion, Inv

LEMMA RunExclusive ==
    ASSUME ~ Hangs, Inv, TypeOK', Handshake', NEW s \in Slots,
           Launch(s) \/ TimeOut(s) \/ \E exit \in Exits : End(s, exit)
    PROVE  Exclusion' /\ Shrinks
<1>1. ~ TimeOut(s)
  BY DEF TimeOut
<1>2. /\ slot[s].at \in {"prep", "run"} /\ loop' = loop
      /\ lockRefs' = lockRefs /\ orphans' = orphans
  BY <1>1 DEF Launch, End, github
<1>3. Holds(s) /\ slot[s] \in SlotStates
  BY <1>2 DEF Holds, Dispatched, SlotSteps, Inv, TypeOK
<1>4. SlotMoved(s) /\ slot'[s].item = slot[s].item
  <2>1. CASE Launch(s)
    <3>1. slot' = [slot EXCEPT ![s] = slot'[s]] /\ slot'[s] = [slot[s] EXCEPT !.at = "run"]
      BY <2>1 DEF Launch, Do, Inv, TypeOK
    <3> QED BY <1>3, <3>1 DEF SlotMoved, SlotStates, TypeOK
  <2>2. ASSUME NEW exit \in Exits, End(s, exit) PROVE SlotMoved(s) /\ slot'[s].item = slot[s].item
    <3>1. /\ slot' = [slot EXCEPT ![s] = slot'[s]]
          /\ slot'[s] = [slot[s] EXCEPT !.at = FirstStep(exit), !.exit = exit]
      BY <2>2 DEF End, Inv, TypeOK
    <3> QED BY <1>3, <3>1 DEF SlotMoved, SlotStates, TypeOK
  <2> QED BY <1>1, <2>1, <2>2
<1> QED BY <1>2, <1>3, <1>4, SlotAlone DEF KeepsLocks

\* A cleanup step either keeps the item or frees the slot.
LEMMA CleanupMoves ==
    ASSUME Inv, TypeOK', NEW s \in Slots,
           \/ \E step \in SlotSteps : Go(s, step)
           \/ RetryRelease(s)
           \/ \E age \in slot[s].listed : slot' = [slot EXCEPT ![s].listed = @ \ {age}]
           \/ slot' = [slot EXCEPT ![s].at = "relRefs", ![s].listed = tags[slot[s].item]]
    PROVE  /\ SlotMoved(s)
           /\ slot'[s].at # "free" => slot'[s].item = slot[s].item
<1>1. slot \in [Slots -> SlotStates] /\ slot' \in [Slots -> SlotStates] /\ slot[s] \in SlotStates
  BY DEF Inv, TypeOK
<1>2. ASSUME NEW step \in SlotSteps, Go(s, step)
      PROVE  SlotMoved(s) /\ (slot'[s].at # "free" => slot'[s].item = slot[s].item)
  <2>1. CASE step = "free"
    BY <1>1, <1>2, <2>1 DEF Go, FreeSlot, SlotMoved
  <2>2. CASE step # "free"
    <3>1. slot' = [slot EXCEPT ![s] = slot'[s]] /\ slot'[s] = [slot[s] EXCEPT !.at = step]
      BY <1>1, <1>2, <2>2 DEF Go
    <3> QED BY <1>1, <3>1 DEF SlotMoved, SlotStates
  <2> QED BY <2>1, <2>2
<1>3. CASE RetryRelease(s)
  <2>1. CASE slot[s].try < RetryAttempts
    <3>1. /\ slot'[s] = [slot[s] EXCEPT !.at = "relList", !.listed = {}, !.try = slot[s].try + 1]
          /\ slot' = [slot EXCEPT ![s] = slot'[s]]
      BY <1>1, <1>3, <2>1 DEF RetryRelease
    <3> QED BY <1>1, <3>1 DEF SlotMoved, SlotStates
  <2>2. CASE ~ (slot[s].try < RetryAttempts)
    BY <1>2, <1>3, <2>2 DEF RetryRelease, StepAfterRelease, SlotSteps
  <2> QED BY <2>1, <2>2
<1>4. ASSUME NEW age \in slot[s].listed, slot' = [slot EXCEPT ![s].listed = @ \ {age}]
      PROVE  SlotMoved(s) /\ slot'[s].item = slot[s].item
  <2>1. /\ slot' = [slot EXCEPT ![s] = slot'[s]]
        /\ slot'[s] = [slot[s] EXCEPT !.listed = slot[s].listed \ {age}]
    BY <1>1, <1>4
  <2> QED BY <1>1, <2>1 DEF SlotMoved, SlotStates
<1>5. CASE slot' = [slot EXCEPT ![s].at = "relRefs", ![s].listed = tags[slot[s].item]]
  <2>1. /\ slot' = [slot EXCEPT ![s] = slot'[s]]
        /\ slot'[s] = [slot[s] EXCEPT !.at = "relRefs", !.listed = tags[slot[s].item]]
    BY <1>1, <1>5
  <2> QED BY <1>1, <2>1 DEF SlotMoved, SlotStates
<1> QED BY <1>2, <1>3, <1>4, <1>5

LEMMA CleanupExclusive ==
    ASSUME ~ Swept, "deleteRef" \notin MayLose, Inv, TypeOK', Handshake', NEW s \in Slots,
           Unmark(s) \/ Dequeue(s) \/ ListTags(s) \/ DeleteTag(s) \/ DeleteLock(s) \/ KeepLock(s)
    PROVE  Exclusion' /\ Shrinks
<1>1. /\ Holds(s) /\ loop' = loop /\ orphans' = orphans
      /\ slot[s].exit # "guard" /\ slot[s].exit \in Exits \cup {"none"}
  <2>1. /\ slot[s].at \in {"unmark", "dequeue", "relList", "relRefs"}
        /\ loop' = loop /\ orphans' = orphans
    BY DEF Unmark, Dequeue, ListTags, DeleteTag, DeleteLock, KeepLock
  <2>2. slot[s].exit \in {"ok", "fail", "early", "none"} /\ slot[s].exit \in Exits \cup {"none"}
    BY DEF Swept, Exits, Inv, TypeOK, SlotStates
  <2> QED BY <2>1, <2>2 DEF Holds, Dispatched, SlotSteps
<1>2. /\ SlotMoved(s)
      /\ slot'[s].at # "free" => slot'[s].item = slot[s].item
  <2>1. /\ StepAfterUnmark(slot[s].exit) \in SlotSteps /\ StepAfterDequeue(slot[s].exit) \in SlotSteps
        /\ StepAfterRelease(slot[s].exit, TRUE) \in SlotSteps /\ "free" \in SlotSteps
    BY <1>1, NextStepsTyped DEF SlotSteps
  <2> QED BY <2>1, CleanupMoves DEF Unmark, Dequeue, ListTags, DeleteTag, DeleteLock, KeepLock
<1>3. Holds(s)' => Holds(s) /\ slot'[s].item = slot[s].item
  BY <1>1, <1>2 DEF Holds, Dispatched
<1>4. KeepsLocks
  <2>1. CASE lockRefs' = lockRefs
    BY <2>1 DEF KeepsLocks
  <2>2. CASE lockRefs' # lockRefs
    <3>1. DeleteLock(s) /\ lockRefs' = lockRefs \ {slot[s].item} /\ Go(s, "free")
      BY <1>1, <2>2 DEF Unmark, Dequeue, ListTags, DeleteTag, DeleteLock, KeepLock, DropLock,
                        github, Answers, Landed, StepAfterRelease
    <3>2. ~ Holds(s)'
      BY <3>1 DEF Go, FreeSlot, Holds, Dispatched, Inv, TypeOK
    <3>3. \A r \in Slots : Holds(r)' => slot'[r].item # slot[s].item
      BY <1>1, <1>2, <3>2 DEF SlotMoved, Holds, Inv, TypeOK, Exclusion, MutualExclusion
    <3>4. \A p \in Orchestrators : ~ Inherits(p, slot[s].item)
      BY <1>1 DEF Inv, Exclusion, MutualExclusion
    <3>5. \A i \in Items : Owned(i)' => i # slot[s].item
      BY <1>1, <3>3, <3>4 DEF Owned, Inherits
    <3> QED BY <3>1, <3>5 DEF KeepsLocks
  <2> QED BY <2>1, <2>2
<1> QED BY <1>1, <1>2, <1>3, <1>4, SlotAlone

-----------------------------------------------------------------------------
(* Crash, shutdown, and the world outside.                                 *)

LEMMA HaltHolders ==
    ASSUME Inv, TypeOK', NEW o \in Orchestrators, HaltSlots(o)
    PROVE  \A s \in Slots :
             Holds(s)' => Holds(s) /\ slot'[s].item = slot[s].item /\ Home[s] # o
BY DEF HaltSlots, Holds, FreeSlot, Dispatched

\* A process that stops leaves its containers: it has its dispatches' items no longer as
\* an owner but as an heir, and the locks are in place.
LEMMA LeaveExclusive ==
    ASSUME Inv, TypeOK', Handshake', NEW o \in Orchestrators, HaltSlots(o), lockRefs' = lockRefs,
           \A p \in Orchestrators : p # o => loop'[p] = loop[p] /\ orphans'[p] = orphans[p],
           \A i \in Items : Inherits(o, i)' => Inherits(o, i) \/ i \in Containers(o)
    PROVE  MutualExclusion' /\ WorkIsLocked' /\ Shrinks
<1>1. \A s \in Slots : Holds(s)' => Holds(s) /\ slot'[s].item = slot[s].item /\ Home[s] # o
  BY HaltHolders
<1>2. ASSUME NEW i \in Items, Inherits(o, i)'
      PROVE  Inherits(o, i) \/ \E s \in Slots : Home[s] = o /\ Holds(s) /\ slot[s].item = i
  <2>1. CASE i \in Containers(o) \ orphans[o]
    <3>1. PICK s \in Slots : Home[s] = o /\ slot[s].at = "run" /\ slot[s].item = i
      BY <2>1 DEF Containers
    <3>2. Holds(s)
      BY <3>1 DEF Holds, Dispatched, SlotSteps
    <3> QED BY <3>1, <3>2
  <2> QED BY <1>2, <2>1 DEF Inherits
<1>3. \A p \in Orchestrators, i \in Items : p # o => (Inherits(p, i)' <=> Inherits(p, i))
  BY DEF Inherits
<1>4. \A i \in Items : Owned(i)' => Owned(i)
  <2>1. ASSUME NEW i \in Items, NEW p \in Orchestrators, Inherits(p, i)' PROVE Owned(i)
    BY <1>2, <1>3, <2>1 DEF Owned
  <2> QED BY <1>1, <2>1 DEF Owned
<1>a. Shrinks
  BY <1>1, <1>2, <1>3 DEF Shrinks, HoldsAt
<1>5. WorkIsLocked'
  BY <1>4 DEF WorkIsLocked, Inv, Exclusion
<1>6. MutualExclusion'
  <2>1. \A r, s \in Slots : Holds(r)' /\ Holds(s)' /\ slot'[r].item = slot'[s].item => r = s
    BY <1>1 DEF Inv, Exclusion, MutualExclusion
  <2>2. ASSUME NEW s \in Slots, NEW p \in Orchestrators, Holds(s)', Inherits(p, slot[s].item)'
        PROVE  FALSE
    <3>1. PICK i \in Items : i = slot'[s].item
      BY <2>2 DEF Handshake, SlotOK, Holds
    <3>2. Inherits(p, i)' /\ Holds(s) /\ slot[s].item = i /\ Home[s] # o
      BY <1>1, <2>2, <3>1 DEF Inherits
    <3>3. CASE p = o
      BY <1>2, <3>2, <3>3 DEF Inv, Exclusion, MutualExclusion
    <3>4. CASE p # o
      BY <1>3, <3>2, <3>4 DEF Inv, Exclusion, MutualExclusion
    <3> QED BY <3>3, <3>4
  <2>3. ASSUME NEW p \in Orchestrators, NEW q \in Orchestrators, NEW i \in Items,
               Inherits(p, i)', Inherits(q, i)', p # q
        PROVE  FALSE
    <3>1. CASE p # o /\ q # o
      BY <1>3, <2>3, <3>1 DEF Inv, Exclusion, MutualExclusion
    <3>2. CASE p = o
      BY <1>2, <1>3, <2>3, <3>2 DEF Inv, Exclusion, MutualExclusion
    <3>3. CASE q = o
      BY <1>2, <1>3, <2>3, <3>3 DEF Inv, Exclusion, MutualExclusion
    <3> QED BY <3>1, <3>2, <3>3
  <2> QED BY <2>1, <2>2, <2>3 DEF MutualExclusion
<1> QED BY <1>a, <1>5, <1>6

LEMMA StopExclusive ==
    ASSUME Inv, TypeOK', Handshake', NEW o \in Orchestrators, Crash(o) \/ Shutdown(o)
    PROVE  Exclusion' /\ Shrinks
<1>1. /\ HaltSlots(o) /\ lockRefs' = lockRefs
      /\ \A p \in Orchestrators : p # o => loop'[p] = loop[p] /\ orphans'[p] = orphans[p]
  BY DEF Crash, Shutdown, Continue, github, Inv, TypeOK
<1>2. \/ loop'[o].at = "down" /\ loop'[o].why = "work" /\ orphans'[o] = Containers(o)
      \/ /\ loop'[o].at = "stop" /\ loop'[o].why = "stop"
         /\ loop'[o].todo = Containers(o) /\ orphans'[o] = {}
  <2>1. CASE Crash(o)
    BY <2>1 DEF Crash, Continue, LoopAt, Inv, TypeOK
  <2>2. CASE Shutdown(o)
    <3>1. loop'[o] = [LoopAt("stop") EXCEPT !.todo = Containers(o), !.why = "stop"]
      BY <2>2 DEF Shutdown, Continue, Inv, TypeOK
    <3>2. orphans'[o] = {}
      BY <2>2 DEF Shutdown, Inv, TypeOK
    <3> QED BY <3>1, <3>2 DEF LoopAt
  <2> QED BY <2>1, <2>2
<1>3. \A i \in Items : Inherits(o, i)' => i \in Containers(o)
  BY <1>2 DEF Inherits
<1>4. NoSweep'
  BY <1>1, <1>2 DEF NoSweep, Inv, Exclusion
<1> QED BY <1>1, <1>3, <1>4, LeaveExclusive DEF Exclusion

LEMMA OutsideExclusive ==
    ASSUME ~ Swept, Inv, TypeOK', Handshake', NEW i \in Items,
           \/ Requeue(i) \/ ClosePR(i)
           \/ \E o \in Orchestrators : Produce(o, i) \/ OrphanEnds(o, i)
    PROVE  Exclusion' /\ Shrinks
<1>1. /\ slot' = slot /\ loop' = loop /\ lockRefs' = lockRefs
      /\ \A o \in Orchestrators : orphans'[o] \subseteq orphans[o]
  BY DEF Requeue, ClosePR, Produce, OrphanEnds, Swept, github, Inv, TypeOK
<1>2. KeepsHeirs /\ NoSweep'
  BY <1>1 DEF KeepsHeirs, Inherits, NoSweep, Inv, Exclusion
<1> QED BY <1>1, <1>2, LoopAlone DEF Exclusion

LEMMA ClockExclusive ==
    ASSUME Inv, TypeOK', Handshake', Clock
    PROVE  Exclusion' /\ Shrinks
<1>1. ASSUME NEW o \in Orchestrators
      PROVE  /\ loop'[o].at = loop[o].at /\ loop'[o].why = loop[o].why
             /\ loop'[o].todo = loop[o].todo
  <2>1. loop[o] \in LoopStates /\ loop'[o] = [loop[o] EXCEPT !.listed = Older(loop[o].listed)]
    BY DEF Clock, Inv, TypeOK
  <2> QED BY <2>1 DEF LoopStates
<1>2. ASSUME NEW s \in Slots
      PROVE  /\ slot'[s].at = slot[s].at /\ slot'[s].item = slot[s].item
             /\ slot'[s].exit = slot[s].exit
  <2> DEFINE ran == IF slot[s].at \in Dispatched THEN slot[s].ran + 1 ELSE slot[s].ran
  <2>1. /\ slot[s] \in SlotStates
        /\ slot'[s] = [slot[s] EXCEPT !.listed = Older(slot[s].listed), !.ran = ran]
    BY DEF Clock, Inv, TypeOK, SlotStates
  <2> QED BY <2>1 DEF SlotStates
<1>3. KeepsHolders /\ KeepsHeirs /\ KeepsLocks
  BY <1>1, <1>2 DEF KeepsHolders, KeepsHeirs, KeepsLocks, Holds, Inherits, Clock
<1>4. NoSweep'
  BY <1>1 DEF NoSweep, Inv, Exclusion, Clock
<1> QED BY <1>3, <1>4, FewerOwners DEF Exclusion, Inv

-----------------------------------------------------------------------------

LEMMA InitExclusive == ASSUME ~ Swept, Init PROVE Exclusion
BY DEF Init, Exclusion, MutualExclusion, WorkIsLocked, Owned, NoSweep, Holds, Inherits,
       FreeSlot, LoopAt, LoopStart, Dispatched

\* A step preserves the invariant, and only a claim makes a machine hold more.
LEMMA StepExclusive ==
    ASSUME ~ Swept, ~ Hangs, "deleteRef" \notin MayLose, Inv, [Next]_vars
    PROVE  Inv' /\ (Shrinks \/ \E o \in Orchestrators : Claim(o))
<1>1. TypeOK' /\ Handshake'
  BY StepTyped DEF Inv
<1>2. ASSUME NEW o \in Orchestrators, LoopStep(o) PROVE Exclusion' /\ (Shrinks \/ Claim(o))
  <2>1. ~ (Sweep(o) \/ SweepEnd(o) \/ SweepLock(o) \/ Retag(o) \/ AskDone(o))
    BY DEF Sweep, SweepEnd, SweepLock, Retag, AskDone, Inv, Exclusion, NoSweep
  <2> QED BY <1>1, <1>2, <2>1, TickExclusive, PickExclusive, ClaimExclusive, ClaimTagExclusive,
             StopReleaseExclusive, LoopDeleteLockExclusive DEF LoopStep
<1>3. ASSUME NEW o \in Orchestrators, Shutdown(o) \/ Crash(o) \/ Restart(o)
      PROVE  Exclusion' /\ Shrinks
  BY <1>1, <1>3, StopExclusive, TickExclusive
<1>4. ASSUME NEW s \in Slots, SlotStep(s) PROVE Exclusion' /\ Shrinks
  BY <1>1, <1>4, RunExclusive, CleanupExclusive DEF SlotStep
<1>5. ASSUME UNCHANGED vars PROVE Exclusion' /\ Shrinks
  BY <1>5 DEF vars, Inv, Exclusion, MutualExclusion, WorkIsLocked, Owned, NoSweep, Holds, Inherits,
              Shrinks, HoldsAt
<1>6. ASSUME Next PROVE Exclusion' /\ (Shrinks \/ \E o \in Orchestrators : Claim(o))
  BY <1>1, <1>2, <1>3, <1>4, <1>6, OutsideExclusive, ClockExclusive DEF Next
<1> QED BY <1>1, <1>5, <1>6 DEF Inv

\* For a kind no sweeper reclaims, when a delete that reports an error did nothing and
\* containers end before their timeout, claims exclude each other and every owner,
\* a container left behind by a crash included, finds its lock in place.
THEOREM ClaimsExclude ==
    ASSUME ~ Swept, ~ Hangs, "deleteRef" \notin MayLose
    PROVE  Spec => [](MutualExclusion /\ WorkIsLocked)
<1>1. Init => Inv
  BY InitTyped, InitExclusive DEF Inv
<1>2. Inv /\ [Next]_vars => Inv'
  BY StepExclusive
<1>3. Inv => MutualExclusion /\ WorkIsLocked
  BY DEF Inv, Exclusion
<1> QED BY <1>1, <1>2, <1>3, PTL DEF Spec

\* The half of it about locks: whatever retries, races and half-done releases came
\* before, nobody has deleted the lock of a dispatch, of a shutdown that still releases
\* it, or of a container a crash left behind.
THEOREM LocksStay ==
    ASSUME ~ Swept, ~ Hangs, "deleteRef" \notin MayLose
    PROVE  Spec => []WorkIsLocked
BY ClaimsExclude, PTL
=============================================================================
