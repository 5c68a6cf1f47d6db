--------------------------- MODULE ClaimLockProofs ---------------------------
(***************************************************************************)
(* TaskClaim implements WorkLock, under the assumptions of ClaimsExclude.  *)
(* Steps that leave the lock refs alone map to Abandon or a stutter; there *)
(* are three others: a claim, and the deletion of a lock by a dispatch or  *)
(* a shutdown.                                                             *)
(***************************************************************************)
EXTENDS ClaimExclusionProofs

LEMMA AbandonMapped ==
    ASSUME Shrinks, lockRefs' = lockRefs
    PROVE  Lock!Next
<1>1. Held' \subseteq Held
  BY DEF Shrinks, Held
<1> QED BY <1>1 DEF Lock!Next, Lock!Abandon

LEMMA ReleaseMapped ==
    ASSUME NEW o \in Orchestrators, NEW i \in Items, HoldsAt(o, i), ~ HoldsAt(o, i)', Shrinks,
           \A p \in Orchestrators, j \in Items :
               HoldsAt(p, j) /\ ~ (p = o /\ j = i) => HoldsAt(p, j)',
           lockRefs' = lockRefs \ {i}
    PROVE  Lock!Next
<1>1. <<o, i>> \in Held
  BY DEF Held
<1>2. Held' = Held \ {<<o, i>>}
  <2>1. ASSUME NEW p \in Orchestrators, NEW j \in Items
        PROVE  <<p, j>> \in Held' <=> <<p, j>> \in Held \ {<<o, i>>}
    BY DEF Held, Shrinks
  <2> QED BY <2>1 DEF Held
<1> QED BY <1>1, <1>2 DEF Lock!Next, Lock!Release

\* What a claim changes: the slot it has taken, and nothing about what a shutdown or a
\* crash has left.
LEMMA ClaimFrame ==
    ASSUME Inv, NEW o \in Orchestrators, NEW s \in Slots, Claim(o), s = loop[o].slot
    PROVE  /\ Home[s] = o /\ ~ Holds(s)
           /\ \A r \in Slots : r # s => slot'[r] = slot[r]
           /\ \A p \in Orchestrators, j \in Items : Inherits(p, j)' <=> Inherits(p, j)
<1>1. /\ Home[s] = o /\ slot[s].at = "taken" /\ loop[o].why = "work" /\ orphans' = orphans
  BY DEF Claim, Inv, Handshake, LoopOK, TypeOK, LoopStates
<1>2. \A r \in Slots : r # s => slot'[r] = slot[r]
  BY DEF Claim, GiveUpSlot, Inv, TypeOK
<1>3. /\ \A p \in Orchestrators : p # o => loop'[p] = loop[p]
      /\ loop'[o].why = "work"
  <2>1. CASE Continue(o, [loop[o] EXCEPT !.at = "tag"])
    <3>1. [loop[o] EXCEPT !.at = "tag"].why = "work"
      BY <1>1 DEF Inv, TypeOK, LoopStates
    <3> QED BY <2>1, <3>1 DEF Continue, Inv, TypeOK
  <2>2. CASE Continue(o, Skip(o, "pick"))
    BY <1>1, <2>2, SkipMoves DEF LoopMoved, LoopSteps, Inv, TypeOK
  <2> QED BY <2>1, <2>2 DEF Claim
<1> QED BY <1>1, <1>2, <1>3 DEF Inherits, Holds, Dispatched

LEMMA ClaimMapped ==
    ASSUME Inv, TypeOK', Handshake', NEW o \in Orchestrators, Claim(o)
    PROVE  Lock!Next
<1>a. PICK i \in Items : i = loop[o].item
  BY DEF Claim, Inv, Handshake, LoopOK
<1>b. PICK s \in Slots : s = loop[o].slot
  BY DEF Claim, Inv, Handshake, LoopOK
<1>1. /\ Home[s] = o /\ ~ Holds(s)
      /\ \A r \in Slots : r # s => slot'[r] = slot[r]
      /\ \A p \in Orchestrators, j \in Items : Inherits(p, j)' <=> Inherits(p, j)
  BY <1>b, ClaimFrame
<1>2. CASE /\ slot' = [slot EXCEPT ![s] = [FreeSlot EXCEPT !.at = "claimed", !.item = i]]
           /\ i \notin lockRefs /\ lockRefs' = lockRefs \cup {i}
  <2>1. slot'[s].at = "claimed" /\ slot'[s].item = i /\ slot'[s].exit = "none"
    BY <1>2 DEF Inv, TypeOK, FreeSlot
  <2>2. Holds(s)'
    BY <2>1 DEF Holds, Dispatched, SlotSteps
  <2>3. ASSUME NEW p \in Orchestrators, NEW j \in Items
        PROVE  HoldsAt(p, j)' <=> HoldsAt(p, j) \/ (p = o /\ j = i)
    BY <1>1, <2>1, <2>2 DEF HoldsAt, Holds
  <2>4. Held' = Held \cup {<<o, i>>}
    <3>1. ASSUME NEW p \in Orchestrators, NEW j \in Items
          PROVE  <<p, j>> \in Held' <=> <<p, j>> \in Held \cup {<<o, i>>}
      BY <2>3 DEF Held
    <3> QED BY <3>1 DEF Held
  <2> QED BY <1>2, <2>4 DEF Lock!Next, Lock!Win
<1>3. CASE slot'[s] = FreeSlot /\ lockRefs' \in {lockRefs, lockRefs \cup {i}}
           /\ (lockRefs' = lockRefs \/ i \notin lockRefs)
  <2>1. ~ Holds(s)'
    BY <1>3 DEF Holds, FreeSlot, Dispatched
  <2>2. ASSUME NEW p \in Orchestrators, NEW j \in Items
        PROVE  HoldsAt(p, j)' <=> HoldsAt(p, j)
    BY <1>1, <2>1 DEF HoldsAt, Holds
  <2>3. Held' = Held
    BY <2>2 DEF Held
  <2> QED BY <1>3, <2>3 DEF Lock!Next, Lock!WinUnknown, Lock!Abandon
<1>4. \/ /\ slot' = [slot EXCEPT ![s] = [FreeSlot EXCEPT !.at = "claimed", !.item = i]]
         /\ i \notin lockRefs /\ lockRefs' = lockRefs \cup {i}
      \/ GiveUpSlot(o) /\ lockRefs' = lockRefs
      \/ GiveUpSlot(o) /\ i \notin lockRefs /\ lockRefs' = lockRefs \cup {i}
  BY <1>a, <1>b DEF Claim, ClaimAnswers
<1>5. GiveUpSlot(o) => slot'[s] = FreeSlot
  BY <1>b DEF GiveUpSlot, Inv, TypeOK
<1> QED BY <1>2, <1>3, <1>4, <1>5

LEMMA LoopDeleteLockMapped ==
    ASSUME Inv, Shrinks, NEW o \in Orchestrators, LoopDeleteLock(o), lockRefs' # lockRefs
    PROVE  Lock!Next
<1>1. PICK i \in Items : i = loop[o].item /\ i \in loop[o].todo
  BY DEF LoopDeleteLock, Inv, Handshake, LoopOK
<1>2. /\ loop[o].why = "stop" /\ slot' = slot /\ lockRefs' = lockRefs \ {i}
      /\ orphans' = orphans /\ orphans[o] = {}
  BY <1>1 DEF LoopDeleteLock, DropLock, Inv, Exclusion, NoSweep
<1>3. Continue(o, Skip(o, "stop"))
  BY <1>2 DEF LoopDeleteLock, AfterRelease
<1>4. LoopMoved(o) /\ loop'[o].why = "stop" /\ loop'[o].todo = loop[o].todo \ {i}
  BY <1>1, <1>2, <1>3, SkipMoves DEF LoopSteps, Inv
<1>5. Inherits(o, i)
  BY <1>1, <1>2 DEF Inherits
<1>6. ASSUME NEW p \in Orchestrators, NEW j \in Items, HoldsAt(p, j), ~ (p = o /\ j = i)
      PROVE  HoldsAt(p, j)'
  <2>1. Inherits(p, j) => Inherits(p, j)'
    BY <1>2, <1>4, <1>6 DEF Inherits, LoopMoved, Inv, TypeOK
  <2> QED BY <1>2, <1>6, <2>1 DEF HoldsAt, Holds
<1>7. ~ HoldsAt(o, i)'
  <2>1. ~ Inherits(o, i)'
    BY <1>2, <1>4 DEF Inherits
  <2>2. \A s \in Slots : Holds(s) => slot[s].item # i
    BY <1>5 DEF Inv, Exclusion, MutualExclusion
  <2> QED BY <1>2, <2>1, <2>2 DEF HoldsAt, Holds
<1> QED BY <1>2, <1>5, <1>6, <1>7, ReleaseMapped DEF HoldsAt

LEMMA DeleteLockMapped ==
    ASSUME ~ Swept, "deleteRef" \notin MayLose, Inv, Shrinks, NEW s \in Slots, DeleteLock(s),
           lockRefs' # lockRefs
    PROVE  Lock!Next
<1>1. /\ slot[s].at = "relRefs" /\ loop' = loop /\ orphans' = orphans
      /\ slot[s].exit # "guard"
  BY DEF DeleteLock, Swept, Exits, Inv, TypeOK, SlotStates
<1>2. PICK i \in Items : i = slot[s].item
  BY <1>1 DEF Inv, Handshake, SlotOK, Dispatched, SlotSteps
<1>3. Holds(s)
  BY <1>1 DEF Holds, Dispatched, SlotSteps
<1>4. lockRefs' = lockRefs \ {i} /\ Go(s, "free")
  BY <1>1, <1>2 DEF DeleteLock, DropLock, Answers, Landed, StepAfterRelease
<1>5. ~ Holds(s)' /\ \A r \in Slots : r # s => slot'[r] = slot[r]
  BY <1>4 DEF Go, FreeSlot, Holds, Dispatched, Inv, TypeOK
<1>6. \A p \in Orchestrators, j \in Items : Inherits(p, j)' <=> Inherits(p, j)
  BY <1>1 DEF Inherits
<1> DEFINE o == Home[s]
<1>7. o \in Orchestrators /\ HoldsAt(o, i)
  BY <1>2, <1>3, SetsAssumption DEF HoldsAt
<1>8. ASSUME NEW p \in Orchestrators, NEW j \in Items, HoldsAt(p, j), ~ (p = o /\ j = i)
      PROVE  HoldsAt(p, j)'
  BY <1>2, <1>5, <1>6, <1>8 DEF HoldsAt, Holds
<1>9. ~ HoldsAt(o, i)'
  <2>1. \A r \in Slots : Holds(r) /\ slot[r].item = i => r = s
    BY <1>2, <1>3 DEF Inv, Exclusion, MutualExclusion
  <2>2. ~ Inherits(o, i)
    BY <1>2, <1>3, <1>7 DEF Inv, Exclusion, MutualExclusion
  <2> QED BY <1>5, <1>6, <1>7, <2>1, <2>2 DEF HoldsAt, Holds
<1> QED BY <1>4, <1>7, <1>8, <1>9, ReleaseMapped

-----------------------------------------------------------------------------

LEMMA InitMapped == Init => Lock!Init
BY DEF Init, Lock!Init, Held, HoldsAt, Holds, Inherits, FreeSlot, LoopAt, Dispatched

LEMMA StepMapped ==
    ASSUME ~ Swept, ~ Hangs, "deleteRef" \notin MayLose, Inv, Inv', [Next]_vars
    PROVE  [Lock!Next]_(Lock!vars)
<1>1. Shrinks \/ \E o \in Orchestrators : Claim(o)
  BY StepExclusive
<1>2. \/ lockRefs' = lockRefs
      \/ \E o \in Orchestrators : Claim(o) \/ LoopDeleteLock(o)
      \/ \E s \in Slots : DeleteLock(s)
  <2>1. ASSUME NEW o \in Orchestrators, LoopStep(o)
        PROVE  lockRefs' = lockRefs \/ Claim(o) \/ LoopDeleteLock(o)
    BY <2>1 DEF LoopStep, Sweep, SweepEnd, SweepLock, Retag, AskDone, LoopListTags, LoopDeleteTag,
                Tick, TickEnd, Pick, ClaimTag, MarkAndDispatch, StopTask, StopEnd, github
  <2>2. ASSUME NEW o \in Orchestrators, Shutdown(o) \/ Crash(o) \/ Restart(o)
        PROVE  lockRefs' = lockRefs
    BY <2>2 DEF Shutdown, Crash, Restart, github
  <2>3. ASSUME NEW s \in Slots, SlotStep(s) PROVE lockRefs' = lockRefs \/ DeleteLock(s)
    BY <2>3 DEF SlotStep, Launch, End, TimeOut, Unmark, Dequeue, ListTags, DeleteTag, KeepLock, github
  <2>4. ASSUME NEW o \in Orchestrators, NEW i \in Items, Produce(o, i) \/ OrphanEnds(o, i)
        PROVE  lockRefs' = lockRefs
    BY <2>4 DEF Produce, OrphanEnds, Swept, github
  <2>5. ASSUME NEW i \in Items, Requeue(i) \/ ClosePR(i) PROVE lockRefs' = lockRefs
    BY <2>5 DEF Requeue, ClosePR, Swept
  <2>6. CASE Clock \/ UNCHANGED vars
    BY <2>6 DEF Clock, vars
  <2> QED BY <2>1, <2>2, <2>3, <2>4, <2>5, <2>6 DEF Next
<1>3. CASE \E o \in Orchestrators : Claim(o)
  BY <1>3, ClaimMapped DEF Inv
<1>4. CASE Shrinks
  BY <1>2, <1>3, <1>4, AbandonMapped, LoopDeleteLockMapped, DeleteLockMapped
<1> QED BY <1>1, <1>3, <1>4

\* For a kind no sweeper reclaims, when a delete that reports an error did nothing and
\* containers end before their timeout, the claim protocol is a lock: every step of it,
\* crashes, retries and shutdowns included, is one that WorkLock allows.
THEOREM ClaimsImplementLock ==
    ASSUME ~ Swept, ~ Hangs, "deleteRef" \notin MayLose
    PROVE  Spec => ImplementsWorkLock
<1>1. Init => Inv
  BY InitTyped, InitExclusive DEF Inv
<1>2. Inv /\ [Next]_vars => Inv'
  BY StepExclusive
<1>3. Inv /\ Inv' /\ [Next]_vars => [Lock!Next]_(Lock!vars)
  BY StepMapped
<1> QED BY <1>1, <1>2, <1>3, InitMapped, PTL DEF Spec, ImplementsWorkLock, Lock!Spec
=============================================================================
