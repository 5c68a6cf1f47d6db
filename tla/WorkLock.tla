------------------------------ MODULE WorkLock ------------------------------
(***************************************************************************)
(* What a claim promises: an item is unlocked, or held by one machine, or  *)
(* locked and abandoned.  Only an unlocked item can be won, and while it   *)
(* is held only its holder unlocks it.  Whether an abandoned item is       *)
(* unlocked, and by whom, is left open.  Refs, tags, retries, crashes and  *)
(* the cleanup of a shutdown are details of TaskClaim.                     *)
(***************************************************************************)

EXTENDS TLAPS

CONSTANTS
    Machines,  \* where orchestrators run
    Items      \* issues or pull requests

VARIABLES
    locked,    \* items that are locked
    held       \* <<m, i>>: machine m holds item i

vars == <<locked, held>>

Init == locked = {} /\ held = {}

Win(m, i) ==
    /\ i \notin locked
    /\ locked' = locked \cup {i}
    /\ held' = held \cup {<<m, i>>}

\* A claim that succeeds without its claimer getting to know.
WinUnknown(i) ==
    /\ i \notin locked
    /\ locked' = locked \cup {i}
    /\ UNCHANGED held

Release(m, i) ==
    /\ <<m, i>> \in held
    /\ locked' = locked \ {i}
    /\ held' = held \ {<<m, i>>}

\* What is held is given up without being unlocked: a crash, or a release that failed for
\* good.
Abandon == held' \in SUBSET held /\ UNCHANGED locked

\* Somebody unlocks what nobody holds.
Reap(i) ==
    /\ \A m \in Machines : <<m, i>> \notin held
    /\ locked' = locked \ {i}
    /\ UNCHANGED held

Next ==
    \/ Abandon
    \/ \E i \in Items : WinUnknown(i) \/ Reap(i) \/ \E m \in Machines : Win(m, i) \/ Release(m, i)

Spec == Init /\ [][Next]_vars

-----------------------------------------------------------------------------

\* An item has at most one holder, and while it has one it is locked.
OneHolder ==
    /\ held \subseteq Machines \X Items
    /\ \A p, q \in held : p[2] = q[2] => p = q
    /\ \A p \in held : p[2] \in locked

\* The rules of WorkLock make a lock: whatever implements them excludes.
THEOREM LockExcludes == Spec => []OneHolder
<1>1. Init => OneHolder
  BY DEF Init, OneHolder
<1>2. OneHolder /\ [Next]_vars => OneHolder'
  <2> SUFFICES ASSUME OneHolder, [Next]_vars PROVE OneHolder'
    OBVIOUS
  <2>1. CASE Abandon
    BY <2>1 DEF Abandon, OneHolder
  <2>2. ASSUME NEW i \in Items, WinUnknown(i) PROVE OneHolder'
    BY <2>2 DEF WinUnknown, OneHolder
  <2>3. ASSUME NEW i \in Items, NEW m \in Machines, Win(m, i) PROVE OneHolder'
    BY <2>3 DEF Win, OneHolder
  <2>4. ASSUME NEW i \in Items, NEW m \in Machines, Release(m, i) PROVE OneHolder'
    BY <2>4 DEF Release, OneHolder
  <2>5. ASSUME NEW i \in Items, Reap(i) PROVE OneHolder'
    BY <2>5 DEF Reap, OneHolder
  <2>6. CASE UNCHANGED vars
    BY <2>6 DEF vars, OneHolder
  <2> QED BY <2>1, <2>2, <2>3, <2>4, <2>5, <2>6 DEF Next
<1> QED BY <1>1, <1>2, PTL DEF Spec

=============================================================================
