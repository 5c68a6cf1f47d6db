------------------------------ MODULE ClaimLock ------------------------------
(***************************************************************************)
(* TaskClaim as an implementation of WorkLock: the lock refs are the       *)
(* locks, and a machine holds an item while a dispatch there has won it,   *)
(* a shutdown there has still to release it, or a container that outlived  *)
(* a crash works on it.                                                    *)
(***************************************************************************)
EXTENDS TaskClaim

HoldsAt(o, i) ==
    \/ \E s \in Slots : Home[s] = o /\ Holds(s) /\ slot[s].item = i
    \/ Inherits(o, i)

Held == {p \in Orchestrators \X Items : HoldsAt(p[1], p[2])}

Lock == INSTANCE WorkLock WITH Machines <- Orchestrators, locked <- lockRefs, held <- Held

\* Claims are locks: TryClaim wins only what is unlocked, and whoever deletes a lock ref
\* holds the item or finds it without a holder, through retries, half-done releases,
\* shutdowns and crashes.
ImplementsWorkLock == Lock!Spec

=============================================================================
