--------------------------- MODULE WorkPoolProofs ---------------------------
(***************************************************************************)
(* Proofs about WorkPool: types and the handshake of loop and slots, for   *)
(* any schedulers, semaphores and tasks; that no task is dispatched twice  *)
(* at a time, by its ref or by its lock label; and the bound on the        *)
(* dispatches of a task that keeps failing, for any number of slots.       *)
(***************************************************************************)
EXTENDS WorkPool, FiniteSetTheorems, TLAPS

Has(todo, step) == \E n \in 1 .. Len(todo) : todo[n] = step

\* The rest of a cleanup: no step comes twice, a failure is recorded by those that leave
\* the item in the queue only, and the label call comes first when it is due.
CleanupOK(todo) ==
    /\ todo \in Seq(CleanSteps)
    /\ \A m, n \in 1 .. Len(todo) : todo[m] = todo[n] => m = n
    /\ Has(todo, "recordFailure") => ~ Has(todo, "dequeue") /\ ~ Has(todo, "recordSuccess")
    /\ Has(todo, "label") =>
         /\ todo[1] = "label"
         /\ ~ Has(todo, "recordFailure") /\ ~ Has(todo, "dequeue") /\ ~ Has(todo, "recordSuccess")

\* The loop holds the slot of the candidate it claims, and no other.
LoopHolds ==
    IF loop.at \in {"claim", "mark"}
    THEN /\ loop.task \in loop.todo
         /\ loop.slot \in Slots /\ Pool[loop.slot] = PoolOf(Kind(loop.task))
    ELSE loop.slot = None

\* A dispatch has a task, and steps to go while it cleans up.
SlotHolds(s) ==
    /\ slot[s].at \in {"prep", "run", "clean"} => slot[s].task \in Tasks
    /\ slot[s].at \in {"free", "taken"} => slot[s].task = None
    /\ slot[s].at = "clean" => slot[s].todo # << >> /\ CleanupOK(slot[s].todo)

Typed == TypeOK /\ LoopHolds /\ \A s \in Slots : SlotHolds(s)

-----------------------------------------------------------------------------
(* Cleanups.                                                               *)

Exits == {"unready", "fail", "guard", "retry", "blocked", "ok"}

LEMMA TupleOf2 ==
    ASSUME NEW a, NEW b
    PROVE  /\ Len(<<a, b>>) = 2 /\ <<a, b>>[1] = a /\ <<a, b>>[2] = b
OBVIOUS

LEMMA TupleOf3 ==
    ASSUME NEW a, NEW b, NEW c
    PROVE  /\ Len(<<a, b, c>>) = 3
           /\ <<a, b, c>>[1] = a /\ <<a, b, c>>[2] = b /\ <<a, b, c>>[3] = c
OBVIOUS

LEMMA TupleOf4 ==
    ASSUME NEW a, NEW b, NEW c, NEW d
    PROVE  /\ Len(<<a, b, c, d>>) = 4
           /\ <<a, b, c, d>>[1] = a /\ <<a, b, c, d>>[2] = b
           /\ <<a, b, c, d>>[3] = c /\ <<a, b, c, d>>[4] = d
OBVIOUS

LEMMA TupleOf5 ==
    ASSUME NEW a, NEW b, NEW c, NEW d, NEW e
    PROVE  /\ Len(<<a, b, c, d, e>>) = 5
           /\ <<a, b, c, d, e>>[1] = a /\ <<a, b, c, d, e>>[2] = b
           /\ <<a, b, c, d, e>>[3] = c /\ <<a, b, c, d, e>>[4] = d
           /\ <<a, b, c, d, e>>[5] = e
OBVIOUS

LEMMA CleanupsOK ==
    ASSUME NEW kind \in Kinds, NEW exit \in Exits
    PROVE  /\ CleanupOK(Cleanup(kind, exit)) /\ Cleanup(kind, exit) # << >>
           /\ exit # "retry" =>
                Has(Cleanup(kind, exit), "recordFailure") \/ Has(Cleanup(kind, exit), "dequeue")
           /\ ~ Has(Cleanup(kind, exit), "label")
<1>1. PICK todo : todo = Cleanup(kind, exit)
  OBVIOUS
<1>2. \/ todo = <<"unmark", "release", "recordFailure">>
      \/ todo = <<"unmark", "release", "recordFailure", "remove">>
      \/ todo = <<"release", "unmark", "dequeue">>
      \/ todo = <<"unmark", "release">> /\ exit = "retry"
      \/ todo = <<"unmark", "dequeue", "release", "remove">>
      \/ todo = <<"dequeue", "unmark", "release">>
      \/ todo = <<"recordSuccess", "unmark", "dequeue", "release", "remove">>
      \/ todo = <<"unmark", "dequeue", "recordSuccess", "release", "remove">>
      \/ todo = <<"unmark", "dequeue", "recordSuccess", "remove">>
  BY <1>1 DEF Cleanup, Exits, Kinds
<1>3. 1 .. 2 = {1, 2} /\ 1 .. 3 = {1, 2, 3} /\ 1 .. 4 = {1, 2, 3, 4} /\ 1 .. 5 = {1, 2, 3, 4, 5}
  OBVIOUS
<1>4. todo \in Seq(CleanSteps) /\ todo # << >>
  <2>1. /\ "unmark" \in CleanSteps /\ "dequeue" \in CleanSteps /\ "release" \in CleanSteps
        /\ "recordFailure" \in CleanSteps /\ "recordSuccess" \in CleanSteps
        /\ "remove" \in CleanSteps
    BY DEF CleanSteps
  <2>2. \A a, b, c, d, e \in CleanSteps :
          /\ <<a, b>> \in Seq(CleanSteps) /\ <<a, b, c>> \in Seq(CleanSteps)
          /\ <<a, b, c, d>> \in Seq(CleanSteps) /\ <<a, b, c, d, e>> \in Seq(CleanSteps)
          /\ <<a, b>> # << >> /\ <<a, b, c>> # << >>
          /\ <<a, b, c, d>> # << >> /\ <<a, b, c, d, e>> # << >>
    OBVIOUS
  <2>3. CASE \E a, b, c \in CleanSteps : todo = <<a, b>> \/ todo = <<a, b, c>>
    BY <2>2, <2>3
  <2>4. CASE \E a, b, c, d \in CleanSteps : todo = <<a, b, c, d>>
    BY <2>2, <2>4
  <2>5. CASE \E a, b, c, d, e \in CleanSteps : todo = <<a, b, c, d, e>>
    BY <2>2, <2>5
  <2>6. CASE todo = <<"unmark", "release", "recordFailure">> \/ todo = <<"release", "unmark", "dequeue">>
             \/ todo = <<"dequeue", "unmark", "release">> \/ todo = <<"unmark", "release">>
    BY <2>1, <2>3, <2>6
  <2>7. CASE todo = <<"unmark", "release", "recordFailure", "remove">>
    BY <2>1, <2>4, <2>7
  <2>8. CASE todo = <<"unmark", "dequeue", "release", "remove">>
    BY <2>1, <2>4, <2>8
  <2>9. CASE todo = <<"unmark", "dequeue", "recordSuccess", "remove">>
    BY <2>1, <2>4, <2>9
  <2>10. CASE todo = <<"recordSuccess", "unmark", "dequeue", "release", "remove">>
    BY <2>1, <2>5, <2>10
  <2>11. CASE todo = <<"unmark", "dequeue", "recordSuccess", "release", "remove">>
    BY <2>1, <2>5, <2>11
  <2> QED BY <1>2, <2>6, <2>7, <2>8, <2>9, <2>10, <2>11
<1>5. /\ \A m, n \in 1 .. Len(todo) : todo[m] = todo[n] => m = n
      /\ Has(todo, "recordFailure") => ~ Has(todo, "dequeue") /\ ~ Has(todo, "recordSuccess")
      /\ ~ Has(todo, "label")
      /\ exit # "retry" => Has(todo, "recordFailure") \/ Has(todo, "dequeue")
  <2>1. CASE todo = <<"unmark", "release", "recordFailure">>
    BY <1>3, <2>1, TupleOf3 DEF Has
  <2>2. CASE todo = <<"unmark", "release", "recordFailure", "remove">>
    BY <1>3, <2>2, TupleOf4 DEF Has
  <2>3. CASE todo = <<"release", "unmark", "dequeue">>
    BY <1>3, <2>3, TupleOf3 DEF Has
  <2>4. CASE todo = <<"unmark", "release">> /\ exit = "retry"
    BY <1>3, <2>4, TupleOf2 DEF Has
  <2>5. CASE todo = <<"unmark", "dequeue", "release", "remove">>
    BY <1>3, <2>5, TupleOf4 DEF Has
  <2>6. CASE todo = <<"dequeue", "unmark", "release">>
    BY <1>3, <2>6, TupleOf3 DEF Has
  <2>7. CASE todo = <<"recordSuccess", "unmark", "dequeue", "release", "remove">>
    BY <1>3, <2>7, TupleOf5 DEF Has
  <2>8. CASE todo = <<"unmark", "dequeue", "recordSuccess", "release", "remove">>
    BY <1>3, <2>8, TupleOf5 DEF Has
  <2>9. CASE todo = <<"unmark", "dequeue", "recordSuccess", "remove">>
    BY <1>3, <2>9, TupleOf4 DEF Has
  <2> QED BY <1>2, <2>1, <2>2, <2>3, <2>4, <2>5, <2>6, <2>7, <2>8, <2>9
<1> QED BY <1>1, <1>4, <1>5 DEF CleanupOK

LEMMA TailIndices ==
    ASSUME NEW S, NEW todo \in Seq(S), todo # << >>
    PROVE  /\ Tail(todo) \in Seq(S) /\ Head(todo) = todo[1] /\ todo[1] \in S
           /\ Len(todo) \in Nat \ {0} /\ Len(Tail(todo)) = Len(todo) - 1
           /\ \A n \in 1 .. Len(todo) - 1 : Tail(todo)[n] = todo[n + 1]
OBVIOUS

\* What a step takes off the rest of its cleanup.
LEMMA TailOK ==
    ASSUME NEW todo, CleanupOK(todo), todo # << >>
    PROVE  /\ CleanupOK(Tail(todo))
           /\ Head(todo) = todo[1] /\ todo[1] \in CleanSteps
           /\ Has(todo, todo[1]) /\ ~ Has(Tail(todo), todo[1])
           /\ \A step : step # todo[1] => (Has(Tail(todo), step) <=> Has(todo, step))
           /\ ~ Has(Tail(todo), "label")
<1>1. PICK k \in Nat : k = Len(todo) - 1
  BY TailIndices DEF CleanupOK
<1> DEFINE rest == Tail(todo)
<1>2. /\ rest \in Seq(CleanSteps) /\ Head(todo) = todo[1] /\ todo[1] \in CleanSteps
      /\ Len(todo) = k + 1 /\ Len(rest) = k
      /\ \A n \in 1 .. k : rest[n] = todo[n + 1]
  BY <1>1, TailIndices DEF CleanupOK
<1> HIDE DEF rest
<1>3. \A m, n \in 1 .. k + 1 : todo[m] = todo[n] => m = n
  BY <1>2 DEF CleanupOK
<1>4. \A m, n \in 1 .. k : rest[m] = rest[n] => m = n
  <2> SUFFICES ASSUME NEW m \in 1 .. k, NEW n \in 1 .. k, rest[m] = rest[n] PROVE m = n
    OBVIOUS
  <2>1. m + 1 \in 1 .. k + 1 /\ n + 1 \in 1 .. k + 1 /\ todo[m + 1] = todo[n + 1]
    BY <1>2
  <2>2. m + 1 = n + 1
    BY <1>3, <2>1
  <2> QED BY <2>2
<1>5. ~ Has(rest, todo[1])
  <2> SUFFICES ASSUME NEW n \in 1 .. k, rest[n] = todo[1] PROVE FALSE
    BY <1>2 DEF Has
  <2>1. n + 1 \in 1 .. k + 1 /\ 1 \in 1 .. k + 1 /\ todo[n + 1] = todo[1]
    BY <1>2
  <2>2. n + 1 = 1
    BY <1>3, <2>1
  <2> QED BY <2>2
<1>6. ASSUME NEW step, Has(rest, step) PROVE Has(todo, step)
  <2>1. PICK n \in 1 .. k : rest[n] = step
    BY <1>2, <1>6 DEF Has
  <2>2. n + 1 \in 1 .. k + 1 /\ todo[n + 1] = step
    BY <1>2, <2>1
  <2> QED BY <1>2, <2>2 DEF Has
<1>7. ASSUME NEW step, step # todo[1], Has(todo, step) PROVE Has(rest, step)
  <2>1. PICK n \in 1 .. k + 1 : todo[n] = step
    BY <1>2, <1>7 DEF Has
  <2>2. PICK m \in 1 .. k : n = m + 1
    <3>1. n # 1
      BY <1>7, <2>1
    <3>2. n - 1 \in 1 .. k /\ n = (n - 1) + 1
      BY <3>1
    <3> QED BY <3>2
  <2> QED BY <1>2, <2>1, <2>2 DEF Has
<1>8. Has(todo, todo[1])
  BY <1>2 DEF Has
<1>9. ~ Has(rest, "label")
  BY <1>5, <1>6 DEF CleanupOK
<1>10. CleanupOK(rest)
  BY <1>2, <1>4, <1>6, <1>9 DEF CleanupOK
<1> QED BY <1>2, <1>5, <1>6, <1>7, <1>8, <1>9, <1>10 DEF rest

\* The label call takes the place of the failure that is recorded.
LEMMA LabelFirst ==
    ASSUME NEW todo, CleanupOK(todo), todo # << >>, todo[1] = "recordFailure"
    PROVE  /\ CleanupOK(<<"label">> \o Tail(todo)) /\ <<"label">> \o Tail(todo) # << >>
           /\ Has(<<"label">> \o Tail(todo), "label")
           /\ \A step : step # "label" => (Has(<<"label">> \o Tail(todo), step) => Has(Tail(todo), step))
<1> DEFINE rest == Tail(todo)
           new  == <<"label">> \o rest
<1>1. /\ CleanupOK(rest) /\ ~ Has(rest, "recordFailure") /\ ~ Has(rest, "label")
      /\ ~ Has(rest, "dequeue") /\ ~ Has(rest, "recordSuccess")
  BY TailOK DEF CleanupOK
<1>2. rest \in Seq(CleanSteps) /\ \A m, n \in 1 .. Len(rest) : rest[m] = rest[n] => m = n
  BY <1>1 DEF CleanupOK
<1> HIDE DEF rest
<1>3. PICK k \in Nat : k = Len(rest)
  BY <1>2
<1>4. /\ new \in Seq(CleanSteps) /\ Len(new) = k + 1 /\ new[1] = "label" /\ new # << >>
      /\ \A n \in 2 .. k + 1 : new[n] = rest[n - 1]
  <2>1. <<"label">> \in Seq(CleanSteps) /\ Len(<<"label">>) = 1 /\ <<"label">>[1] = "label"
    BY DEF CleanSteps
  <2> QED BY <1>2, <1>3, <2>1
<1> HIDE DEF new
<1>5. \A n \in 2 .. k + 1 : n - 1 \in 1 .. k
  OBVIOUS
<1>6. ASSUME NEW step, step # "label", Has(new, step) PROVE Has(rest, step)
  <2>1. PICK n \in 1 .. k + 1 : new[n] = step
    BY <1>4, <1>6 DEF Has
  <2>2. n \in 2 .. k + 1
    BY <1>4, <1>6, <2>1
  <2> QED BY <1>3, <1>4, <1>5, <2>1, <2>2 DEF Has
<1>7. \A m \in 2 .. k + 1 : new[m] # "label"
  BY <1>1, <1>3, <1>4, <1>5 DEF Has
<1>8. ASSUME NEW m \in 1 .. k + 1, NEW n \in 1 .. k + 1, new[m] = new[n] PROVE m = n
  <2>1. CASE m = 1 \/ n = 1
    <3>1. \A l \in 1 .. k + 1 : l # 1 => l \in 2 .. k + 1
      OBVIOUS
    <3> QED BY <1>4, <1>7, <1>8, <2>1, <3>1
  <2>2. CASE m # 1 /\ n # 1
    <3>1. m \in 2 .. k + 1 /\ n \in 2 .. k + 1 /\ rest[m - 1] = rest[n - 1]
      BY <1>4, <1>8, <2>2
    <3>2. m - 1 = n - 1
      BY <1>2, <1>3, <1>5, <3>1
    <3> QED BY <3>2
  <2> QED BY <2>1, <2>2
<1>9. Has(new, "label")
  BY <1>4 DEF Has
<1>10. CleanupOK(new)
  BY <1>1, <1>4, <1>6, <1>8 DEF CleanupOK
<1> QED BY <1>4, <1>6, <1>9, <1>10 DEF new, rest

-----------------------------------------------------------------------------
(* Every reachable state is well typed, and loop, slots and semaphores     *)
(* agree on who holds what.                                                *)

RestOK ==
    /\ queueLabel \subseteq Tasks /\ lockLabel \subseteq Tasks /\ lockRefs \subseteq Tasks
    /\ quarantined \subseteq {Number(t) : t \in Tasks} /\ blocked \subseteq Tasks
    /\ counts \in [Tasks -> 0 .. Threshold] /\ labeled \subseteq Tasks
    /\ worktree \in [Tasks -> Slots \cup {None}]
    /\ tries \in [Tasks -> Nat] /\ failures \in 0 .. MaxFailures /\ helps \in 0 .. MaxHelps

LEMMA SchedulersTyped ==
    /\ DOMAIN Schedulers = 1 .. Len(Schedulers) /\ Len(Schedulers) \in Nat \ {0}
    /\ \A k \in DOMAIN Schedulers : Schedulers[k] \in Kinds
BY TasksAssumption

LEMMA InitTyped == Init => Typed
<1> SUFFICES ASSUME Init PROVE Typed
  OBVIOUS
<1>1. loop = LoopAt(1) /\ slot = [s \in Slots |-> FreeSlot]
  BY DEF Init
<1>2. 1 \in DOMAIN Schedulers
  BY SchedulersTyped
<1>3. loop \in LoopStates /\ loop.at = "list" /\ loop.slot = None
  BY <1>1, <1>2 DEF LoopAt, LoopStates
<1>4. << >> \in Seq(CleanSteps)
  OBVIOUS
<1>5. FreeSlot \in SlotStates /\ FreeSlot.at = "free" /\ FreeSlot.task = None
  BY <1>4 DEF FreeSlot, SlotStates
<1>6. RestOK
  BY TasksAssumption, BoundsAssumption DEF Init, RestOK
<1>7. TypeOK
  BY <1>1, <1>3, <1>5, <1>6 DEF TypeOK, RestOK
<1> QED BY <1>1, <1>3, <1>5, <1>7 DEF Typed, LoopHolds, SlotHolds

LEMMA RestTyped == Typed => RestOK
BY DEF Typed, TypeOK, RestOK

LEMMA SameProcesses ==
    ASSUME Typed, RestOK', loop' = loop, slot' = slot
    PROVE  Typed'
BY DEF Typed, TypeOK, RestOK, LoopHolds, SlotHolds, CleanupOK, Has

LEMMA SlotKept ==
    ASSUME Typed, NEW r \in Slots, slot'[r] = slot[r]
    PROVE  SlotHolds(r)'
BY DEF Typed, SlotHolds, CleanupOK, Has

LEMMA CallTyped ==
    ASSUME RestOK, NEW call, NEW answer, Call(call, answer)
    PROVE  failures' \in 0 .. MaxFailures
BY BoundsAssumption DEF RestOK, Call

LEMMA FreeSlotTyped ==
    FreeSlot \in SlotStates /\ FreeSlot.at = "free" /\ FreeSlot.task = None
<1>1. << >> \in Seq(CleanSteps)
  OBVIOUS
<1> QED BY <1>1 DEF FreeSlot, SlotStates

\* A dispatch goes on, or gives its slot back.
LEMMA DispatchMoves ==
    ASSUME Typed, RestOK', loop' = loop,
           NEW s \in Slots, slot[s].at \in {"prep", "run", "clean"},
           NEW t \in SlotStates, slot' = [slot EXCEPT ![s] = t],
           \/ t.at = "free" /\ t.task = None
           \/ /\ t.at \in {"run", "clean"} /\ t.task = slot[s].task
              /\ t.at = "clean" => t.todo # << >> /\ CleanupOK(t.todo)
    PROVE  Typed'
<1>1. slot'[s] = t /\ \A r \in Slots \ {s} : slot'[r] = slot[r]
  BY DEF Typed, TypeOK
<1>2. slot' \in [Slots -> SlotStates]
  BY DEF Typed, TypeOK
<1>3. loop.slot # s
  BY SlotsAssumption DEF Typed, TypeOK
<1>4. loop'.slot # None => loop'.slot \in Slots /\ slot'[loop'.slot].at = "taken"
  BY <1>1, <1>3 DEF Typed, TypeOK, LoopStates
<1>5. ASSUME NEW r \in Slots
      PROVE  /\ slot'[r].at = "taken" => loop'.slot = r
             /\ slot'[r].at \in {"prep", "run", "clean"} => PoolOf(Kind(slot'[r].task)) = Pool[r]
             /\ SlotHolds(r)'
  <2>1. CASE r = s
    BY <1>1, <2>1 DEF Typed, TypeOK, SlotHolds, CleanupOK, Has
  <2>2. CASE r # s
    BY <1>1, <2>2 DEF Typed, TypeOK, SlotHolds, CleanupOK, Has
  <2> QED BY <2>1, <2>2
<1>6. LoopHolds'
  BY DEF Typed, LoopHolds
<1>7. TypeOK'
  BY <1>2, <1>4, <1>5 DEF Typed, TypeOK, RestOK
<1> QED BY <1>5, <1>6, <1>7 DEF Typed

\* What Rest makes of the slot.
LEMMA RestMoves ==
    ASSUME Typed, NEW s \in Slots, slot[s].at = "clean", NEW todo, CleanupOK(todo), Rest(s, todo)
    PROVE  \E t \in SlotStates :
             /\ slot' = [slot EXCEPT ![s] = t]
             /\ todo = << >> => t.at = "free" /\ t.task = None
             /\ todo # << >> => t.at = "clean" /\ t.task = slot[s].task /\ t.todo = todo
<1>1. slot[s] \in SlotStates
  BY DEF Typed, TypeOK
<1>2. CASE todo = << >>
  BY <1>2, FreeSlotTyped DEF Rest
<1>3. CASE todo # << >>
  <2> DEFINE t == [slot[s] EXCEPT !.todo = todo]
  <2>1. t \in SlotStates /\ t.at = "clean" /\ t.task = slot[s].task /\ t.todo = todo
    BY <1>1 DEF SlotStates, CleanupOK
  <2>2. slot' = [slot EXCEPT ![s] = t]
    BY <1>3 DEF Rest
  <2> QED BY <1>3, <2>1, <2>2
<1> QED BY <1>2, <1>3

LEMMA RestStepTyped ==
    ASSUME Typed, RestOK', loop' = loop, NEW s \in Slots, slot[s].at = "clean",
           NEW todo, CleanupOK(todo), Rest(s, todo)
    PROVE  Typed'
BY RestMoves, DispatchMoves

LEMMA ConcludeMoves ==
    ASSUME Typed, NEW s \in Slots, slot[s].at \in {"prep", "run"},
           NEW exit \in Exits, Conclude(s, exit)
    PROVE  /\ Kind(slot[s].task) \in Kinds
           /\ \E t \in SlotStates :
                /\ slot' = [slot EXCEPT ![s] = t]
                /\ t.at = "clean" /\ t.task = slot[s].task
                /\ t.todo = Cleanup(Kind(slot[s].task), exit)
                /\ t.todo # << >> /\ CleanupOK(t.todo)
<1>1. slot[s] \in SlotStates /\ slot[s].task \in Tasks
  BY DEF Typed, TypeOK, SlotHolds
<1>2. Kind(slot[s].task) \in Kinds
  BY <1>1, TasksAssumption DEF Kind
<1>3. PICK todo : todo = Cleanup(Kind(slot[s].task), exit)
  OBVIOUS
<1>4. CleanupOK(todo) /\ todo # << >>
  BY <1>2, <1>3, CleanupsOK
<1> DEFINE t == [slot[s] EXCEPT !.at = "clean", !.todo = todo]
<1>5. t \in SlotStates /\ t.at = "clean" /\ t.task = slot[s].task /\ t.todo = todo
  BY <1>1, <1>4 DEF SlotStates, CleanupOK
<1>6. slot' = [slot EXCEPT ![s] = t]
  BY <1>1, <1>3 DEF Conclude, Typed, TypeOK
<1> QED BY <1>2, <1>3, <1>4, <1>5, <1>6

LEMMA DispatchTyped ==
    ASSUME Typed, NEW s \in Slots,
           \/ Prepare(s)
           \/ \E exit \in {"unready", "fail", "guard", "retry", "ok"} : EndEarly(s, exit)
           \/ \E exit \in {"ok", "fail", "blocked"} : EndLate(s, exit)
    PROVE  Typed'
<1>1. RestOK
  BY RestTyped
<1>2. slot[s] \in SlotStates
  BY DEF Typed, TypeOK
<1>3. CASE Prepare(s)
  <2>1. RestOK'
    BY <1>1, <1>3 DEF Prepare, RestOK, github, quarantine, bounds
  <2> DEFINE t == [slot[s] EXCEPT !.at = "run"]
  <2>2. t \in SlotStates /\ t.at = "run" /\ t.task = slot[s].task
    BY <1>2 DEF SlotStates
  <2>3. slot' = [slot EXCEPT ![s] = t] /\ loop' = loop /\ slot[s].at = "prep"
    BY <1>3 DEF Prepare
  <2> HIDE DEF t
  <2> QED BY <2>1, <2>2, <2>3, DispatchMoves
<1>4. CASE \E exit \in {"unready", "fail", "guard", "retry", "ok"} : EndEarly(s, exit)
  <2>1. PICK exit \in {"unready", "fail", "guard", "retry", "ok"} : EndEarly(s, exit)
    BY <1>4
  <2>2. \/ worktree' = worktree
        \/ \E owner \in Slots \cup {None} : worktree' = [worktree EXCEPT ![slot[s].task] = owner]
    BY <2>1 DEF EndEarly
  <2>3. RestOK'
    BY <1>1, <2>1, <2>2 DEF EndEarly, RestOK, github, quarantine, bounds
  <2>4. slot[s].at = "prep" /\ Conclude(s, exit) /\ loop' = loop /\ exit \in Exits
    BY <2>1 DEF EndEarly, Exits
  <2> QED BY <2>3, <2>4, ConcludeMoves, DispatchMoves
<1>5. CASE \E exit \in {"ok", "fail", "blocked"} : EndLate(s, exit)
  <2>1. PICK exit \in {"ok", "fail", "blocked"} : EndLate(s, exit)
    BY <1>5
  <2>2. RestOK'
    BY <1>1, <2>1 DEF EndLate, RestOK, github, quarantine, bounds
  <2>3. slot[s].at = "run" /\ Conclude(s, exit) /\ loop' = loop /\ exit \in Exits
    BY <2>1 DEF EndLate, Exits
  <2> QED BY <2>2, <2>3, ConcludeMoves, DispatchMoves
<1> QED BY <1>3, <1>4, <1>5

LEMMA NothingLeft ==
    CleanupOK(<< >>) /\ \A step : ~ Has(<< >>, step)
BY DEF CleanupOK, Has

\* What a step of a cleanup finds.
LEMMA DoingOK ==
    ASSUME Typed, NEW s \in Slots, NEW step, Doing(s, step)
    PROVE  /\ slot[s].at = "clean" /\ slot[s].task \in Tasks
           /\ slot[s].todo # << >> /\ CleanupOK(slot[s].todo)
           /\ slot[s].todo[1] = step /\ CleanupOK(Tail(slot[s].todo))
BY TailOK DEF Doing, Typed, SlotHolds

\* What NoteFailure leaves to do.
AfterFailure(s) ==
    IF ShouldLabel(slot[s].task) THEN <<"label">> \o Tail(slot[s].todo) ELSE Tail(slot[s].todo)

LEMMA AfterFailureOK ==
    ASSUME Typed, NEW s \in Slots, Doing(s, "recordFailure")
    PROVE  CleanupOK(AfterFailure(s))
BY DoingOK, LabelFirst DEF AfterFailure

LEMMA FailureRest ==
    ASSUME Typed, NEW s \in Slots, Doing(s, "recordFailure")
    PROVE  /\ Has(slot[s].todo, "recordFailure") /\ ~ Has(slot[s].todo, "recordSuccess")
           /\ ~ Has(slot[s].todo, "dequeue") /\ ~ Has(slot[s].todo, "label")
           /\ \A step : step # "label" => (Has(AfterFailure(s), step) => Has(slot[s].todo, step))
           /\ ~ Has(AfterFailure(s), "recordFailure")
           /\ Has(AfterFailure(s), "label") <=> ShouldLabel(slot[s].task)
<1>1. /\ slot[s].todo # << >> /\ CleanupOK(slot[s].todo) /\ slot[s].todo[1] = "recordFailure"
  BY DoingOK
<1>2. /\ Has(slot[s].todo, "recordFailure") /\ ~ Has(Tail(slot[s].todo), "recordFailure")
      /\ ~ Has(Tail(slot[s].todo), "label")
      /\ \A step : Has(Tail(slot[s].todo), step) => Has(slot[s].todo, step)
  BY <1>1, TailOK
<1>3. ~ Has(slot[s].todo, "recordSuccess") /\ ~ Has(slot[s].todo, "dequeue")
      /\ ~ Has(slot[s].todo, "label")
  BY <1>1, <1>2 DEF CleanupOK
<1>4. CASE ShouldLabel(slot[s].task)
  BY <1>1, <1>2, <1>3, <1>4, LabelFirst DEF AfterFailure
<1>5. CASE ~ ShouldLabel(slot[s].task)
  BY <1>2, <1>3, <1>5 DEF AfterFailure
<1> QED BY <1>4, <1>5

LEMMA CleanupTyped ==
    ASSUME Typed, NEW s \in Slots,
           \/ Unmark(s) \/ Dequeue(s) \/ Release(s) \/ RecordSuccess(s) \/ NoteFailure(s)
           \/ LabelQuarantine(s) \/ RemoveWorktree(s)
    PROVE  Typed'
<1>1. RestOK
  BY RestTyped
<1>2. ASSUME NEW step, Doing(s, step), Done(s), loop' = loop, RestOK' PROVE Typed'
  BY <1>2, DoingOK, RestStepTyped DEF Done
<1>3. ASSUME NEW call, NEW answer, Call(call, answer) PROVE failures' \in 0 .. MaxFailures
  BY <1>1, <1>3, CallTyped
<1>4. ASSUME tries' = tries \/ tries' = [tries EXCEPT ![slot[s].task] = 0]
      PROVE  tries' \in [Tasks -> Nat]
  BY <1>1, <1>4 DEF RestOK
<1>5. CASE Unmark(s)
  <2>1. failures' \in 0 .. MaxFailures /\ lockLabel' \subseteq Tasks
    BY <1>1, <1>3, <1>5 DEF Unmark, RestOK
  <2>2. RestOK'
    BY <1>1, <1>5, <2>1 DEF Unmark, RestOK, quarantine
  <2> QED BY <1>2, <1>5, <2>2 DEF Unmark
<1>9. CASE Dequeue(s)
  <2>1. failures' \in 0 .. MaxFailures /\ queueLabel' \subseteq Tasks /\ tries' \in [Tasks -> Nat]
    BY <1>1, <1>3, <1>4, <1>9 DEF Dequeue, RestOK
  <2>2. RestOK'
    BY <1>1, <1>9, <2>1 DEF Dequeue, RestOK, quarantine
  <2> QED BY <1>2, <1>9, <2>2 DEF Dequeue
<1>10. CASE Release(s)
  <2>1. failures' \in 0 .. MaxFailures /\ lockRefs' \subseteq Tasks /\ tries' \in [Tasks -> Nat]
    BY <1>1, <1>3, <1>4, <1>10 DEF Release, RestOK
  <2>2. RestOK'
    BY <1>1, <1>10, <2>1 DEF Release, RestOK, quarantine
  <2>3. Doing(s, "release") /\ loop' = loop /\ (Done(s) \/ Rest(s, << >>))
    BY <1>10 DEF Release
  <2> QED BY <1>2, <2>2, <2>3, DoingOK, NothingLeft, RestStepTyped
<1>11. CASE RecordSuccess(s)
  <2>1. 0 \in 0 .. Threshold
    BY BoundsAssumption
  <2>2. tries' \in [Tasks -> Nat]
    BY <1>4, <1>11 DEF RecordSuccess
  <2>3. RestOK'
    BY <1>1, <1>11, <2>1, <2>2 DEF RecordSuccess, ClearRecord, RestOK, github, bounds
  <2> QED BY <1>2, <1>11, <2>3 DEF RecordSuccess
<1>6. CASE NoteFailure(s)
  <2>1. slot[s].task \in Tasks /\ slot[s].at = "clean" /\ CleanupOK(AfterFailure(s))
    BY <1>6, DoingOK, AfterFailureOK DEF NoteFailure
  <2>2. Rest(s, AfterFailure(s)) /\ loop' = loop
    BY <1>6 DEF NoteFailure, AfterFailure
  <2>3. counts' \in [Tasks -> 0 .. Threshold] /\ labeled' \subseteq Tasks
    BY <1>1, <1>6, <2>1, BoundsAssumption DEF NoteFailure, RecordFailure, RestOK
  <2>4. RestOK'
    BY <1>1, <1>6, <2>3 DEF NoteFailure, RestOK, github, bounds
  <2> QED BY <2>1, <2>2, <2>4, RestStepTyped
<1>7. CASE LabelQuarantine(s)
  <2>1. slot[s].task \in Tasks
    BY <1>7, DoingOK DEF LabelQuarantine
  <2>2. failures' \in 0 .. MaxFailures
    BY <1>1, <1>7, CallTyped DEF LabelQuarantine
  <2>3. quarantined' \subseteq {Number(t) : t \in Tasks}
    BY <1>1, <1>7, <2>1 DEF LabelQuarantine, RestOK
  <2>4. tries' \in [Tasks -> Nat]
    <3>1. tries' = tries \/ tries' = [tries EXCEPT ![slot[s].task] = 0]
      BY <1>7 DEF LabelQuarantine
    <3> QED BY <1>1, <3>1 DEF RestOK
  <2>5. RestOK'
    BY <1>1, <1>7, <2>2, <2>3, <2>4 DEF LabelQuarantine, RestOK, quarantine
  <2> QED BY <1>2, <1>7, <2>5 DEF LabelQuarantine
<1>8. CASE RemoveWorktree(s)
  <2>1. RestOK'
    BY <1>1, <1>8 DEF RemoveWorktree, RestOK, github, quarantine, bounds
  <2> QED BY <1>2, <1>8, <2>1 DEF RemoveWorktree
<1> QED BY <1>5, <1>6, <1>7, <1>8, <1>9, <1>10, <1>11

LEMMA NextSchedulerTyped ==
    ASSUME Typed
    PROVE  /\ NextScheduler \in LoopStates
           /\ NextScheduler.at = "list" /\ NextScheduler.slot = None
           /\ NextScheduler.todo = {} /\ NextScheduler.task = None
<1>1. loop.sched \in 1 .. Len(Schedulers)
  BY SchedulersTyped DEF Typed, TypeOK, LoopStates
<1> DEFINE k == IF loop.sched = Len(Schedulers) THEN 1 ELSE loop.sched + 1
<1>2. k \in DOMAIN Schedulers
  BY <1>1, SchedulersTyped
<1>3. NextScheduler = LoopAt(k)
  BY DEF NextScheduler
<1> HIDE DEF k
<1> QED BY <1>2, <1>3 DEF LoopAt, LoopStates

LEMMA SkipTyped ==
    ASSUME Typed
    PROVE  /\ Skip \in LoopStates /\ Skip.at = "pick" /\ Skip.slot = None
           /\ Skip.todo = loop.todo \ {loop.task} /\ Skip.task = None
<1>1. loop \in LoopStates
  BY DEF Typed, TypeOK
<1> QED BY <1>1 DEF Skip, LoopStates

\* The loop gives its slot to a dispatch or back, if it had one.
LEMMA LoopLetsGo ==
    ASSUME Typed, RestOK', loop' \in LoopStates, loop'.at \in {"list", "pick"}, loop'.slot = None,
           \/ loop.at \in {"list", "pick"} /\ slot' = slot
           \/ /\ loop.at \in {"claim", "mark"}
              /\ \E t \in SlotStates :
                   /\ slot' = [slot EXCEPT ![loop.slot] = t]
                   /\ \/ t.at = "free" /\ t.task = None
                      \/ t.at = "prep" /\ t.task = loop.task
    PROVE  Typed'
<1>1. slot' \in [Slots -> SlotStates]
  BY DEF Typed, TypeOK, LoopHolds
<1>2. ASSUME NEW r \in Slots
      PROVE  /\ slot'[r].at # "taken"
             /\ slot'[r].at \in {"prep", "run", "clean"} => PoolOf(Kind(slot'[r].task)) = Pool[r]
             /\ SlotHolds(r)'
  <2>1. CASE r # loop.slot
    <3>1. slot'[r] = slot[r]
      BY <2>1 DEF Typed, TypeOK
    <3> QED BY <2>1, <3>1, SlotKept DEF Typed, TypeOK
  <2>2. CASE r = loop.slot
    <3>1. loop.at \in {"claim", "mark"}
      BY <2>2, SlotsAssumption DEF Typed, LoopHolds, TypeOK, LoopStates
    <3>2. PICK t \in SlotStates :
            /\ slot'[r] = t
            /\ \/ t.at = "free" /\ t.task = None
               \/ t.at = "prep" /\ t.task = loop.task
      BY <2>2, <3>1 DEF Typed, TypeOK
    <3>3. loop.task \in Tasks /\ PoolOf(Kind(loop.task)) = Pool[r]
      BY <2>2, <3>1 DEF Typed, LoopHolds, TypeOK, LoopStates
    <3> QED BY <3>2, <3>3 DEF SlotHolds
  <2> QED BY <2>1, <2>2
<1>3. LoopHolds'
  BY DEF LoopHolds
<1>4. TypeOK'
  BY <1>1, <1>2 DEF TypeOK, RestOK
<1> QED BY <1>2, <1>3, <1>4 DEF Typed

LEMMA ListTyped ==
    ASSUME Typed, List \/ TickEnd
    PROVE  Typed'
<1>1. loop.at \in {"list", "pick"} /\ slot' = slot
  BY DEF List, TickEnd
<1>2. loop' \in LoopStates /\ loop'.at \in {"list", "pick"} /\ loop'.slot = None
  <2>1. CASE loop' = NextScheduler
    BY <2>1, NextSchedulerTyped
  <2>2. CASE List /\ loop' # NextScheduler
    <3>1. loop' = [loop EXCEPT !.at = "pick", !.todo = Candidates(Schedulers[loop.sched])]
      BY <2>2 DEF List
    <3>2. Candidates(Schedulers[loop.sched]) \subseteq Tasks
      BY DEF Candidates, Typed, TypeOK
    <3>3. loop \in LoopStates /\ loop.slot = None
      BY <1>1 DEF Typed, TypeOK, LoopHolds
    <3> QED BY <3>1, <3>2, <3>3 DEF LoopStates
  <2> QED BY <2>1, <2>2 DEF TickEnd
<1>3. RestOK'
  <2>1. RestOK
    BY RestTyped
  <2>2. CASE TickEnd
    BY <2>1, <2>2 DEF TickEnd, RestOK, github, quarantine, bounds
  <2>3. CASE List
    <3>1. failures' \in 0 .. MaxFailures
      BY <2>1, <2>3, CallTyped DEF List
    <3> QED BY <2>1, <2>3, <3>1 DEF List, RestOK, github, quarantine
  <2> QED BY <2>2, <2>3
<1> QED BY <1>1, <1>2, <1>3, LoopLetsGo

LEMMA ResetIfLabeledTyped ==
    ASSUME RestOK, NEW t \in Tasks, ResetIfLabeled(t)
    PROVE  counts' \in [Tasks -> 0 .. Threshold] /\ labeled' \subseteq Tasks
<1>1. 0 \in 0 .. Threshold
  BY BoundsAssumption
<1> QED BY <1>1 DEF ResetIfLabeled, ClearRecord, RestOK, quarantine

LEMMA PickTyped ==
    ASSUME Typed, Pick
    PROVE  Typed'
<1>1. PICK t \in loop.todo :
        /\ ResetIfLabeled(t)
        /\ \/ loop' = NextScheduler /\ slot' = slot
           \/ \E s \in Free(Kind(t)) :
                /\ loop' = [loop EXCEPT !.at = "claim", !.task = t, !.slot = s]
                /\ slot' = [slot EXCEPT ![s].at = "taken"]
  BY DEF Pick
<1>2. t \in Tasks /\ loop \in LoopStates /\ loop.slot = None /\ loop.at = "pick"
  BY DEF Typed, TypeOK, LoopStates, LoopHolds, Pick
<1>3. RestOK'
  BY <1>1, <1>2, RestTyped, ResetIfLabeledTyped DEF Pick, RestOK, github, bounds
<1>4. CASE loop' = NextScheduler /\ slot' = slot
  BY <1>2, <1>3, <1>4, NextSchedulerTyped, LoopLetsGo
<1>5. ASSUME NEW s \in Free(Kind(t)),
             loop' = [loop EXCEPT !.at = "claim", !.task = t, !.slot = s],
             slot' = [slot EXCEPT ![s].at = "taken"]
      PROVE  Typed'
  <2>1. s \in Slots /\ Pool[s] = PoolOf(Kind(t)) /\ slot[s].at = "free" /\ slot[s] \in SlotStates
    BY DEF Free, Typed, TypeOK
  <2>2. /\ loop' \in LoopStates /\ loop'.at = "claim" /\ loop'.task = t /\ loop'.slot = s
        /\ loop'.todo = loop.todo
    BY <1>2, <1>5, <2>1 DEF LoopStates
  <2>3. /\ slot'[s] \in SlotStates /\ slot'[s].at = "taken" /\ slot'[s].task = slot[s].task
        /\ \A r \in Slots \ {s} : slot'[r] = slot[r]
    BY <1>5, <2>1 DEF SlotStates, Typed, TypeOK
  <2>4. slot' \in [Slots -> SlotStates]
    BY <1>5, <2>3 DEF Typed, TypeOK
  <2>5. ASSUME NEW r \in Slots
        PROVE  /\ slot'[r].at = "taken" => loop'.slot = r
               /\ slot'[r].at \in {"prep", "run", "clean"} => PoolOf(Kind(slot'[r].task)) = Pool[r]
               /\ SlotHolds(r)'
    <3>1. CASE r = s
      BY <2>1, <2>2, <2>3, <3>1 DEF Typed, SlotHolds
    <3>2. CASE r # s
      <4>1. loop.slot # r
        BY <1>2, SlotsAssumption
      <4>2. slot[r].at = "taken" => loop.slot = r
        BY DEF Typed, TypeOK
      <4>3. slot'[r] = slot[r]
        BY <2>3, <3>2
      <4> QED BY <4>1, <4>2, <4>3 DEF Typed, TypeOK, SlotHolds, CleanupOK, Has
    <3> QED BY <3>1, <3>2
  <2>6. LoopHolds'
    BY <2>1, <2>2 DEF LoopHolds
  <2>7. TypeOK'
    BY <1>3, <2>2, <2>3, <2>4, <2>5 DEF TypeOK, RestOK
  <2> QED BY <2>5, <2>6, <2>7 DEF Typed
<1> QED BY <1>1, <1>4, <1>5

\* What a claim makes of loop and slot: won, or given up.
LEMMA ClaimMoves ==
    ASSUME Typed, Claim
    PROVE  \/ /\ loop' = [loop EXCEPT !.at = "mark"] /\ slot' = slot
           \/ /\ loop' = Skip /\ slot' = [slot EXCEPT ![loop.slot] = FreeSlot]
BY DEF Claim

LEMMA ClaimTyped ==
    ASSUME Typed, Claim
    PROVE  Typed'
<1>1. RestOK'
  <2>1. RestOK /\ loop.task \in Tasks
    BY RestTyped DEF Typed, LoopHolds, TypeOK, LoopStates, Claim
  <2>2. failures' \in 0 .. MaxFailures
    BY <2>1, CallTyped DEF Claim
  <2>3. lockRefs' \subseteq Tasks
    BY <2>1 DEF Claim, RestOK
  <2> QED BY <2>1, <2>2, <2>3 DEF Claim, RestOK, quarantine
<1>2. loop.at = "claim" /\ loop \in LoopStates
  BY DEF Claim, Typed, TypeOK
<1>3. CASE loop' = [loop EXCEPT !.at = "mark"] /\ slot' = slot
  <2>1. /\ loop' \in LoopStates /\ loop'.at = "mark" /\ loop'.task = loop.task
        /\ loop'.todo = loop.todo /\ loop'.slot = loop.slot
    BY <1>2, <1>3 DEF LoopStates
  <2>2. LoopHolds'
    BY <1>2, <2>1 DEF Typed, LoopHolds
  <2>3. TypeOK'
    BY <1>1, <1>3, <2>1 DEF Typed, TypeOK, RestOK
  <2> QED BY <1>3, <2>2, <2>3 DEF Typed, SlotHolds, CleanupOK, Has
<1>4. CASE loop' = Skip /\ slot' = [slot EXCEPT ![loop.slot] = FreeSlot]
  BY <1>1, <1>2, <1>4, SkipTyped, FreeSlotTyped, LoopLetsGo
<1> QED BY <1>3, <1>4, ClaimMoves

LEMMA MarkTyped ==
    ASSUME Typed, MarkAndDispatch
    PROVE  Typed'
<1>1. loop.at = "mark" /\ loop.task \in Tasks
  BY DEF MarkAndDispatch, Typed, LoopHolds, TypeOK, LoopStates
<1>2. RestOK'
  <2>1. RestOK
    BY RestTyped
  <2>2. failures' \in 0 .. MaxFailures
    BY <2>1, CallTyped DEF MarkAndDispatch
  <2>3. lockLabel' \subseteq Tasks
    BY <1>1, <2>1 DEF MarkAndDispatch, RestOK
  <2>4. tries' \in [Tasks -> Nat]
    <3>1. tries' = tries \/ tries' = [tries EXCEPT ![loop.task] = @ + 1]
      BY DEF MarkAndDispatch
    <3> QED BY <1>1, <2>1, <3>1 DEF RestOK
  <2> QED BY <2>1, <2>2, <2>3, <2>4 DEF MarkAndDispatch, RestOK, quarantine
<1> DEFINE t == [FreeSlot EXCEPT !.at = "prep", !.task = loop.task]
<1>3. t \in SlotStates /\ t.at = "prep" /\ t.task = loop.task
  BY <1>1, FreeSlotTyped DEF SlotStates
<1>4. slot' = [slot EXCEPT ![loop.slot] = t] /\ loop' = Skip
  BY DEF MarkAndDispatch
<1> HIDE DEF t
<1> QED BY <1>1, <1>2, <1>3, <1>4, SkipTyped, LoopLetsGo

LEMMA OthersTyped ==
    ASSUME Typed, NEW t \in Tasks,
           Sweep(t) \/ Enqueue(t) \/ Unblock(t) \/ Unquarantine(Number(t))
    PROVE  Typed'
<1>1. RestOK
  BY RestTyped
<1>2. helps' \in 0 .. MaxHelps
  BY <1>1, BoundsAssumption DEF RestOK, Sweep, Enqueue, Unblock, Unquarantine, Help, bounds
<1>3. CASE Enqueue(t)
  <2>1. RestOK'
    BY <1>1, <1>2, <1>3 DEF Enqueue, RestOK, quarantine
  <2> QED BY <1>3, <2>1, SameProcesses DEF Enqueue
<1>4. CASE Unblock(t)
  <2>1. RestOK'
    BY <1>1, <1>2, <1>4 DEF Unblock, RestOK, quarantine, bounds
  <2> QED BY <1>4, <2>1, SameProcesses DEF Unblock
<1>5. CASE Unquarantine(Number(t))
  <2>1. RestOK'
    BY <1>1, <1>2, <1>5 DEF Unquarantine, RestOK, quarantine
  <2> QED BY <1>5, <2>1, SameProcesses DEF Unquarantine
<1>6. CASE Sweep(t)
  <2>1. RestOK'
    BY <1>1, <1>2, <1>6 DEF Sweep, RestOK, quarantine, bounds
  <2> QED BY <1>6, <2>1, SameProcesses DEF Sweep
<1> QED BY <1>3, <1>4, <1>5, <1>6

LEMMA StepTyped ==
    ASSUME Typed, [Next]_vars
    PROVE  Typed'
<1>1. CASE UNCHANGED vars
  BY <1>1, RestTyped, SameProcesses DEF vars, github, quarantine, bounds, RestOK
<1>2. CASE LoopStep
  BY <1>2, ListTyped, PickTyped, ClaimTyped, MarkTyped DEF LoopStep
<1>3. ASSUME NEW s \in Slots, SlotStep(s) PROVE Typed'
  BY <1>3, DispatchTyped, CleanupTyped DEF SlotStep
<1> QED BY <1>1, <1>2, <1>3, OthersTyped DEF Next

\* Types, for any schedulers, semaphores, tasks and failures: the loop holds at most one
\* slot, a slot is held by the loop or by one dispatch, and by a dispatch of a kind whose
\* semaphore it belongs to.
THEOREM PoolTypeCorrect == Spec => []TypeOK
<1>1. Typed => TypeOK
  BY DEF Typed
<1>2. Typed /\ [Next]_vars => Typed'
  BY StepTyped
<1> QED BY <1>1, <1>2, InitTyped, PTL DEF Spec

-----------------------------------------------------------------------------
(* No task is dispatched twice at a time: by its ref where the sweeper     *)
(* leaves that alone, and by its lock label.                               *)

\* Two slots never work on the same task of these kinds, with worktrees at the same path.
OneDispatch(kinds) ==
    \A r, s \in Slots :
        /\ slot[r].at \in {"prep", "run"} /\ slot[s].at \in {"prep", "run"}
        /\ slot[r].task = slot[s].task /\ Kind(slot[s].task) \in kinds
        => r = s

\* The dispatch has this step of its cleanup of t ahead of it.
Bound(d, t, step) ==
    /\ d.task = t
    /\ \/ d.at \in {"prep", "run"}
       \/ d.at = "clean" /\ Has(d.todo, step)

Locks(d, t) == Bound(d, t, "release")
Marks(d, t) == Bound(d, t, "unmark")

Won(k, t) == k.at = "mark" /\ k.task = t

\* A dispatch holds the ref until it releases it.
LockOK(t) ==
    /\ \A s \in Slots : Locks(slot[s], t) => t \in lockRefs
    /\ \A r, s \in Slots : Locks(slot[r], t) /\ Locks(slot[s], t) => r = s
    /\ Won(loop, t) => t \in lockRefs /\ \A s \in Slots : ~ Locks(slot[s], t)

\* A dispatch keeps the lock label on until it takes it off, and what the loop has listed
\* carried none.
LabelOK(t) ==
    /\ \A s \in Slots : Marks(slot[s], t) => t \in lockLabel
    /\ \A r, s \in Slots : Marks(slot[r], t) /\ Marks(slot[s], t) => r = s
    /\ t \in loop.todo => \A s \in Slots : ~ Marks(slot[s], t)

LEMMA LocksKept ==
    ASSUME NEW t \in Tasks, LockOK(t), t \in lockRefs => t \in lockRefs',
           \A s \in Slots : Locks(slot'[s], t) => Locks(slot[s], t),
           Won(loop', t) => Won(loop, t)
    PROVE  LockOK(t)'
BY DEF LockOK, Locks, Bound, Won, Has

LEMMA MarksKept ==
    ASSUME NEW t \in Tasks, LabelOK(t), t \in lockLabel => t \in lockLabel',
           \A s \in Slots : Marks(slot'[s], t) => Marks(slot[s], t),
           t \in loop'.todo => t \in loop.todo
    PROVE  LabelOK(t)'
BY DEF LabelOK, Marks, Bound, Has

\* What a step makes of one slot, the others being as they were.
LEMMA OneSlot ==
    ASSUME Typed, NEW s \in Slots, NEW d, slot' = [slot EXCEPT ![s] = d]
    PROVE  slot'[s] = d /\ \A r \in Slots \ {s} : slot'[r] = slot[r]
BY DEF Typed, TypeOK

LEMMA NotBound ==
    ASSUME NEW d, NEW t \in Tasks, NEW step, d.task = None \/ d.at \in {"free", "taken"}
    PROVE  ~ Bound(d, t, step)
BY TasksAssumption DEF Bound

\* What a cleanup step leaves bound was bound, and the step itself is not any more.
LEMMA RestBound ==
    ASSUME Typed, NEW t \in Tasks, NEW s \in Slots, slot[s].at = "clean",
           NEW todo, CleanupOK(todo), Rest(s, todo), NEW step,
           Has(todo, step) => Has(slot[s].todo, step)
    PROVE  /\ \A r \in Slots : Bound(slot'[r], t, step) => Bound(slot[r], t, step)
           /\ (slot[s].task # t \/ ~ Has(todo, step)) => ~ Bound(slot'[s], t, step)
           /\ \A r \in Slots \ {s} : slot'[r] = slot[r]
<1>1. PICK d \in SlotStates :
        /\ slot' = [slot EXCEPT ![s] = d]
        /\ todo = << >> => d.at = "free" /\ d.task = None
        /\ todo # << >> => d.at = "clean" /\ d.task = slot[s].task /\ d.todo = todo
  BY RestMoves
<1>2. slot'[s] = d /\ \A r \in Slots \ {s} : slot'[r] = slot[r]
  BY <1>1, OneSlot
<1>3. CASE todo = << >>
  BY <1>1, <1>2, <1>3, NotBound
<1>4. CASE todo # << >>
  BY <1>1, <1>2, <1>4 DEF Bound
<1> QED BY <1>2, <1>3, <1>4

LEMMA StepDone ==
    ASSUME Typed, NEW s \in Slots, NEW step, Doing(s, step), Done(s)
    PROVE  /\ slot[s].at = "clean" /\ CleanupOK(Tail(slot[s].todo)) /\ Rest(s, Tail(slot[s].todo))
           /\ Has(slot[s].todo, step) /\ ~ Has(Tail(slot[s].todo), step)
           /\ \A other : Has(Tail(slot[s].todo), other) => Has(slot[s].todo, other)
           /\ \A other : other # step => (Has(Tail(slot[s].todo), other) <=> Has(slot[s].todo, other))
BY DoingOK, TailOK DEF Done

LEMMA DoneBound ==
    ASSUME Typed, NEW t \in Tasks, NEW s \in Slots, NEW step, Doing(s, step), Done(s), NEW other
    PROVE  /\ \A r \in Slots : Bound(slot'[r], t, other) => Bound(slot[r], t, other)
           /\ (slot[s].task # t \/ other = step) => ~ Bound(slot'[s], t, other)
           /\ \A r \in Slots \ {s} : slot'[r] = slot[r]
           /\ slot[s].task = t => Bound(slot[s], t, step)
<1>1. /\ slot[s].at = "clean" /\ CleanupOK(Tail(slot[s].todo)) /\ Rest(s, Tail(slot[s].todo))
      /\ Has(slot[s].todo, step) /\ ~ Has(Tail(slot[s].todo), step)
      /\ Has(Tail(slot[s].todo), other) => Has(slot[s].todo, other)
  BY StepDone
<1>2. slot[s].task = t => Bound(slot[s], t, step)
  BY <1>1 DEF Bound
<1> DEFINE todo == Tail(slot[s].todo)
<1>3. /\ \A r \in Slots : Bound(slot'[r], t, other) => Bound(slot[r], t, other)
      /\ (slot[s].task # t \/ ~ Has(todo, other)) => ~ Bound(slot'[s], t, other)
      /\ \A r \in Slots \ {s} : slot'[r] = slot[r]
  BY <1>1, RestBound
<1> QED BY <1>1, <1>2, <1>3

\* Steps of a dispatch but for those that take its ref or its lock label away.
LEMMA DispatchBound ==
    ASSUME Typed, NEW t \in Tasks, NEW s \in Slots, SlotStep(s), NEW step \in {"release", "unmark"}
    PROVE  \A r \in Slots : Bound(slot'[r], t, step) => Bound(slot[r], t, step)
<1>1. ASSUME NEW other, Doing(s, other), Done(s)
      PROVE  \A r \in Slots : Bound(slot'[r], t, step) => Bound(slot[r], t, step)
  BY <1>1, DoneBound
<1>2. CASE /\ slot[s].at \in {"prep", "run"}
           /\ \E d : slot' = [slot EXCEPT ![s] = d] /\ d.task = slot[s].task
  BY <1>2, OneSlot DEF Bound
<1>3. CASE Prepare(s)
  <2>1. slot[s] \in SlotStates
    BY DEF Typed, TypeOK
  <2> DEFINE d == [slot[s] EXCEPT !.at = "run"]
  <2>2. slot' = [slot EXCEPT ![s] = d] /\ d.task = slot[s].task
    BY <1>3, <2>1 DEF Prepare, SlotStates
  <2> QED BY <1>2, <1>3, <2>2 DEF Prepare
<1>4. CASE \E exit \in Exits : EndEarly(s, exit) \/ EndLate(s, exit)
  <2>1. slot[s].at \in {"prep", "run"} /\ \E exit \in Exits : Conclude(s, exit)
    BY <1>4 DEF EndEarly, EndLate
  <2> QED BY <1>2, <2>1, ConcludeMoves
<1>5. CASE NoteFailure(s)
  <2>1. /\ slot[s].at = "clean" /\ CleanupOK(AfterFailure(s)) /\ Rest(s, AfterFailure(s))
        /\ Has(AfterFailure(s), step) => Has(slot[s].todo, step)
    BY <1>5, DoingOK, AfterFailureOK, FailureRest DEF NoteFailure, AfterFailure
  <2> QED BY <2>1, RestBound
<1>6. CASE Release(s)
  <2>1. CASE Rest(s, << >>)
    <3>1. slot[s].at = "clean"
      BY <1>6 DEF Release, Doing
    <3> QED BY <2>1, <3>1, NothingLeft, RestBound
  <2>2. Doing(s, "release") /\ (Done(s) \/ Rest(s, << >>))
    BY <1>6 DEF Release
  <2> QED BY <1>1, <2>1, <2>2
<1>7. CASE Unmark(s) \/ Dequeue(s) \/ RecordSuccess(s) \/ LabelQuarantine(s) \/ RemoveWorktree(s)
  BY <1>1, <1>7 DEF Unmark, Dequeue, RecordSuccess, LabelQuarantine, RemoveWorktree
<1> QED BY <1>3, <1>4, <1>5, <1>6, <1>7 DEF SlotStep, Exits

LEMMA SlotLocks ==
    ASSUME Typed, NEW t \in Tasks, LockOK(t), NEW s \in Slots, SlotStep(s)
    PROVE  LockOK(t)'
<1>1. /\ loop' = loop
      /\ \/ lockRefs' = lockRefs
         \/ Release(s) /\ lockRefs' = lockRefs \ {slot[s].task}
  <2>1. CASE Prepare(s) \/ \E exit \in Exits : EndEarly(s, exit) \/ EndLate(s, exit)
    BY <2>1 DEF Prepare, EndEarly, EndLate, github
  <2>2. CASE Unmark(s) \/ Dequeue(s) \/ Release(s)
    BY <2>2 DEF Unmark, Dequeue, Release
  <2>3. CASE RecordSuccess(s) \/ NoteFailure(s) \/ LabelQuarantine(s) \/ RemoveWorktree(s)
    BY <2>3 DEF RecordSuccess, NoteFailure, LabelQuarantine, RemoveWorktree, github
  <2> QED BY <2>1, <2>2, <2>3 DEF SlotStep, Exits
<1>2. \A r \in Slots : Locks(slot'[r], t) => Locks(slot[r], t)
  BY DispatchBound DEF Locks
<1>3. CASE t \in lockRefs => t \in lockRefs'
  BY <1>1, <1>2, <1>3, LocksKept
<1>4. CASE t \in lockRefs /\ t \notin lockRefs'
  <2>1. Release(s) /\ slot[s].task = t
    BY <1>1, <1>4
  <2>2. Doing(s, "release") /\ (Done(s) \/ Rest(s, << >>))
    BY <2>1 DEF Release
  <2>3. Locks(slot[s], t) /\ ~ Locks(slot'[s], t) /\ \A r \in Slots \ {s} : slot'[r] = slot[r]
    <3>1. CASE Done(s)
      BY <2>1, <2>2, <3>1, DoneBound DEF Locks
    <3>2. CASE Rest(s, << >>)
      <4>1. /\ slot[s].at = "clean" /\ slot[s].todo # << >> /\ CleanupOK(slot[s].todo)
            /\ slot[s].todo[1] = "release"
        BY <2>2, DoingOK
      <4>2. Locks(slot[s], t)
        BY <2>1, <4>1, TailOK DEF Locks, Bound
      <4> QED BY <3>2, <4>1, <4>2, NothingLeft, RestBound DEF Locks
    <3> QED BY <2>2, <3>1, <3>2
  <2>4. \A r \in Slots : ~ Locks(slot'[r], t)
    BY <2>3 DEF LockOK
  <2>5. ~ Won(loop', t)
    BY <1>1, <2>3 DEF LockOK
  <2> QED BY <2>4, <2>5 DEF LockOK, Locks, Bound, Won, Has
<1> QED BY <1>3, <1>4

\* What the loop makes of the slots, but for the dispatch it starts.
LEMMA LoopBound ==
    ASSUME Typed, List \/ TickEnd \/ Pick \/ Claim, NEW t \in Tasks, NEW step
    PROVE  \A r \in Slots : Bound(slot'[r], t, step) => Bound(slot[r], t, step)
<1>1. \/ slot' = slot
      \/ \E s \in Slots : \E d : slot' = [slot EXCEPT ![s] = d] /\ d.at \in {"free", "taken"}
  <2>1. CASE List \/ TickEnd
    BY <2>1 DEF List, TickEnd
  <2>2. CASE Pick
    <3>1. CASE slot' # slot
      <4>1. PICK s \in Slots : slot' = [slot EXCEPT ![s].at = "taken"]
        BY <2>2, <3>1 DEF Pick, Free
      <4> DEFINE d == [slot[s] EXCEPT !.at = "taken"]
      <4>2. d.at = "taken" /\ slot' = [slot EXCEPT ![s] = d]
        BY <4>1 DEF Typed, TypeOK, SlotStates
      <4> HIDE DEF d
      <4> QED BY <4>2
    <3> QED BY <3>1
  <2>3. CASE Claim
    <3>1. loop.slot \in Slots
      BY <2>3 DEF Claim, Typed, LoopHolds
    <3> QED BY <2>3, <3>1, ClaimMoves, FreeSlotTyped
  <2> QED BY <2>1, <2>2, <2>3
<1>2. CASE slot' = slot
  BY <1>2
<1>3. ASSUME NEW s \in Slots, NEW d, slot' = [slot EXCEPT ![s] = d], d.at \in {"free", "taken"}
      PROVE  \A r \in Slots : Bound(slot'[r], t, step) => Bound(slot[r], t, step)
  BY <1>3, OneSlot, NotBound
<1> QED BY <1>1, <1>2, <1>3

\* The dispatch the loop starts.
LEMMA DispatchStarts ==
    ASSUME Typed, MarkAndDispatch
    PROVE  /\ loop.at = "mark" /\ loop.slot \in Slots /\ loop.task \in Tasks /\ loop.task \in loop.todo
           /\ slot[loop.slot].at = "taken"
           /\ \E d : /\ slot' = [slot EXCEPT ![loop.slot] = d]
                     /\ d.at = "prep" /\ d.task = loop.task
           /\ loop'.at = "pick" /\ loop'.todo = loop.todo \ {loop.task}
<1>1. /\ loop.at = "mark" /\ loop.slot \in Slots /\ loop.task \in Tasks /\ loop.task \in loop.todo
      /\ slot[loop.slot].at = "taken"
  BY SlotsAssumption DEF MarkAndDispatch, Typed, LoopHolds, TypeOK, LoopStates
<1>2. loop'.at = "pick" /\ loop'.todo = loop.todo \ {loop.task}
  BY SkipTyped DEF MarkAndDispatch
<1> DEFINE d == [FreeSlot EXCEPT !.at = "prep", !.task = loop.task]
<1>3. slot' = [slot EXCEPT ![loop.slot] = d] /\ d.at = "prep" /\ d.task = loop.task
  BY DEF MarkAndDispatch, FreeSlot
<1> HIDE DEF d
<1> QED BY <1>1, <1>2, <1>3

LEMMA LoopLocks ==
    ASSUME Typed, NEW t \in Tasks, LockOK(t), LoopStep
    PROVE  LockOK(t)'
<1>1. CASE MarkAndDispatch
  <2>1. /\ loop'.at = "pick" /\ lockRefs' = lockRefs /\ loop.slot \in Slots
        /\ Won(loop, loop.task)
    BY <1>1, DispatchStarts DEF MarkAndDispatch, Won
  <2>2. PICK d : slot' = [slot EXCEPT ![loop.slot] = d] /\ d.at = "prep" /\ d.task = loop.task
    BY <1>1, DispatchStarts
  <2>3. slot'[loop.slot] = d /\ \A r \in Slots \ {loop.slot} : slot'[r] = slot[r]
    BY <2>1, <2>2, OneSlot
  <2>4. ~ Won(loop', t)
    BY <2>1 DEF Won
  <2>5. CASE loop.task = t
    <3>1. t \in lockRefs /\ \A s \in Slots \ {loop.slot} : ~ Locks(slot'[s], t)
      BY <2>1, <2>3, <2>5 DEF LockOK
    <3> QED BY <2>1, <2>4, <3>1 DEF LockOK, Locks, Bound, Won, Has
  <2>6. CASE loop.task # t
    <3>1. \A s \in Slots : Locks(slot'[s], t) => Locks(slot[s], t)
      BY <2>2, <2>3, <2>6 DEF Locks, Bound
    <3> QED BY <2>1, <2>4, <3>1, LocksKept
  <2> QED BY <2>5, <2>6
<1>2. CASE List \/ TickEnd \/ Pick \/ Claim
  <2>1. \A s \in Slots : Locks(slot'[s], t) => Locks(slot[s], t)
    BY <1>2, LoopBound DEF Locks
  <2>2. CASE loop'.at # "mark"
    <3>1. lockRefs \subseteq lockRefs'
      BY <1>2 DEF List, TickEnd, Pick, Claim, github
    <3> QED BY <2>1, <2>2, <3>1, LocksKept DEF Won
  <2>3. CASE loop'.at = "mark"
    <3>1. Claim /\ loop' = [loop EXCEPT !.at = "mark"] /\ slot' = slot
      <4>1. CASE Claim
        BY <2>3, <4>1, ClaimMoves, SkipTyped
      <4>2. CASE Pick
        BY <2>3, <4>2, NextSchedulerTyped DEF Pick, Typed, TypeOK, LoopStates
      <4>3. CASE List \/ TickEnd
        BY <2>3, <4>3, NextSchedulerTyped DEF List, TickEnd, Typed, TypeOK, LoopStates
      <4> QED BY <1>2, <4>1, <4>2, <4>3
    <3>2. loop'.task = loop.task
      BY <3>1 DEF Typed, TypeOK, LoopStates
    <3>3. loop.task \notin lockRefs /\ lockRefs' = lockRefs \cup {loop.task}
      <4>1. loop' # Skip
        BY <2>3, SkipTyped
      <4> QED BY <3>1, <4>1 DEF Claim
    <3>4. CASE loop.task = t
      BY <3>1, <3>2, <3>3, <3>4 DEF LockOK, Locks, Bound, Won, Has
    <3>5. CASE loop.task # t
      BY <3>1, <3>2, <3>3, <3>5, LocksKept DEF Won
    <3> QED BY <3>4, <3>5
  <2> QED BY <2>2, <2>3
<1> QED BY <1>1, <1>2 DEF LoopStep

LEMMA OthersLock ==
    ASSUME Typed, NEW t \in Tasks, Kind(t) \notin Outlive, LockOK(t),
           NEW u \in Tasks, Sweep(u) \/ Enqueue(u) \/ Unblock(u) \/ Unquarantine(Number(u))
    PROVE  LockOK(t)'
<1>1. UNCHANGED <<loop, slot>>
  BY DEF Sweep, Enqueue, Unblock, Unquarantine
<1>2. CASE t \in lockRefs => t \in lockRefs'
  BY <1>1, <1>2, LocksKept
<1>3. CASE t \in lockRefs /\ t \notin lockRefs'
  <2>1. t = u /\ (Enqueue(t) \/ Sweep(t))
    BY <1>3 DEF Sweep, Enqueue, Unblock, Unquarantine
  <2>2. ~ Won(loop, t) /\ \A s \in Slots : slot[s].task # t
    BY <1>3, <2>1 DEF Sweep, Enqueue, InProgress, Won
  <2> QED BY <1>1, <2>2 DEF LockOK, Locks, Bound, Won
<1> QED BY <1>2, <1>3

LEMMA StepLocks ==
    ASSUME Typed, [Next]_vars, NEW t \in Tasks, Kind(t) \notin Outlive, LockOK(t)
    PROVE  LockOK(t)'
<1>1. CASE UNCHANGED vars
  BY <1>1, LocksKept DEF vars, github
<1> QED BY <1>1, SlotLocks, LoopLocks, OthersLock DEF Next

LEMMA InitLocks ==
    ASSUME Init, NEW t \in Tasks
    PROVE  LockOK(t) /\ LabelOK(t)
<1>1. loop.at = "list" /\ loop.todo = {} /\ \A s \in Slots : slot[s].at = "free"
  BY DEF Init, LoopAt, FreeSlot
<1> QED BY <1>1 DEF LockOK, LabelOK, Won, Locks, Marks, Bound

\* The main loop dispatches no task that is being worked on, as long as dispatches of its
\* kind end before their claims are old enough to be reclaimed: not when its lock label
\* could not be put on, which Tick only logs, and not when its list is older than the
\* dispatch.  The ref alone sees to that (Tick, TryClaim, releaseWithRetry).
THEOREM OneDispatchByRef == Spec => [] OneDispatch(Kinds \ Outlive)
<1> DEFINE AllLocked == \A t \in Tasks : Kind(t) \notin Outlive => LockOK(t)
<1>1. Init => Typed /\ AllLocked
  BY InitTyped, InitLocks
<1>2. Typed /\ AllLocked /\ [Next]_vars => (Typed /\ AllLocked)'
  <2> SUFFICES ASSUME Typed, AllLocked, [Next]_vars PROVE Typed' /\ AllLocked'
    OBVIOUS
  <2>1. ASSUME NEW t \in Tasks, Kind(t) \notin Outlive PROVE LockOK(t)'
    BY <2>1, StepLocks
  <2>2. AllLocked'
    BY <2>1 DEF Kind
  <2> QED BY <2>2, StepTyped
<1>3. Typed /\ AllLocked => OneDispatch(Kinds \ Outlive)
  BY DEF OneDispatch, Typed, SlotHolds, LockOK, Locks, Bound
<1> QED BY <1>1, <1>2, <1>3, PTL DEF Spec

LEMMA SlotMarks ==
    ASSUME Typed, NEW t \in Tasks, LabelOK(t), NEW s \in Slots, SlotStep(s)
    PROVE  LabelOK(t)'
<1>1. /\ loop' = loop
      /\ \/ lockLabel' = lockLabel
         \/ Unmark(s) /\ lockLabel' = lockLabel \ {slot[s].task}
  <2>1. CASE Prepare(s) \/ \E exit \in Exits : EndEarly(s, exit) \/ EndLate(s, exit)
    BY <2>1 DEF Prepare, EndEarly, EndLate, github
  <2>2. CASE Unmark(s) \/ Dequeue(s) \/ Release(s)
    BY <2>2 DEF Unmark, Dequeue, Release
  <2>3. CASE RecordSuccess(s) \/ NoteFailure(s) \/ LabelQuarantine(s) \/ RemoveWorktree(s)
    BY <2>3 DEF RecordSuccess, NoteFailure, LabelQuarantine, RemoveWorktree, github
  <2> QED BY <2>1, <2>2, <2>3 DEF SlotStep, Exits
<1>2. \A r \in Slots : Marks(slot'[r], t) => Marks(slot[r], t)
  BY DispatchBound DEF Marks
<1>3. CASE t \in lockLabel => t \in lockLabel'
  BY <1>1, <1>2, <1>3, MarksKept
<1>4. CASE t \in lockLabel /\ t \notin lockLabel'
  <2>1. Doing(s, "unmark") /\ Done(s) /\ slot[s].task = t
    BY <1>1, <1>4 DEF Unmark
  <2>2. Marks(slot[s], t) /\ ~ Marks(slot'[s], t) /\ \A r \in Slots \ {s} : slot'[r] = slot[r]
    BY <2>1, DoneBound DEF Marks
  <2>3. \A r \in Slots : ~ Marks(slot'[r], t)
    BY <2>2 DEF LabelOK
  <2> QED BY <2>3 DEF LabelOK, Marks, Bound, Has
<1> QED BY <1>3, <1>4

\* Where no call that puts a lock label on fails, what has been listed is nobody's.
LEMMA LoopMarks ==
    ASSUME Typed, "lockLabel" \notin MayFail, NEW t \in Tasks, LabelOK(t), LoopStep
    PROVE  LabelOK(t)'
<1>1. CASE MarkAndDispatch
  <2>1. loop.slot \in Slots /\ loop.task \in loop.todo /\ loop'.todo = loop.todo \ {loop.task}
    BY <1>1, DispatchStarts
  <2>2. PICK d : slot' = [slot EXCEPT ![loop.slot] = d] /\ d.at = "prep" /\ d.task = loop.task
    BY <1>1, DispatchStarts
  <2>3. slot'[loop.slot] = d /\ \A r \in Slots \ {loop.slot} : slot'[r] = slot[r]
    BY <2>1, <2>2, OneSlot
  <2>4. lockLabel' = lockLabel \cup {loop.task}
    BY <1>1 DEF MarkAndDispatch, Call
  <2>5. CASE loop.task = t
    <3>1. \A s \in Slots \ {loop.slot} : ~ Marks(slot'[s], t)
      BY <2>1, <2>3, <2>5 DEF LabelOK
    <3>2. t \in lockLabel' /\ t \notin loop'.todo
      BY <2>1, <2>4, <2>5
    <3> QED BY <3>1, <3>2 DEF LabelOK, Marks, Bound, Has
  <2>6. CASE loop.task # t
    <3>1. \A s \in Slots : Marks(slot'[s], t) => Marks(slot[s], t)
      BY <2>2, <2>3, <2>6 DEF Marks, Bound
    <3> QED BY <2>1, <2>4, <3>1, MarksKept
  <2> QED BY <2>5, <2>6
<1>2. CASE List \/ TickEnd \/ Pick \/ Claim
  <2>1. (\A s \in Slots : Marks(slot'[s], t) => Marks(slot[s], t)) /\ lockLabel' = lockLabel
    BY <1>2, LoopBound DEF Marks, List, TickEnd, Pick, Claim, github
  <2>2. CASE t \in loop'.todo => t \in loop.todo
    BY <2>1, <2>2, MarksKept
  <2>3. CASE t \in loop'.todo /\ t \notin loop.todo
    <3>1. List /\ loop'.todo = Candidates(Schedulers[loop.sched])
      <4>1. CASE List
        BY <2>3, <4>1, NextSchedulerTyped DEF List, Typed, TypeOK, LoopStates
      <4>2. CASE TickEnd
        BY <2>3, <4>2, NextSchedulerTyped DEF TickEnd
      <4>3. CASE Pick
        BY <2>3, <4>3, NextSchedulerTyped DEF Pick, Typed, TypeOK, LoopStates
      <4>4. CASE Claim
        BY <2>3, <4>4, ClaimMoves, SkipTyped DEF Typed, TypeOK, LoopStates
      <4> QED BY <1>2, <4>1, <4>2, <4>3, <4>4
    <3>2. t \notin lockLabel /\ slot' = slot
      BY <2>3, <3>1 DEF Candidates, List
    <3>3. \A s \in Slots : ~ Marks(slot[s], t)
      BY <3>2 DEF LabelOK
    <3> QED BY <3>2, <3>3 DEF LabelOK, Marks, Bound, Has
  <2> QED BY <2>2, <2>3
<1> QED BY <1>1, <1>2 DEF LoopStep

LEMMA StepMarks ==
    ASSUME Typed, "lockLabel" \notin MayFail, [Next]_vars, NEW t \in Tasks, LabelOK(t)
    PROVE  LabelOK(t)'
<1>1. CASE UNCHANGED vars
  BY <1>1, MarksKept DEF vars, github
<1>2. CASE \E u \in Tasks : Sweep(u) \/ Enqueue(u) \/ Unblock(u) \/ Unquarantine(Number(u))
  BY <1>2, MarksKept DEF Sweep, Enqueue, Unblock, Unquarantine
<1> QED BY <1>1, <1>2, SlotMarks, LoopMarks DEF Next

\* A task that is being worked on is dispatched a second time neither after its ref was
\* reclaimed, nor from a list older than the dispatch, as long as the calls that put lock
\* labels on do not fail: the label alone sees to that, whatever becomes of the ref
\* (listCandidates, Tick, Sweep).
THEOREM OneDispatchByLabel ==
    ASSUME "lockLabel" \notin MayFail
    PROVE  Spec => [] OneDispatch(Kinds)
<1> DEFINE AllMarked == \A t \in Tasks : LabelOK(t)
<1>1. Init => Typed /\ AllMarked
  BY InitTyped, InitLocks
<1>2. Typed /\ AllMarked /\ [Next]_vars => (Typed /\ AllMarked)'
  <2> SUFFICES ASSUME Typed, AllMarked, [Next]_vars PROVE Typed' /\ AllMarked'
    OBVIOUS
  <2>1. \A t \in Tasks : LabelOK(t)'
    BY StepMarks
  <2> QED BY <2>1, StepTyped
<1>3. Typed /\ AllMarked => OneDispatch(Kinds)
  BY DEF OneDispatch, Typed, SlotHolds, LabelOK, Marks, Bound
<1> QED BY <1>1, <1>2, <1>3, PTL DEF Spec

-----------------------------------------------------------------------------
(* Counting dispatches, for any number of slots.  All bounds are doubled,  *)
(* to do without division.                                                 *)

\* The dispatch of t has its failure or its exit from the queue ahead of it.
Open(d, t) ==
    /\ d.task = t
    /\ \/ d.at \in {"prep", "run"}
       \/ d.at = "clean" /\ (Has(d.todo, "recordFailure") \/ Has(d.todo, "dequeue"))

\* It is to put the quarantine label on.
Labels(d, t) == d.task = t /\ d.at = "clean" /\ Has(d.todo, "label")

Claims(k, t) == k.at \in {"claim", "mark"} /\ k.task = t

OpenAt(f, t)  == {s \in Slots : Open(f[s], t)}
LabelAt(f, t) == {s \in Slots : Labels(f[s], t)}

Size(t)       == Cardinality({s \in Slots : Pool[s] = PoolOf(Kind(t))})
OpenCount(t)  == Cardinality(OpenAt(slot, t))
LabelCount(t) == Cardinality(LabelAt(slot, t))
ClaimCount(t) == IF Claims(loop, t) THEN 1 ELSE 0
Extra(t)      == IF Size(t) > 1 THEN 1 ELSE 0

\* Of n slots, l have reached the threshold one after the other and wait with their label
\* calls: that makes l * Threshold failures counted, and up to n - 1, ..., n - l lost.
Sum(n, l) == 2 * l * Threshold + 2 * l * n - l * (l + 1)
Cap(t)    == Sum(Size(t), Size(t)) + 2 * Extra(t)

LEMMA SumGrows ==
    ASSUME NEW n \in Nat, NEW l \in Nat
    PROVE  /\ Sum(n, l) \in Int
           /\ Sum(n, l + 1) = Sum(n, l) + 2 * Threshold + 2 * (n - (l + 1))
<1>1. Threshold \in Int
  BY BoundsAssumption
<1> QED BY <1>1 DEF Sum

LEMMA ProductsOK ==
    ASSUME NEW m \in Nat, NEW n \in Nat
    PROVE  m * n \in Nat /\ m * m >= m
<1>1. m * n \in Nat
  OBVIOUS
<1>2. m = 0 \/ m >= 1
  OBVIOUS
<1>3. m >= 1 => m * m >= m * 1
  OBVIOUS
<1> QED BY <1>1, <1>2, <1>3

LEMMA SumBounds ==
    ASSUME NEW n \in Nat, NEW l \in Nat, l <= n
    PROVE  0 <= Sum(n, l) /\ Sum(n, l) <= Sum(n, n)
<1>1. PICK m \in Nat : n = l + m
  <2>1. n - l \in Nat /\ n = l + (n - l)
    OBVIOUS
  <2> QED BY <2>1
<1>2. PICK T \in Nat : T = Threshold
  BY BoundsAssumption
<1>3. l * T \in Nat /\ m * T \in Nat /\ l * m \in Nat /\ l * l >= l /\ m * m >= m
  BY ProductsOK
<1>4. Sum(n, l) = 2 * (l * T) + 2 * (l * m) + (l * l - l)
  BY <1>1, <1>2 DEF Sum
<1>5. Sum(n, n) = Sum(n, l) + 2 * (m * T) + (m * m - m)
  BY <1>1, <1>2 DEF Sum
<1>6. l * l \in Int /\ m * m \in Int
  OBVIOUS
<1> HIDE DEF Sum
<1> QED BY <1>3, <1>4, <1>5, <1>6

\* The bound in the words of RetryBound.
LEMMA CapIsBound ==
    ASSUME NEW t \in Tasks, Size(t) \in Nat
    PROVE  2 * RetryBound(t) >= Cap(t) + 2 /\ RetryBound(t) \in Int
<1>1. PICK n \in Nat : n = Size(t)
  OBVIOUS
<1>2. PICK T \in Nat : T = Threshold
  BY BoundsAssumption
<1>3. 2 * ((n * (n - 1)) \div 2) = n * (n - 1)
  <2>1. \E q \in Int : n * (n - 1) = 2 * q
    <3>1. PICK q \in Int : n = 2 * q \/ n = 2 * q + 1
      <4>1. n \div 2 \in Int /\ (n = 2 * (n \div 2) \/ n = 2 * (n \div 2) + 1)
        OBVIOUS
      <4> QED BY <4>1
    <3>2. CASE n = 2 * q
      <4>1. n * (n - 1) = 2 * (q * (2 * q - 1)) /\ q * (2 * q - 1) \in Int
        BY <3>2
      <4> QED BY <4>1
    <3>3. CASE n = 2 * q + 1
      <4>1. n * (n - 1) = 2 * ((2 * q + 1) * q) /\ (2 * q + 1) * q \in Int
        BY <3>3
      <4> QED BY <4>1
    <3> QED BY <3>1, <3>2, <3>3
  <2>2. PICK q \in Int : n * (n - 1) = 2 * q
    BY <2>1
  <2>3. (2 * q) \div 2 = q
    OBVIOUS
  <2> QED BY <2>2, <2>3
<1>4. RetryBound(t) = n * T + (n * (n - 1)) \div 2 + (IF n > 1 THEN 2 ELSE 1)
  BY <1>1, <1>2 DEF RetryBound, Size
<1>5. Sum(n, n) = 2 * (n * T) + n * (n - 1)
  BY <1>2 DEF Sum
<1>6. (n * (n - 1)) \div 2 \in Int /\ n * T \in Int /\ n * (n - 1) \in Int
  OBVIOUS
<1>7. Cap(t) = Sum(n, n) + 2 * (IF n > 1 THEN 1 ELSE 0)
  BY <1>1 DEF Cap, Extra
<1> QED BY <1>3, <1>4, <1>5, <1>6, <1>7

\* The counter is below the threshold unless the label was asked for, and at 0 while every
\* slot waits with a label call; a task to be labelled is claimed beside another slot only.
CountOK(t) ==
    /\ t \notin labeled =>
         counts[t] < Threshold /\ (LabelCount(t) = Size(t) => counts[t] = 0)
    /\ t \in labeled /\ Claims(loop, t) => Size(t) > 1

\* Each dispatch is a failure counted, one lost, or one still open, but for one that was
\* picked before the last help.  While a label is due nothing is picked.
TriesFit(t) ==
    IF t \in labeled
    THEN 2 * (tries[t] + ClaimCount(t)) <= Sum(Size(t), LabelCount(t)) + 2 * Extra(t)
    ELSE 2 * tries[t] <= Sum(Size(t), LabelCount(t)) + 2 * (counts[t] + OpenCount(t) + Extra(t))

\* One more dispatch may come from a list that is older than the label.
TriesOK(t) ==
    /\ Number(t) \in quarantined =>
         2 * tries[t] <= Cap(t) + 2 /\ (t \in loop.todo => 2 * tries[t] <= Cap(t))
    /\ Number(t) \notin quarantined => TriesFit(t)

Counted(t) == CountOK(t) /\ TriesOK(t)

LEMMA CardNat ==
    ASSUME NEW A \in SUBSET Slots
    PROVE  IsFiniteSet(A) /\ Cardinality(A) \in Nat
BY SlotsAssumption, FS_Subset, FS_CardinalityType

LEMMA SetChange ==
    ASSUME NEW A \in SUBSET Slots, NEW B \in SUBSET Slots, NEW s \in Slots,
           \A r \in Slots \ {s} : r \in A <=> r \in B
    PROVE  Cardinality(B) =
             Cardinality(A) + (IF s \in B THEN 1 ELSE 0) - (IF s \in A THEN 1 ELSE 0)
<1>1. Cardinality(A) \in Nat /\ IsFiniteSet(A)
  BY CardNat
<1>2. CASE s \in A <=> s \in B
  <2>1. A = B
    BY <1>2
  <2> QED BY <1>1, <2>1
<1>3. CASE s \in A /\ s \notin B
  <2>1. B = A \ {s}
    BY <1>3
  <2> QED BY <1>1, <1>3, <2>1, FS_RemoveElement
<1>4. CASE s \notin A /\ s \in B
  <2>1. B = A \cup {s}
    BY <1>4
  <2> QED BY <1>1, <1>4, <2>1, FS_AddElement
<1> QED BY <1>2, <1>3, <1>4

LEMMA CountsNat ==
    ASSUME NEW f, NEW t
    PROVE  Cardinality(OpenAt(f, t)) \in Nat /\ Cardinality(LabelAt(f, t)) \in Nat
<1>1. OpenAt(f, t) \in SUBSET Slots /\ LabelAt(f, t) \in SUBSET Slots
  BY DEF OpenAt, LabelAt
<1> QED BY <1>1, CardNat

LEMMA CountsMove ==
    ASSUME Typed, NEW t \in Tasks, NEW s \in Slots, NEW d, slot' = [slot EXCEPT ![s] = d]
    PROVE  /\ Cardinality(OpenAt(slot', t)) =
                OpenCount(t) + (IF Open(d, t) THEN 1 ELSE 0) - (IF Open(slot[s], t) THEN 1 ELSE 0)
           /\ Cardinality(LabelAt(slot', t)) =
                LabelCount(t) + (IF Labels(d, t) THEN 1 ELSE 0) - (IF Labels(slot[s], t) THEN 1 ELSE 0)
           /\ slot'[s] = d /\ \A r \in Slots \ {s} : slot'[r] = slot[r]
<1>1. slot'[s] = d /\ \A r \in Slots \ {s} : slot'[r] = slot[r]
  BY DEF Typed, TypeOK
<1>2. ASSUME NEW A \in SUBSET Slots, NEW B \in SUBSET Slots, NEW p, NEW q,
             \A r \in Slots \ {s} : r \in A <=> r \in B, s \in A <=> p, s \in B <=> q
      PROVE  Cardinality(B) = Cardinality(A) + (IF q THEN 1 ELSE 0) - (IF p THEN 1 ELSE 0)
  <2>1. Cardinality(B) =
          Cardinality(A) + (IF s \in B THEN 1 ELSE 0) - (IF s \in A THEN 1 ELSE 0)
    BY <1>2, SetChange
  <2> QED BY <1>2, <2>1
<1>3. Cardinality(OpenAt(slot', t)) =
        OpenCount(t) + (IF Open(d, t) THEN 1 ELSE 0) - (IF Open(slot[s], t) THEN 1 ELSE 0)
  <2>1. /\ OpenAt(slot, t) \in SUBSET Slots /\ OpenAt(slot', t) \in SUBSET Slots
        /\ \A r \in Slots \ {s} : r \in OpenAt(slot, t) <=> r \in OpenAt(slot', t)
        /\ (s \in OpenAt(slot, t) <=> Open(slot[s], t)) /\ (s \in OpenAt(slot', t) <=> Open(d, t))
    BY <1>1 DEF OpenAt
  <2> QED BY <1>2, <2>1 DEF OpenCount
<1>4. Cardinality(LabelAt(slot', t)) =
        LabelCount(t) + (IF Labels(d, t) THEN 1 ELSE 0) - (IF Labels(slot[s], t) THEN 1 ELSE 0)
  <2>1. /\ LabelAt(slot, t) \in SUBSET Slots /\ LabelAt(slot', t) \in SUBSET Slots
        /\ \A r \in Slots \ {s} : r \in LabelAt(slot, t) <=> r \in LabelAt(slot', t)
        /\ (s \in LabelAt(slot, t) <=> Labels(slot[s], t)) /\ (s \in LabelAt(slot', t) <=> Labels(d, t))
    BY <1>1 DEF LabelAt
  <2> QED BY <1>2, <2>1 DEF LabelCount
<1> QED BY <1>1, <1>3, <1>4

\* The open dispatches of a task, its label calls and its claim have a slot each.
LEMMA Room ==
    ASSUME Typed, NEW t \in Tasks
    PROVE  /\ Size(t) \in Nat /\ OpenCount(t) \in Nat /\ LabelCount(t) \in Nat
           /\ ClaimCount(t) \in {0, 1} /\ (ClaimCount(t) = 1 <=> Claims(loop, t))
           /\ Extra(t) \in {0, 1} /\ (Extra(t) = 1 <=> Size(t) > 1)
           /\ OpenCount(t) + LabelCount(t) + ClaimCount(t) <= Size(t)
<1> DEFINE M == {s \in Slots : Pool[s] = PoolOf(Kind(t))}
           A == OpenAt(slot, t)
           B == LabelAt(slot, t)
           C == IF Claims(loop, t) THEN {loop.slot} ELSE {}
<1>1. ASSUME NEW s \in Slots, slot[s].task = t PROVE s \in M
  <2>1. slot[s] \in SlotStates /\ t # None
    BY TasksAssumption DEF Typed, TypeOK
  <2>2. slot[s].at \in {"prep", "run", "clean"}
    BY <1>1, <2>1 DEF SlotStates, Typed, SlotHolds
  <2> QED BY <1>1, <2>2 DEF Typed, TypeOK
<1>2. Claims(loop, t) => loop.slot \in M /\ slot[loop.slot].task # t
  <2> SUFFICES ASSUME Claims(loop, t) PROVE loop.slot \in M /\ slot[loop.slot].task # t
    OBVIOUS
  <2>1. loop.slot \in Slots /\ Pool[loop.slot] = PoolOf(Kind(t))
    BY DEF Claims, Typed, LoopHolds
  <2>2. slot[loop.slot].at = "taken" /\ slot[loop.slot].task = None /\ t # None
    BY <2>1, TasksAssumption, SlotsAssumption DEF Typed, TypeOK, SlotHolds
  <2> QED BY <2>1, <2>2
<1>3. A \subseteq M /\ B \subseteq M
  BY <1>1 DEF OpenAt, Open, LabelAt, Labels
<1>4. A \cap B = {}
  BY DEF OpenAt, Open, LabelAt, Labels, Typed, SlotHolds, CleanupOK
<1>5. C \subseteq M /\ (A \cup B) \cap C = {}
  BY <1>2 DEF OpenAt, Open, LabelAt, Labels
<1>6. M \in SUBSET Slots /\ Cardinality(M) = Size(t)
  BY DEF Size
<1>7. Cardinality(A) = OpenCount(t) /\ Cardinality(B) = LabelCount(t)
  BY DEF OpenCount, LabelCount
<1>8. Cardinality(C) = ClaimCount(t) /\ ClaimCount(t) \in {0, 1}
  BY FS_EmptySet, FS_Singleton DEF ClaimCount
<1> HIDE DEF M, A, B, C
<1>9. /\ IsFiniteSet(M) /\ IsFiniteSet(A) /\ IsFiniteSet(B) /\ IsFiniteSet(C)
      /\ Size(t) \in Nat /\ OpenCount(t) \in Nat /\ LabelCount(t) \in Nat
  <2>1. A \in SUBSET Slots /\ B \in SUBSET Slots /\ C \in SUBSET Slots
    BY <1>3, <1>5, <1>6
  <2> QED BY <1>6, <1>7, <2>1, CardNat
<1>10. IsFiniteSet(A \cup B) /\ Cardinality(A \cup B) = OpenCount(t) + LabelCount(t)
  BY <1>4, <1>7, <1>9, FS_Union, FS_EmptySet
<1>11. Cardinality((A \cup B) \cup C) = OpenCount(t) + LabelCount(t) + ClaimCount(t)
  <2>1. Cardinality((A \cup B) \cup C) = Cardinality(A \cup B) + Cardinality(C) - Cardinality({})
    BY <1>5, <1>9, <1>10, FS_Union
  <2> QED BY <1>8, <1>9, <1>10, <2>1, FS_EmptySet
<1>12. Cardinality((A \cup B) \cup C) <= Cardinality(M)
  <2>1. (A \cup B) \cup C \in SUBSET M
    BY <1>3, <1>5
  <2> QED BY <1>9, <2>1, FS_Subset
<1> QED BY <1>6, <1>8, <1>9, <1>11, <1>12 DEF ClaimCount, Extra

LEMMA NumbersOK ==
    ASSUME Typed, NEW t \in Tasks
    PROVE  /\ counts[t] \in 0 .. Threshold /\ counts[t] \in Nat /\ tries[t] \in Nat
           /\ Threshold \in Nat
           /\ Sum(Size(t), LabelCount(t)) \in Int /\ 0 <= Sum(Size(t), LabelCount(t))
           /\ Cap(t) \in Int /\ 0 <= Cap(t)
           /\ Sum(Size(t), LabelCount(t)) + 2 * Extra(t) <= Cap(t)
<1>1. counts[t] \in 0 .. Threshold /\ tries[t] \in Nat /\ Threshold \in Nat
  BY BoundsAssumption DEF Typed, TypeOK
<1>2. Size(t) \in Nat /\ LabelCount(t) \in Nat /\ LabelCount(t) <= Size(t) /\ Extra(t) \in {0, 1}
  BY Room
<1>3. /\ Sum(Size(t), LabelCount(t)) \in Int /\ 0 <= Sum(Size(t), LabelCount(t))
      /\ Sum(Size(t), Size(t)) \in Int
      /\ Sum(Size(t), LabelCount(t)) <= Sum(Size(t), Size(t))
  BY <1>2, SumGrows, SumBounds
<1> QED BY <1>1, <1>2, <1>3 DEF Cap

\* What fits is below the cap.
LEMMA FitsCap ==
    ASSUME Typed, NEW t \in Tasks, CountOK(t), TriesFit(t)
    PROVE  2 * tries[t] <= Cap(t)
<1> DEFINE n == Size(t)
           l == LabelCount(t)
<1>1. /\ n \in Nat /\ l \in Nat /\ OpenCount(t) \in Nat /\ OpenCount(t) + l <= n
      /\ ClaimCount(t) \in {0, 1} /\ Extra(t) \in {0, 1}
  BY Room
<1>2. /\ counts[t] \in Nat /\ tries[t] \in Nat /\ Threshold \in Nat
      /\ Sum(n, l) \in Int /\ Cap(t) \in Int /\ Sum(n, l) + 2 * Extra(t) <= Cap(t)
  BY NumbersOK
<1>3. l + 1 <= n => Sum(n, l) + 2 * Threshold + 2 * (n - (l + 1)) + 2 * Extra(t) <= Cap(t)
  <2> SUFFICES ASSUME l + 1 <= n
               PROVE  Sum(n, l) + 2 * Threshold + 2 * (n - (l + 1)) + 2 * Extra(t) <= Cap(t)
    OBVIOUS
  <2>1. Sum(n, l + 1) = Sum(n, l) + 2 * Threshold + 2 * (n - (l + 1)) /\ Sum(n, n) \in Int
    BY <1>1, SumGrows
  <2>2. l + 1 \in Nat /\ Sum(n, l + 1) <= Sum(n, n)
    BY <1>1, SumBounds
  <2>3. Cap(t) = Sum(n, n) + 2 * Extra(t)
    BY DEF Cap
  <2> HIDE DEF n, l
  <2> QED BY <1>1, <1>2, <2>1, <2>2, <2>3
<1>5. CASE t \in labeled
  <2>1. 2 * (tries[t] + ClaimCount(t)) <= Sum(n, l) + 2 * Extra(t)
    BY <1>5 DEF TriesFit
  <2> HIDE DEF n, l
  <2> QED BY <1>1, <1>2, <2>1
<1>6. CASE t \notin labeled
  <2>1. 2 * tries[t] <= Sum(n, l) + 2 * (counts[t] + OpenCount(t) + Extra(t))
    BY <1>6 DEF TriesFit
  <2>2. counts[t] < Threshold /\ (l = n => counts[t] = 0)
    BY <1>6 DEF CountOK
  <2> HIDE DEF n, l
  <2>3. CASE l = n
    BY <1>1, <1>2, <2>1, <2>2, <2>3
  <2>4. CASE l # n
    BY <1>1, <1>2, <1>3, <2>1, <2>2, <2>4
  <2> QED BY <2>3, <2>4
<1> QED BY <1>5, <1>6

LEMMA CountedAfter ==
    ASSUME NEW t \in Tasks,
           NEW l, l = Cardinality(LabelAt(slot', t)), NEW w, w = Cardinality(OpenAt(slot', t)),
           t \notin labeled' => counts'[t] < Threshold /\ (l = Size(t) => counts'[t] = 0),
           t \in labeled' /\ Claims(loop', t) => Size(t) > 1,
           Number(t) \in quarantined' =>
             2 * tries'[t] <= Cap(t) + 2 /\ (t \in loop'.todo => 2 * tries'[t] <= Cap(t)),
           Number(t) \notin quarantined' =>
             IF t \in labeled'
             THEN 2 * (tries'[t] + (IF Claims(loop', t) THEN 1 ELSE 0))
                    <= Sum(Size(t), l) + 2 * Extra(t)
             ELSE 2 * tries'[t] <= Sum(Size(t), l) + 2 * (counts'[t] + w + Extra(t))
    PROVE  Counted(t)'
<1>1. LabelCount(t)' = l /\ OpenCount(t)' = w
  BY DEF LabelCount, OpenCount, LabelAt, OpenAt, Labels, Open, Has
<1>2. Size(t)' = Size(t) /\ Extra(t)' = Extra(t) /\ Cap(t)' = Cap(t)
  BY DEF Size, Extra, Cap, Sum, PoolOf, Kind
<1>3. CountOK(t)'
  BY <1>1, <1>2 DEF CountOK, Claims
<1>5. ClaimCount(t)' = IF Claims(loop', t) THEN 1 ELSE 0
  BY DEF ClaimCount, Claims
<1>6. Number(t) \notin quarantined' => TriesFit(t)'
  BY <1>1, <1>2, <1>5 DEF TriesFit, Sum
<1>8. TriesOK(t)'
  BY <1>2, <1>6 DEF TriesOK, Number
<1> QED BY <1>3, <1>8 DEF Counted

-----------------------------------------------------------------------------
(* The count through every step.                                           *)

\* What happens to other tasks does not count.
LEMMA Unaffected ==
    ASSUME Typed, NEW t \in Tasks, Counted(t),
           counts'[t] = counts[t], t \in labeled' <=> t \in labeled, tries'[t] = tries[t],
           Number(t) \in quarantined' <=> Number(t) \in quarantined,
           Number(t) \in quarantined /\ t \in loop'.todo => t \in loop.todo,
           Claims(loop', t) => Claims(loop, t),
           Cardinality(OpenAt(slot', t)) = OpenCount(t),
           Cardinality(LabelAt(slot', t)) = LabelCount(t)
    PROVE  Counted(t)'
<1>1. Number(t) \notin quarantined => TriesFit(t) /\ 2 * tries[t] <= Cap(t)
  BY FitsCap DEF Counted, TriesOK
<1>2. /\ ClaimCount(t) \in {0, 1} /\ (ClaimCount(t) = 1 <=> Claims(loop, t))
      /\ Extra(t) \in {0, 1} /\ tries[t] \in Nat
      /\ Sum(Size(t), LabelCount(t)) \in Int
  BY Room, NumbersOK
<1>3. ASSUME t \in labeled,
             2 * (tries[t] + ClaimCount(t)) <= Sum(Size(t), LabelCount(t)) + 2 * Extra(t)
      PROVE  2 * (tries[t] + (IF Claims(loop', t) THEN 1 ELSE 0))
               <= Sum(Size(t), LabelCount(t)) + 2 * Extra(t)
  BY <1>2, <1>3
<1>4. Number(t) \notin quarantined =>
        IF t \in labeled
        THEN 2 * (tries[t] + (IF Claims(loop', t) THEN 1 ELSE 0))
               <= Sum(Size(t), LabelCount(t)) + 2 * Extra(t)
        ELSE 2 * tries[t] <= Sum(Size(t), LabelCount(t)) + 2 * (counts[t] + OpenCount(t) + Extra(t))
  BY <1>1, <1>3 DEF TriesFit
<1> QED BY <1>4, CountedAfter DEF Counted, CountOK, TriesOK

LEMMA SlotAlike ==
    ASSUME Typed, NEW t \in Tasks, Counted(t), NEW s \in Slots, NEW d,
           slot' = [slot EXCEPT ![s] = d],
           counts'[t] = counts[t], t \in labeled' <=> t \in labeled, tries'[t] = tries[t],
           Number(t) \in quarantined' <=> Number(t) \in quarantined,
           Number(t) \in quarantined /\ t \in loop'.todo => t \in loop.todo,
           Claims(loop', t) => Claims(loop, t),
           Open(d, t) <=> Open(slot[s], t), Labels(d, t) <=> Labels(slot[s], t)
    PROVE  Counted(t)'
<1>1. /\ Cardinality(OpenAt(slot', t)) = OpenCount(t)
      /\ Cardinality(LabelAt(slot', t)) = LabelCount(t)
  <2>1. /\ Cardinality(OpenAt(slot', t)) =
             OpenCount(t) + (IF Open(d, t) THEN 1 ELSE 0) - (IF Open(slot[s], t) THEN 1 ELSE 0)
        /\ Cardinality(LabelAt(slot', t)) =
             LabelCount(t) + (IF Labels(d, t) THEN 1 ELSE 0) - (IF Labels(slot[s], t) THEN 1 ELSE 0)
    BY CountsMove
  <2>2. OpenCount(t) \in Nat /\ LabelCount(t) \in Nat
    BY Room
  <2> QED BY <2>1, <2>2
<1> QED BY <1>1, Unaffected

LEMMA NoPhase ==
    ASSUME NEW d, NEW t \in Tasks, d.task # t \/ d.at \in {"free", "taken"}
    PROVE  ~ Open(d, t) /\ ~ Labels(d, t)
BY DEF Open, Labels

\* The dispatches of t are forgotten: it has left the queue, or was helped.
LEMMA Forgotten ==
    ASSUME Typed, NEW t \in Tasks, Counted(t),
           \/ counts'[t] = counts[t] /\ (t \in labeled' <=> t \in labeled)
           \/ counts'[t] = 0 /\ t \notin labeled' /\ Threshold > 0,
           tries'[t] = 0, Claims(loop', t) => Claims(loop, t),
           Cardinality(LabelAt(slot', t)) <= LabelCount(t)
    PROVE  Counted(t)'
<1> DEFINE l == Cardinality(LabelAt(slot', t))
           w == Cardinality(OpenAt(slot', t))
<1>1. l \in Nat /\ w \in Nat
  BY CountsNat
<1>2. /\ LabelCount(t) <= Size(t) /\ LabelCount(t) \in Nat /\ Size(t) \in Nat
      /\ Extra(t) \in {0, 1} /\ (Extra(t) = 1 <=> Size(t) > 1)
  BY Room
<1>3. counts'[t] \in Nat /\ Cap(t) \in Int /\ 0 <= Cap(t)
  BY NumbersOK
<1>4. Sum(Size(t), l) \in Int /\ 0 <= Sum(Size(t), l)
  BY <1>1, <1>2, SumGrows, SumBounds
<1>5. l = Size(t) => LabelCount(t) = Size(t)
  BY <1>1, <1>2
<1>6. t \notin labeled' => counts'[t] < Threshold /\ (l = Size(t) => counts'[t] = 0)
  BY <1>5 DEF Counted, CountOK
<1>7. t \in labeled' /\ Claims(loop', t) => Size(t) > 1
  BY DEF Counted, CountOK
<1>8. /\ 2 * tries'[t] <= Cap(t) + 2 /\ 2 * tries'[t] <= Cap(t)
      /\ 2 * tries'[t] <= Sum(Size(t), l) + 2 * (counts'[t] + w + Extra(t))
      /\ t \in labeled' => 2 * (tries'[t] + (IF Claims(loop', t) THEN 1 ELSE 0))
                             <= Sum(Size(t), l) + 2 * Extra(t)
  BY <1>1, <1>2, <1>3, <1>4, <1>7
<1> HIDE DEF l, w
<1> QED BY <1>6, <1>7, <1>8, CountedAfter DEF l, w

\* The label ends the queueing of t, whichever kind of work on the number asked for it.
LEMMA NowQuarantined ==
    ASSUME Typed, NEW t \in Tasks, Counted(t),
           counts'[t] = counts[t], t \in labeled' <=> t \in labeled, tries'[t] = tries[t],
           loop' = loop, Number(t) \in quarantined',
           Cardinality(LabelAt(slot', t)) <= LabelCount(t)
    PROVE  Counted(t)'
<1>1. /\ 2 * tries[t] <= Cap(t) + 2
      /\ t \in loop.todo => 2 * tries[t] <= Cap(t)
  BY FitsCap, NumbersOK DEF Counted, TriesOK
<1>2. /\ LabelCount(t) <= Size(t) /\ LabelCount(t) \in Nat /\ Size(t) \in Nat
      /\ Cardinality(LabelAt(slot', t)) \in Nat
  BY Room, CountsNat
<1>3. Cardinality(LabelAt(slot', t)) = Size(t) => LabelCount(t) = Size(t)
  BY <1>2
<1> QED BY <1>1, <1>3, CountedAfter DEF Counted, CountOK, TriesOK

\* The phases of a task by the rest of its cleanup.
Phases(d, t, todo) ==
    /\ Open(d, t) <=> Has(todo, "recordFailure") \/ Has(todo, "dequeue")
    /\ Labels(d, t) <=> Has(todo, "label")

LEMMA RestPhases ==
    ASSUME Typed, NEW s \in Slots, slot[s].at = "clean",
           NEW todo, CleanupOK(todo), Rest(s, todo), NEW t \in Tasks
    PROVE  \E d : /\ slot' = [slot EXCEPT ![s] = d]
                  /\ slot[s].task = t => Phases(slot[s], t, slot[s].todo) /\ Phases(d, t, todo)
                  /\ slot[s].task # t => d.task # t
<1>1. PICK d \in SlotStates :
        /\ slot' = [slot EXCEPT ![s] = d]
        /\ todo = << >> => d.at = "free" /\ d.task = None
        /\ todo # << >> => d.at = "clean" /\ d.task = slot[s].task /\ d.todo = todo
  BY RestMoves
<1>2. slot[s].task # t => d.task # t
  BY <1>1, TasksAssumption
<1>3. ASSUME slot[s].task = t PROVE Phases(slot[s], t, slot[s].todo)
  BY <1>3 DEF Phases, Open, Labels
<1>4. ASSUME slot[s].task = t PROVE Phases(d, t, todo)
  <2>1. CASE todo = << >>
    <3>1. d.task # t
      BY <1>1, <2>1, TasksAssumption
    <3> QED BY <2>1, <3>1, NothingLeft, NoPhase DEF Phases
  <2>2. CASE todo # << >>
    BY <1>1, <1>4, <2>2 DEF Phases, Open, Labels
  <2> QED BY <2>1, <2>2
<1> QED BY <1>1, <1>2, <1>3, <1>4

\* A cleanup step of another task, or one that leaves the phases as they are.
LEMMA OtherCleanup ==
    ASSUME Typed, NEW t \in Tasks, Counted(t), NEW s \in Slots, slot[s].at = "clean",
           NEW todo, CleanupOK(todo), Rest(s, todo), slot[s].task # t,
           counts'[t] = counts[t], t \in labeled' <=> t \in labeled, tries'[t] = tries[t],
           Number(t) \in quarantined' <=> Number(t) \in quarantined, loop' = loop
    PROVE  Counted(t)'
<1>1. PICK d : slot' = [slot EXCEPT ![s] = d] /\ d.task # t
  BY RestPhases
<1>2. ~ Open(d, t) /\ ~ Labels(d, t) /\ ~ Open(slot[s], t) /\ ~ Labels(slot[s], t)
  BY <1>1, NoPhase
<1> QED BY <1>1, <1>2, SlotAlike

LEMMA PlainStep ==
    ASSUME Typed, NEW t \in Tasks, Counted(t), NEW s \in Slots,
           Doing(s, "unmark") \/ Doing(s, "release") \/ Doing(s, "remove"), Done(s),
           UNCHANGED <<counts, labeled, quarantined, tries, loop>>
    PROVE  Counted(t)'
<1>1. PICK step \in {"unmark", "release", "remove"} : Doing(s, step)
  OBVIOUS
<1> DEFINE todo == Tail(slot[s].todo)
<1>2. /\ slot[s].at = "clean" /\ CleanupOK(todo) /\ Rest(s, todo)
      /\ \A other : other # step => (Has(todo, other) <=> Has(slot[s].todo, other))
  BY <1>1, StepDone
<1> HIDE DEF todo
<1>3. PICK d : /\ slot' = [slot EXCEPT ![s] = d]
               /\ slot[s].task = t => Phases(slot[s], t, slot[s].todo) /\ Phases(d, t, todo)
               /\ slot[s].task # t => d.task # t
  BY <1>2, RestPhases
<1>4. CASE slot[s].task = t
  <2>1. /\ Open(d, t) <=> Open(slot[s], t)
        /\ Labels(d, t) <=> Labels(slot[s], t)
    BY <1>2, <1>3, <1>4 DEF Phases
  <2> QED BY <1>3, <2>1, SlotAlike
<1>5. CASE slot[s].task # t
  BY <1>2, <1>5, OtherCleanup
<1> QED BY <1>4, <1>5

\* A step of another task's dispatch, or one that changes no slot.
LEMMA SlotsSame ==
    ASSUME Typed, NEW t \in Tasks, Counted(t), slot' = slot,
           counts'[t] = counts[t], t \in labeled' <=> t \in labeled, tries'[t] = tries[t],
           Number(t) \in quarantined' <=> Number(t) \in quarantined,
           Number(t) \in quarantined /\ t \in loop'.todo => t \in loop.todo,
           Claims(loop', t) => Claims(loop, t)
    PROVE  Counted(t)'
<1>1. /\ Cardinality(OpenAt(slot', t)) = OpenCount(t)
      /\ Cardinality(LabelAt(slot', t)) = LabelCount(t)
  BY DEF OpenCount, LabelCount
<1> QED BY <1>1, Unaffected

\* What a cleanup step of t itself makes of the slots.
LEMMA OwnCleanup ==
    ASSUME Typed, NEW s \in Slots, slot[s].at = "clean",
           NEW todo, CleanupOK(todo), Rest(s, todo), NEW t \in Tasks, slot[s].task = t
    PROVE  \E d : /\ slot'[s] = d /\ \A r \in Slots \ {s} : slot'[r] = slot[r]
                  /\ Phases(slot[s], t, slot[s].todo) /\ Phases(d, t, todo)
                  /\ Cardinality(OpenAt(slot', t)) =
                       OpenCount(t) + (IF Open(d, t) THEN 1 ELSE 0)
                                    - (IF Open(slot[s], t) THEN 1 ELSE 0)
                  /\ Cardinality(LabelAt(slot', t)) =
                       LabelCount(t) + (IF Labels(d, t) THEN 1 ELSE 0)
                                     - (IF Labels(slot[s], t) THEN 1 ELSE 0)
<1>1. PICK d : /\ slot' = [slot EXCEPT ![s] = d]
               /\ Phases(slot[s], t, slot[s].todo) /\ Phases(d, t, todo)
  BY RestPhases
<1> QED BY <1>1, CountsMove

\* A cleanup step with which the dispatches of its task are forgotten.
LEMMA CleanupForgets ==
    ASSUME Typed, NEW t \in Tasks, Counted(t), NEW s \in Slots, slot[s].at = "clean",
           NEW todo, CleanupOK(todo), Rest(s, todo), Has(todo, "label") => Has(slot[s].todo, "label"),
           tries' = [tries EXCEPT ![slot[s].task] = 0], UNCHANGED <<quarantined, loop>>,
           slot[s].task # t => counts'[t] = counts[t] /\ (t \in labeled' <=> t \in labeled),
           \/ counts'[t] = counts[t] /\ (t \in labeled' <=> t \in labeled)
           \/ counts'[t] = 0 /\ t \notin labeled' /\ Threshold > 0
    PROVE  Counted(t)'
<1>1. CASE slot[s].task = t
  <2>1. PICK d : /\ Phases(slot[s], t, slot[s].todo) /\ Phases(d, t, todo)
                 /\ Cardinality(LabelAt(slot', t)) =
                      LabelCount(t) + (IF Labels(d, t) THEN 1 ELSE 0)
                                    - (IF Labels(slot[s], t) THEN 1 ELSE 0)
    BY <1>1, OwnCleanup
  <2>2. Labels(d, t) => Labels(slot[s], t)
    BY <2>1 DEF Phases
  <2>3. Cardinality(LabelAt(slot', t)) <= LabelCount(t)
    BY <2>1, <2>2, Room
  <2>4. tries'[t] = 0
    BY <1>1 DEF Typed, TypeOK
  <2> QED BY <2>3, <2>4, Forgotten
<1>2. CASE slot[s].task # t
  <2>1. tries'[t] = tries[t]
    BY <1>2 DEF Typed, TypeOK
  <2> QED BY <1>2, <2>1, OtherCleanup
<1> QED BY <1>1, <1>2

LEMMA DequeueCounted ==
    ASSUME Typed, NEW t \in Tasks, Counted(t), NEW s \in Slots, Dequeue(s)
    PROVE  Counted(t)'
<1>1. /\ Doing(s, "dequeue") /\ Done(s) /\ UNCHANGED <<counts, labeled, quarantined, loop>>
      /\ tries' = [tries EXCEPT ![slot[s].task] = 0]
  BY DEF Dequeue, quarantine
<1>2. /\ slot[s].at = "clean" /\ CleanupOK(Tail(slot[s].todo)) /\ Rest(s, Tail(slot[s].todo))
      /\ Has(Tail(slot[s].todo), "label") => Has(slot[s].todo, "label")
  BY <1>1, StepDone
<1> QED BY <1>1, <1>2, CleanupForgets

LEMMA ReleaseCounted ==
    ASSUME Typed, NEW t \in Tasks, Counted(t), NEW s \in Slots, Release(s)
    PROVE  Counted(t)'
<1>1. /\ Doing(s, "release") /\ UNCHANGED <<counts, labeled, quarantined, loop>>
      /\ \/ Done(s) /\ tries' = tries
         \/ Rest(s, << >>) /\ tries' = [tries EXCEPT ![slot[s].task] = 0]
  BY DEF Release, quarantine
<1>2. CASE Done(s) /\ tries' = tries
  BY <1>1, <1>2, PlainStep
<1>3. CASE Rest(s, << >>) /\ tries' = [tries EXCEPT ![slot[s].task] = 0]
  BY <1>1, <1>3, NothingLeft, CleanupForgets DEF Doing
<1> QED BY <1>1, <1>2, <1>3

LEMMA SuccessCounted ==
    ASSUME Typed, Threshold > 0, NEW t \in Tasks, Counted(t), NEW s \in Slots, RecordSuccess(s)
    PROVE  Counted(t)'
<1>1. /\ Doing(s, "recordSuccess") /\ Done(s) /\ UNCHANGED <<quarantined, loop>>
      /\ ClearRecord(slot[s].task) /\ tries' = [tries EXCEPT ![slot[s].task] = 0]
  BY DEF RecordSuccess, github
<1>2. /\ slot[s].at = "clean" /\ CleanupOK(Tail(slot[s].todo)) /\ Rest(s, Tail(slot[s].todo))
      /\ Has(Tail(slot[s].todo), "label") => Has(slot[s].todo, "label")
  BY <1>1, StepDone
<1>3. CASE slot[s].task = t
  <2>1. counts'[t] = 0 /\ t \notin labeled'
    BY <1>1, <1>3 DEF ClearRecord, Typed, TypeOK
  <2> QED BY <1>1, <1>2, <1>3, <2>1, CleanupForgets
<1>4. CASE slot[s].task # t
  <2>1. counts'[t] = counts[t] /\ (t \in labeled' <=> t \in labeled)
    BY <1>1, <1>4 DEF ClearRecord, Typed, TypeOK
  <2> QED BY <1>1, <1>2, <1>4, <2>1, CleanupForgets
<1> QED BY <1>3, <1>4

LEMMA FailureCounted ==
    ASSUME Typed, NEW t \in Tasks, Counted(t), NEW s \in Slots, NoteFailure(s)
    PROVE  Counted(t)'
<1>1. /\ Doing(s, "recordFailure") /\ UNCHANGED <<quarantined, loop, tries>>
      /\ RecordFailure(slot[s].task) /\ Rest(s, AfterFailure(s))
  BY DEF NoteFailure, AfterFailure, github
<1>2. /\ slot[s].at = "clean" /\ CleanupOK(AfterFailure(s)) /\ slot[s].task \in Tasks
  BY <1>1, DoingOK, AfterFailureOK
<1>3. CASE slot[s].task = t
  <2>1. /\ Has(slot[s].todo, "recordFailure") /\ ~ Has(slot[s].todo, "label")
        /\ ~ Has(slot[s].todo, "dequeue")
        /\ ~ Has(AfterFailure(s), "recordFailure") /\ ~ Has(AfterFailure(s), "recordSuccess")
        /\ ~ Has(AfterFailure(s), "dequeue")
        /\ Has(AfterFailure(s), "label") <=> ShouldLabel(t)
    BY <1>1, <1>3, FailureRest
  <2>2. PICK d : /\ slot'[s] = d /\ \A r \in Slots \ {s} : slot'[r] = slot[r]
                 /\ Phases(slot[s], t, slot[s].todo) /\ Phases(d, t, AfterFailure(s))
                 /\ Cardinality(OpenAt(slot', t)) =
                      OpenCount(t) + (IF Open(d, t) THEN 1 ELSE 0)
                                   - (IF Open(slot[s], t) THEN 1 ELSE 0)
                 /\ Cardinality(LabelAt(slot', t)) =
                      LabelCount(t) + (IF Labels(d, t) THEN 1 ELSE 0)
                                    - (IF Labels(slot[s], t) THEN 1 ELSE 0)
    BY <1>1, <1>2, <1>3, OwnCleanup
  <2>3. /\ Open(slot[s], t) /\ ~ Open(d, t) /\ ~ Labels(slot[s], t)
        /\ Labels(d, t) <=> ShouldLabel(t)
    BY <2>1, <2>2 DEF Phases
  <2> DEFINE l == Cardinality(LabelAt(slot', t))
             w == Cardinality(OpenAt(slot', t))
             n == Size(t)
  <2>6. l \in Nat /\ w \in Nat
    BY CountsNat
  <2>7. /\ OpenCount(t) = w + 1
        /\ l = IF ShouldLabel(t) THEN LabelCount(t) + 1 ELSE LabelCount(t)
    <3>1. OpenCount(t) \in Nat /\ LabelCount(t) \in Nat
      BY Room
    <3> QED BY <2>2, <2>3, <3>1
  <2> HIDE DEF l, w
  <2>8. /\ n \in Nat /\ LabelCount(t) \in Nat
        /\ ClaimCount(t) \in {0, 1} /\ (ClaimCount(t) = 1 <=> Claims(loop, t))
        /\ Extra(t) \in {0, 1} /\ w + 1 + LabelCount(t) + ClaimCount(t) <= n
    BY <2>7, Room
  <2>9. /\ counts[t] \in 0 .. Threshold /\ counts[t] \in Nat /\ tries[t] \in Nat
        /\ Threshold \in Nat /\ Sum(n, LabelCount(t)) \in Int
    BY NumbersOK
  <2>10. counts'[t] = IF counts[t] < Threshold THEN counts[t] + 1 ELSE counts[t]
    BY <1>1, <1>2, <1>3 DEF RecordFailure, Typed, TypeOK
  <2>11. /\ t \in labeled' <=> t \in labeled \/ ShouldLabel(t)
         /\ ShouldLabel(t) <=> Threshold > 0 /\ counts[t] + 1 >= Threshold /\ t \notin labeled
    BY <1>1, <1>3 DEF RecordFailure, ShouldLabel
  <2>12. t \notin labeled => counts[t] < Threshold
    BY DEF Counted, CountOK
  <2>13. t \notin labeled' =>
           /\ counts'[t] < Threshold /\ l # n
           /\ counts'[t] = counts[t] + 1 /\ l = LabelCount(t) /\ t \notin labeled
    BY <2>6, <2>7, <2>8, <2>9, <2>10, <2>11, <2>12
  <2>14. t \in labeled' /\ Claims(loop', t) => n > 1
    <3>1. Claims(loop', t) => ClaimCount(t) = 1
      BY <1>1, <2>8
    <3>2. ClaimCount(t) = 1 => n > 1
      BY <2>6, <2>8
    <3> QED BY <3>1, <3>2
  <2>15. ASSUME Number(t) \notin quarantined'
         PROVE  IF t \in labeled'
                THEN 2 * (tries'[t] + (IF Claims(loop', t) THEN 1 ELSE 0))
                       <= Sum(n, l) + 2 * Extra(t)
                ELSE 2 * tries'[t] <= Sum(n, l) + 2 * (counts'[t] + w + Extra(t))
    <3>1. TriesFit(t) /\ tries'[t] = tries[t]
      BY <1>1, <2>15 DEF Counted, TriesOK
    <3>2. (IF Claims(loop', t) THEN 1 ELSE 0) = ClaimCount(t)
      BY <1>1 DEF ClaimCount
    <3>3. CASE t \in labeled
      <4>1. 2 * (tries[t] + ClaimCount(t)) <= Sum(n, LabelCount(t)) + 2 * Extra(t)
        BY <2>15, <3>1, <3>3 DEF TriesFit
      <4>2. t \in labeled' /\ l = LabelCount(t)
        BY <2>7, <2>11, <3>3
      <4> QED BY <3>1, <3>2, <4>1, <4>2
    <3>4. CASE t \notin labeled
      <4>1. 2 * tries[t] <= Sum(n, LabelCount(t)) + 2 * (counts[t] + (w + 1) + Extra(t))
        BY <2>7, <2>15, <3>1, <3>4 DEF TriesFit
      <4>2. CASE t \notin labeled'
        <5>1. counts'[t] = counts[t] + 1 /\ l = LabelCount(t)
          BY <2>13, <4>2
        <5>2. 2 * tries[t] <= Sum(n, LabelCount(t)) + 2 * ((counts[t] + 1) + w + Extra(t))
          BY <2>6, <2>8, <2>9, <4>1
        <5> QED BY <3>1, <4>2, <5>1, <5>2
      <4>3. CASE t \in labeled'
        <5>1. counts[t] + 1 = Threshold /\ l = LabelCount(t) + 1
          BY <2>7, <2>9, <2>11, <2>12, <3>4, <4>3
        <5>2. Sum(n, l) = Sum(n, LabelCount(t)) + 2 * Threshold + 2 * (n - (LabelCount(t) + 1))
          BY <2>8, <5>1, SumGrows
        <5>3. 2 * (tries[t] + ClaimCount(t)) <= Sum(n, l) + 2 * Extra(t)
          BY <2>6, <2>8, <2>9, <4>1, <5>1, <5>2
        <5> QED BY <3>1, <3>2, <4>3, <5>3
      <4> QED BY <4>2, <4>3
    <3> QED BY <3>3, <3>4
  <2>17. Number(t) \in quarantined' =>
           2 * tries'[t] <= Cap(t) + 2 /\ (t \in loop'.todo => 2 * tries'[t] <= Cap(t))
    BY <1>1 DEF Counted, TriesOK
  <2> QED BY <2>13, <2>14, <2>15, <2>17, CountedAfter DEF l, w
<1>4. CASE slot[s].task # t
  <2>1. counts'[t] = counts[t] /\ (t \in labeled' <=> t \in labeled)
    BY <1>1, <1>2, <1>4 DEF RecordFailure, Typed, TypeOK
  <2>2. tries'[t] = tries[t] /\ (Number(t) \in quarantined' <=> Number(t) \in quarantined)
    BY <1>1
  <2> QED BY <1>1, <1>2, <1>4, <2>1, <2>2, OtherCleanup
<1> QED BY <1>3, <1>4

LEMMA LabelCounted ==
    ASSUME Typed, NEW t \in Tasks, Counted(t), NEW s \in Slots, LabelQuarantine(s)
    PROVE  Counted(t)'
<1>1. /\ Doing(s, "label") /\ Done(s) /\ UNCHANGED <<counts, labeled, loop>>
      /\ \/ quarantined' = quarantined \cup {Number(slot[s].task)} /\ tries' = tries
         \/ quarantined' = quarantined /\ tries' = [tries EXCEPT ![slot[s].task] = 0]
  BY DEF LabelQuarantine, quarantine
<1>2. /\ slot[s].at = "clean" /\ CleanupOK(Tail(slot[s].todo)) /\ Rest(s, Tail(slot[s].todo))
      /\ Has(slot[s].todo, "label") /\ ~ Has(Tail(slot[s].todo), "label")
  BY <1>1, StepDone
<1>3. CASE slot[s].task = t
  <2>1. PICK d : /\ slot'[s] = d /\ \A r \in Slots \ {s} : slot'[r] = slot[r]
                 /\ Phases(slot[s], t, slot[s].todo) /\ Phases(d, t, Tail(slot[s].todo))
                 /\ Cardinality(LabelAt(slot', t)) =
                      LabelCount(t) + (IF Labels(d, t) THEN 1 ELSE 0)
                                    - (IF Labels(slot[s], t) THEN 1 ELSE 0)
    BY <1>2, <1>3, OwnCleanup
  <2>2. ~ Labels(d, t)
    BY <1>2, <2>1 DEF Phases
  <2>3. Cardinality(LabelAt(slot', t)) <= LabelCount(t)
    BY <2>1, <2>2, Room
  <2>5. CASE quarantined' = quarantined \cup {Number(slot[s].task)} /\ tries' = tries
    BY <1>1, <1>3, <2>3, <2>5, NowQuarantined
  <2>6. CASE quarantined' = quarantined /\ tries' = [tries EXCEPT ![slot[s].task] = 0]
    <3>1. tries'[t] = 0
      BY <1>3, <2>6 DEF Typed, TypeOK
    <3> QED BY <1>1, <2>3, <3>1, Forgotten
  <2> QED BY <1>1, <2>5, <2>6
<1>4. CASE slot[s].task # t
  <2>1. tries'[t] = tries[t]
    BY <1>1, <1>4 DEF Typed, TypeOK
  <2>2. CASE Number(t) \in quarantined'
    <3>1. PICK d : slot' = [slot EXCEPT ![s] = d] /\ d.task # t
      BY <1>2, <1>4, RestPhases
    <3>2. ~ Labels(d, t) /\ ~ Labels(slot[s], t)
      BY <1>4, <3>1, NoPhase
    <3>3. /\ slot'[s] = d /\ \A r \in Slots \ {s} : slot'[r] = slot[r]
          /\ Cardinality(LabelAt(slot', t)) =
               LabelCount(t) + (IF Labels(d, t) THEN 1 ELSE 0)
                             - (IF Labels(slot[s], t) THEN 1 ELSE 0)
      BY <3>1, CountsMove
    <3>4. Cardinality(LabelAt(slot', t)) <= LabelCount(t)
      BY <3>2, <3>3, Room
    <3> QED BY <1>1, <2>1, <2>2, <3>4, NowQuarantined
  <2>3. CASE Number(t) \notin quarantined'
    <3>1. Number(t) \in quarantined' <=> Number(t) \in quarantined
      BY <1>1, <2>3
    <3> QED BY <1>1, <1>2, <1>4, <2>1, <3>1, OtherCleanup
  <2> QED BY <2>2, <2>3
<1> QED BY <1>3, <1>4

\* A dispatch that ends has its failure to record or its item to take out of the queue:
\* only a merger's may leave it at that, and mergers have no quarantine.
LEMMA EndCounted ==
    ASSUME Typed, NEW t \in Tasks, HasQuarantine(Kind(t)), Counted(t), NEW s \in Slots,
           \/ \E exit \in {"unready", "fail", "guard", "retry", "ok"} : EndEarly(s, exit)
           \/ \E exit \in {"ok", "fail", "blocked"} : EndLate(s, exit)
    PROVE  Counted(t)'
<1>1. PICK exit \in Exits : EndEarly(s, exit) \/ EndLate(s, exit)
  BY DEF Exits
<1>2. /\ slot[s].at \in {"prep", "run"} /\ Conclude(s, exit)
      /\ exit \in EarlyExits(Kind(slot[s].task)) \cup LateExits(Kind(slot[s].task))
      /\ UNCHANGED <<counts, labeled, quarantined, tries, loop>>
  BY <1>1 DEF EndEarly, EndLate, Possible, github, quarantine
<1>3. PICK d \in SlotStates :
        /\ slot' = [slot EXCEPT ![s] = d]
        /\ d.at = "clean" /\ d.task = slot[s].task
        /\ d.todo = Cleanup(Kind(slot[s].task), exit) /\ CleanupOK(d.todo)
  BY <1>2, ConcludeMoves
<1>4. CASE slot[s].task = t
  <2>1. Kind(t) \in Kinds /\ Kind(t) # "merger" /\ exit # "retry"
    <3>1. Kind(t) \in Kinds /\ Kind(t) # "merger"
      BY TasksAssumption DEF HasQuarantine, Kind
    <3> QED BY <1>2, <1>4, <3>1 DEF EarlyExits, LateExits, Kinds
  <2>2. /\ Has(d.todo, "recordFailure") \/ Has(d.todo, "dequeue")
        /\ ~ Has(d.todo, "label")
    BY <1>3, <1>4, <2>1, CleanupsOK
  <2>3. Open(d, t) /\ ~ Labels(d, t)
    BY <1>3, <1>4, <2>2 DEF Open, Labels
  <2>4. Open(slot[s], t) /\ ~ Labels(slot[s], t)
    BY <1>2, <1>4 DEF Open, Labels
  <2> QED BY <1>2, <1>3, <2>3, <2>4, SlotAlike
<1>5. CASE slot[s].task # t
  <2>1. ~ Open(d, t) /\ ~ Labels(d, t) /\ ~ Open(slot[s], t) /\ ~ Labels(slot[s], t)
    BY <1>3, <1>5, NoPhase
  <2> QED BY <1>2, <1>3, <2>1, SlotAlike
<1> QED BY <1>4, <1>5

LEMMA PrepareCounted ==
    ASSUME Typed, NEW t \in Tasks, Counted(t), NEW s \in Slots, Prepare(s)
    PROVE  Counted(t)'
<1>1. slot[s].at = "prep" /\ UNCHANGED <<counts, labeled, quarantined, tries, loop>>
  BY DEF Prepare, github, quarantine
<1> DEFINE d == [slot[s] EXCEPT !.at = "run"]
<1>2. slot' = [slot EXCEPT ![s] = d]
  BY DEF Prepare
<1>3. d.at = "run" /\ d.task = slot[s].task
  BY DEF Typed, TypeOK, SlotStates
<1> HIDE DEF d
<1>4. /\ Open(d, t) <=> Open(slot[s], t)
      /\ ~ Labels(d, t) /\ ~ Labels(slot[s], t)
  BY <1>1, <1>3 DEF Open, Labels
<1> QED BY <1>1, <1>2, <1>4, SlotAlike

LEMMA ListCounted ==
    ASSUME Typed, NEW t \in Tasks, HasQuarantine(Kind(t)), Counted(t), List \/ TickEnd
    PROVE  Counted(t)'
<1>1. UNCHANGED <<counts, labeled, quarantined, tries, slot>>
  BY DEF List, TickEnd, github, quarantine
<1>2. loop'.at \in {"list", "pick"} /\ (Number(t) \in quarantined => t \notin loop'.todo)
  <2>1. CASE loop' = NextScheduler
    BY <2>1, NextSchedulerTyped
  <2>2. CASE List /\ loop' # NextScheduler
    <3>1. loop' = [loop EXCEPT !.at = "pick", !.todo = Candidates(Schedulers[loop.sched])]
      BY <2>2 DEF List
    <3>2. loop'.at = "pick" /\ loop'.todo = Candidates(Schedulers[loop.sched])
      BY <3>1 DEF Typed, TypeOK, LoopStates
    <3>3. Number(t) \in quarantined => t \notin Candidates(Schedulers[loop.sched])
      BY DEF Candidates
    <3> QED BY <3>2, <3>3
  <2> QED BY <2>1, <2>2 DEF TickEnd
<1> QED BY <1>1, <1>2, SlotsSame DEF Claims

\* A candidate that carried the label starts anew; the failures counted so far make up for
\* the dispatches made, but for those that are open.
LEMMA PickCounted ==
    ASSUME Typed, Threshold > 0, NEW t \in Tasks, Counted(t), Pick
    PROVE  Counted(t)'
<1>1. PICK u \in loop.todo :
        /\ ResetIfLabeled(u)
        /\ \/ loop' = NextScheduler /\ slot' = slot
           \/ \E s \in Free(Kind(u)) :
                /\ loop' = [loop EXCEPT !.at = "claim", !.task = u, !.slot = s]
                /\ slot' = [slot EXCEPT ![s].at = "taken"]
  BY DEF Pick
<1>2. u \in Tasks /\ UNCHANGED <<quarantined, tries>> /\ loop.at = "pick"
  BY DEF Pick, Typed, TypeOK, LoopStates, github
<1>3. (Claims(loop', t) => u = t) /\ loop'.todo \subseteq loop.todo /\ ~ Claims(loop, t)
  <2>1. CASE loop' = NextScheduler
    BY <1>2, <2>1, NextSchedulerTyped DEF Claims
  <2>2. CASE \E s \in Slots : loop' = [loop EXCEPT !.at = "claim", !.task = u, !.slot = s]
    BY <1>2, <2>2 DEF Claims, Typed, TypeOK, LoopStates
  <2> QED BY <1>1, <2>1, <2>2 DEF Free
<1>4. /\ Cardinality(OpenAt(slot', t)) = OpenCount(t)
      /\ Cardinality(LabelAt(slot', t)) = LabelCount(t)
  <2>1. CASE slot' = slot
    BY <2>1 DEF OpenCount, LabelCount
  <2>2. CASE slot' # slot
    <3>1. PICK s \in Free(Kind(u)) : slot' = [slot EXCEPT ![s].at = "taken"]
      BY <1>1, <2>2
    <3>2. s \in Slots /\ slot[s] \in SlotStates /\ slot[s].at = "free"
      BY <3>1 DEF Free, Typed, TypeOK
    <3> DEFINE d == [slot[s] EXCEPT !.at = "taken"]
    <3>3. d.at = "taken" /\ slot' = [slot EXCEPT ![s] = d]
      BY <3>1, <3>2 DEF SlotStates
    <3> HIDE DEF d
    <3>4. ~ Open(d, t) /\ ~ Labels(d, t) /\ ~ Open(slot[s], t) /\ ~ Labels(slot[s], t)
      BY <3>2, <3>3, NoPhase
    <3>5. /\ Cardinality(OpenAt(slot', t)) =
               OpenCount(t) + (IF Open(d, t) THEN 1 ELSE 0) - (IF Open(slot[s], t) THEN 1 ELSE 0)
          /\ Cardinality(LabelAt(slot', t)) =
               LabelCount(t) + (IF Labels(d, t) THEN 1 ELSE 0)
                             - (IF Labels(slot[s], t) THEN 1 ELSE 0)
      BY <3>2, <3>3, CountsMove
    <3>6. OpenCount(t) \in Nat /\ LabelCount(t) \in Nat
      BY Room
    <3> QED BY <3>4, <3>5, <3>6
  <2> QED BY <2>1, <2>2
<1>5. /\ tries'[t] = tries[t] /\ (Number(t) \in quarantined' <=> Number(t) \in quarantined)
      /\ Number(t) \in quarantined' =>
           2 * tries'[t] <= Cap(t) + 2 /\ (t \in loop'.todo => 2 * tries'[t] <= Cap(t))
  BY <1>2, <1>3, <1>4 DEF Counted, TriesOK
<1>6. CASE t \in labeled /\ u = t
  <2>1. counts'[t] = 0 /\ t \notin labeled'
    BY <1>1, <1>6 DEF ResetIfLabeled, ClearRecord, Typed, TypeOK
  <2>2. /\ OpenCount(t) \in Nat /\ Extra(t) \in {0, 1} /\ tries[t] \in Nat /\ ClaimCount(t) \in {0, 1}
        /\ Sum(Size(t), LabelCount(t)) \in Int
    BY Room, NumbersOK
  <2>3. ASSUME Number(t) \notin quarantined'
        PROVE  2 * tries'[t] <=
                 Sum(Size(t), LabelCount(t)) + 2 * (counts'[t] + OpenCount(t) + Extra(t))
    <3>1. 2 * (tries[t] + ClaimCount(t)) <= Sum(Size(t), LabelCount(t)) + 2 * Extra(t)
      BY <1>2, <1>6, <2>3 DEF Counted, TriesOK, TriesFit
    <3> QED BY <1>5, <2>1, <2>2, <3>1
  <2> QED BY <1>4, <1>5, <2>1, <2>3, CountedAfter
<1>7. CASE ~ (t \in labeled /\ u = t)
  <2>1. counts'[t] = counts[t] /\ (t \in labeled' <=> t \in labeled)
    BY <1>1, <1>2, <1>7 DEF ResetIfLabeled, ClearRecord, quarantine, Typed, TypeOK
  <2>2. CASE t \in labeled
    <3>1. ~ Claims(loop', t)
      BY <1>3, <1>7, <2>2
    <3> QED BY <1>2, <1>3, <1>4, <1>5, <2>1, <3>1, Unaffected
  <2>3. CASE t \notin labeled
    <3>1. /\ counts'[t] < Threshold
          /\ LabelCount(t) = Size(t) => counts'[t] = 0
          /\ t \notin labeled'
      BY <2>1, <2>3 DEF Counted, CountOK
    <3>2. Number(t) \notin quarantined' =>
            2 * tries'[t] <= Sum(Size(t), LabelCount(t)) + 2 * (counts'[t] + OpenCount(t) + Extra(t))
      BY <1>4, <1>5, <2>1, <2>3 DEF Counted, TriesOK, TriesFit
    <3> QED BY <1>4, <1>5, <3>1, <3>2, CountedAfter
  <2> QED BY <2>2, <2>3
<1> QED BY <1>6, <1>7

LEMMA ClaimCounted ==
    ASSUME Typed, NEW t \in Tasks, Counted(t), Claim
    PROVE  Counted(t)'
<1>1. /\ loop.at = "claim" /\ loop \in LoopStates
      /\ loop.slot \in Slots /\ slot[loop.slot].at = "taken"
      /\ UNCHANGED <<counts, labeled, quarantined, tries>>
  BY SlotsAssumption DEF Claim, Typed, LoopHolds, TypeOK, quarantine
<1>2. CASE loop' = [loop EXCEPT !.at = "mark"] /\ slot' = slot
  <2>1. loop'.task = loop.task /\ loop'.todo = loop.todo
    BY <1>1, <1>2 DEF LoopStates
  <2> QED BY <1>1, <1>2, <2>1, SlotsSame DEF Claims
<1>3. CASE loop' = Skip /\ slot' = [slot EXCEPT ![loop.slot] = FreeSlot]
  <2>1. loop'.at = "pick" /\ loop'.todo \subseteq loop.todo
    BY <1>3, SkipTyped
  <2>2. /\ ~ Open(FreeSlot, t) /\ ~ Labels(FreeSlot, t)
        /\ ~ Open(slot[loop.slot], t) /\ ~ Labels(slot[loop.slot], t)
    BY <1>1, FreeSlotTyped, NoPhase
  <2>3. ~ Claims(loop', t)
    BY <2>1 DEF Claims
  <2> QED BY <1>1, <1>3, <2>1, <2>2, <2>3, SlotAlike
<1> QED BY <1>2, <1>3, ClaimMoves

LEMMA MarkCounted ==
    ASSUME Typed, NEW t \in Tasks, Counted(t), MarkAndDispatch
    PROVE  Counted(t)'
<1>1. /\ loop.at = "mark" /\ loop.slot \in Slots /\ loop.task \in Tasks /\ loop.task \in loop.todo
      /\ slot[loop.slot].at = "taken"
      /\ UNCHANGED <<counts, labeled, quarantined>>
  BY DispatchStarts DEF MarkAndDispatch, quarantine
<1>2. loop'.at = "pick" /\ loop'.todo = loop.todo \ {loop.task}
  BY DispatchStarts
<1>3. ~ Claims(loop', t)
  BY <1>2 DEF Claims
<1>4. PICK d : slot' = [slot EXCEPT ![loop.slot] = d] /\ d.at = "prep" /\ d.task = loop.task
  BY DispatchStarts
<1>5. tries' = tries \/ tries' = [tries EXCEPT ![loop.task] = @ + 1]
  BY DEF MarkAndDispatch
<1>6. /\ ~ Labels(d, t) /\ (Open(d, t) <=> loop.task = t)
      /\ ~ Open(slot[loop.slot], t) /\ ~ Labels(slot[loop.slot], t)
  BY <1>1, <1>4, NoPhase DEF Open, Labels
<1>7. CASE loop.task = t
  <2>1. Claims(loop, t)
    BY <1>1, <1>7 DEF Claims
  <2>3. /\ Cardinality(OpenAt(slot', t)) =
             OpenCount(t) + (IF Open(d, t) THEN 1 ELSE 0)
                          - (IF Open(slot[loop.slot], t) THEN 1 ELSE 0)
        /\ Cardinality(LabelAt(slot', t)) =
             LabelCount(t) + (IF Labels(d, t) THEN 1 ELSE 0)
                           - (IF Labels(slot[loop.slot], t) THEN 1 ELSE 0)
    BY <1>1, <1>4, CountsMove
  <2>5. /\ OpenCount(t) \in Nat /\ LabelCount(t) \in Nat /\ Extra(t) \in {0, 1}
        /\ ClaimCount(t) = 1
    BY <2>1, Room
  <2>6. /\ Cardinality(OpenAt(slot', t)) = OpenCount(t) + 1
        /\ Cardinality(LabelAt(slot', t)) = LabelCount(t)
    BY <1>6, <1>7, <2>3, <2>5
  <2>7. /\ counts[t] \in Nat /\ tries[t] \in Nat /\ Cap(t) \in Int
        /\ Sum(Size(t), LabelCount(t)) \in Int
    BY NumbersOK
  <2>8. tries'[t] \in Nat /\ tries'[t] <= tries[t] + 1
    BY <1>5, <1>7, <2>7 DEF Typed, TypeOK
  <2>9. Number(t) \in quarantined' => 2 * tries'[t] <= Cap(t) + 2 /\ t \notin loop'.todo
    <3>1. Number(t) \in quarantined' => 2 * tries[t] <= Cap(t)
      BY <1>1, <1>7 DEF Counted, TriesOK
    <3> QED BY <1>2, <1>7, <2>7, <2>8, <3>1
  <2>10. ASSUME Number(t) \notin quarantined', t \in labeled
         PROVE  2 * (tries'[t] + 0) <= Sum(Size(t), LabelCount(t)) + 2 * Extra(t)
    <3>1. 2 * (tries[t] + ClaimCount(t)) <= Sum(Size(t), LabelCount(t)) + 2 * Extra(t)
      BY <1>1, <2>5, <2>10 DEF Counted, TriesOK, TriesFit
    <3> QED BY <2>5, <2>7, <2>8, <3>1
  <2>11. ASSUME Number(t) \notin quarantined', t \notin labeled
         PROVE  2 * tries'[t] <= Sum(Size(t), LabelCount(t))
                                   + 2 * (counts'[t] + (OpenCount(t) + 1) + Extra(t))
    <3>1. 2 * tries[t] <= Sum(Size(t), LabelCount(t)) + 2 * (counts[t] + OpenCount(t) + Extra(t))
      BY <1>1, <2>5, <2>11 DEF Counted, TriesOK, TriesFit
    <3>2. counts'[t] = counts[t]
      BY <1>1
    <3> QED BY <2>5, <2>7, <2>8, <3>1, <3>2
  <2>12. t \notin labeled' =>
           counts'[t] < Threshold /\ (LabelCount(t) = Size(t) => counts'[t] = 0)
    BY <1>1 DEF Counted, CountOK
  <2> QED BY <1>1, <1>3, <2>6, <2>9, <2>10, <2>11, <2>12, CountedAfter
<1>8. CASE loop.task # t
  <2>1. tries'[t] = tries[t]
    BY <1>1, <1>5, <1>8 DEF Typed, TypeOK
  <2> QED BY <1>1, <1>2, <1>3, <1>4, <1>6, <1>8, <2>1, SlotAlike
<1> QED BY <1>7, <1>8

LEMMA OthersCounted ==
    ASSUME Typed, NEW t \in Tasks, Counted(t),
           NEW u \in Tasks, Sweep(u) \/ Enqueue(u) \/ Unblock(u) \/ Unquarantine(Number(u))
    PROVE  Counted(t)'
<1>1. UNCHANGED <<counts, labeled, loop, slot>>
  BY DEF Sweep, Enqueue, Unblock, Unquarantine, quarantine
<1>2. \/ tries'[t] = 0
      \/ tries'[t] = tries[t] /\ (Number(t) \in quarantined' <=> Number(t) \in quarantined)
  BY DEF Sweep, Enqueue, Unblock, Unquarantine, Typed, TypeOK
<1>3. Cardinality(LabelAt(slot', t)) <= LabelCount(t)
  <2>1. LabelAt(slot', t) = LabelAt(slot, t)
    BY <1>1
  <2> QED BY <2>1, Room DEF LabelCount
<1> QED BY <1>1, <1>2, <1>3, Forgotten, SlotsSame

LEMMA StepCounted ==
    ASSUME Threshold > 0, Typed, [Next]_vars,
           NEW t \in Tasks, HasQuarantine(Kind(t)), Counted(t)
    PROVE  Counted(t)'
<1>1. CASE UNCHANGED vars
  BY <1>1, SlotsSame DEF vars, github, quarantine
<1>2. CASE LoopStep
  BY <1>2, ListCounted, PickCounted, ClaimCounted, MarkCounted DEF LoopStep
<1>3. ASSUME NEW s \in Slots, SlotStep(s) PROVE Counted(t)'
  <2>1. CASE Unmark(s) \/ RemoveWorktree(s)
    BY <2>1, PlainStep DEF Unmark, RemoveWorktree, github, quarantine
  <2> QED BY <1>3, <2>1, PrepareCounted, EndCounted, DequeueCounted, ReleaseCounted,
          SuccessCounted, FailureCounted, LabelCounted DEF SlotStep
<1> QED BY <1>1, <1>2, <1>3, OthersCounted DEF Next

LEMMA InitCounted ==
    ASSUME Init, Threshold > 0, NEW t \in Tasks
    PROVE  Counted(t)
<1>1. loop.at = "list"
  BY DEF Init, LoopAt
<1>2. counts[t] = 0 /\ tries[t] = 0 /\ t \notin labeled /\ Number(t) \notin quarantined
  BY DEF Init
<1>3. Typed
  BY InitTyped
<1>6. CountOK(t)
  BY <1>2 DEF CountOK
<1>7. /\ OpenCount(t) \in Nat /\ Extra(t) \in {0, 1}
      /\ Sum(Size(t), LabelCount(t)) \in Int /\ 0 <= Sum(Size(t), LabelCount(t))
  BY <1>3, Room, NumbersOK
<1>8. 2 * tries[t] <= Sum(Size(t), LabelCount(t)) + 2 * (counts[t] + OpenCount(t) + Extra(t))
  BY <1>2, <1>7
<1>9. TriesFit(t)
  BY <1>2, <1>8 DEF TriesFit
<1> QED BY <1>2, <1>6, <1>9 DEF Counted, TriesOK

AllCounted == \A t \in Tasks : HasQuarantine(Kind(t)) => Counted(t)

LEMMA CountedBounds ==
    ASSUME Typed, AllCounted
    PROVE  BoundedRetries
<1> SUFFICES ASSUME NEW t \in Tasks, HasQuarantine(Kind(t)) PROVE tries[t] <= RetryBound(t)
  BY DEF BoundedRetries
<1>1. Counted(t)
  BY DEF AllCounted
<1>2. tries[t] \in Nat /\ Cap(t) \in Int /\ Size(t) \in Nat
  BY NumbersOK, Room
<1>3. 2 * tries[t] <= Cap(t) + 2
  BY <1>1, <1>2, FitsCap DEF Counted, TriesOK
<1>4. 2 * RetryBound(t) >= Cap(t) + 2 /\ RetryBound(t) \in Int
  BY <1>2, CapIsBound
<1> QED BY <1>2, <1>3, <1>4

\* Quarantine stops a task that keeps failing: between two of the events BoundedRetries
\* names it is dispatched at most RetryBound times, whatever the schedulers, the slots, the
\* tasks that share its number, the sweeper and the calls that fail (Tick, listCandidates,
\* failCleanup, RecordFailure).
THEOREM RetriesBounded == Spec => []BoundedRetries
<1>1. CASE Threshold > 0
  <2>1. Init => Typed /\ AllCounted
    BY <1>1, InitTyped, InitCounted DEF AllCounted
  <2>2. Typed /\ AllCounted /\ [Next]_vars => (Typed /\ AllCounted)'
    <3> SUFFICES ASSUME Typed, AllCounted, [Next]_vars PROVE Typed' /\ AllCounted'
      OBVIOUS
    <3>1. ASSUME NEW t \in Tasks, HasQuarantine(Kind(t)) PROVE Counted(t)'
      BY <1>1, <3>1, StepCounted DEF AllCounted
    <3>2. AllCounted'
      BY <3>1 DEF AllCounted, HasQuarantine, Kind
    <3> QED BY <3>2, StepTyped
  <2>3. Typed /\ AllCounted => BoundedRetries
    BY CountedBounds
  <2> QED BY <2>1, <2>2, <2>3, PTL DEF Spec
<1>2. CASE ~ (Threshold > 0)
  <2>1. BoundedRetries
    BY <1>2 DEF BoundedRetries
  <2> QED BY <2>1, PTL
<1> QED BY <1>1, <1>2
=============================================================================
